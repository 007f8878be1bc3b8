---------------------------- MODULE MachHeaders ----------------------------
(***************************************************************************)
(* The crash recorder's own list of the binary images of the process       *)
(* (BSG_KSMachHeaders.c).  dyld calls add_image and remove_image on the    *)
(* threads that load and unload; the readers walk the list without a lock, *)
(* also from a crash handler that has suspended a loader anywhere.         *)
(*                                                                         *)
(* The list is linked: a record is appended on the serial queue (head or   *)
(* tail->next, then tail, which only the queue reads), never unlinked, and *)
(* marked as unloaded, one record after the other.                         *)
(***************************************************************************)
EXTENDS Integers, Sequences, FiniteSets, SequencesExt

CONSTANTS
  Image,        \* binary images
  Loader,       \* threads that load and unload
  Scarce,       \* bound: the images for whose record there may be no memory
  Unnamed,      \* images for which populate_info fails (no name, corrupt header)
  VmAddr        \* of each image, the preferred address of the __TEXT segment, as in the file

ASSUME ImagesAssumption == Unnamed \subseteq Image /\ VmAddr \in [Image -> Nat]

VARIABLES
  mapped,       \* the images that are in memory
  list,         \* the records of the list from its head
  loader,       \* what each thread is at
  unrecorded    \* history: the images in memory for whose record there was none

imageVars == <<mapped, list, loader, unrecorded>>

Idle == [at |-> "idle"]

(* bsg_mach_headers_populate_info: a header with commands, and a name. *)
PopulateInfo(image) == image \notin Unnamed

ImagesTypeOK ==
  /\ mapped \subseteq Image
  /\ list \in Seq([image : Image \ Unnamed, unloaded : BOOLEAN])
  /\ loader \in [Loader -> {Idle} \cup [at : {"adding"}, image : Image]
                                 \cup [at : {"removing"}, image : Image, next : Nat]]
  /\ unrecorded \subseteq mapped
  /\ \A t \in Loader :
       /\ loader[t] # Idle => loader[t].image \in mapped
       /\ loader[t].at = "removing" => loader[t].next \in 1 .. Len(list) + 1

ImagesInit ==
  /\ mapped = {}
  /\ list = <<>>
  /\ loader = [t \in Loader |-> Idle]
  /\ unrecorded = {}

Busy(image) == \E t \in Loader : loader[t] # Idle /\ loader[t].image = image

-----------------------------------------------------------------------------
(* dyld maps the image, then calls add_image, which allocates a record and *)
(* populates it.                                                           *)
LoadImage(t, image) ==
  /\ loader[t] = Idle
  /\ image \notin mapped
  /\ mapped' = mapped \cup {image}
  /\ loader' = [loader EXCEPT ![t] = [at |-> "adding", image |-> image]]
  /\ UNCHANGED <<list, unrecorded>>

(* The block on the serial queue.  A record that was not populated is left *)
(* out (and leaks); without memory for one nothing is said.                *)
AddImage(t) ==
  /\ loader[t].at = "adding"
  /\ \/ /\ list' = IF PopulateInfo(loader[t].image) THEN Append(list, [image |-> loader[t].image, unloaded |-> FALSE])
                   ELSE list
        /\ UNCHANGED unrecorded
     \/ /\ loader[t].image \in Scarce
        /\ unrecorded' = unrecorded \cup {loader[t].image}
        /\ UNCHANGED list
  /\ loader' = [loader EXCEPT ![t] = Idle]
  /\ UNCHANGED mapped

(* dyld calls remove_image before it unmaps; where populate_info fails the *)
(* list is left as it is.                                                  *)
BeginRemoveImage(t, image) ==
  /\ loader[t] = Idle
  /\ image \in mapped /\ ~Busy(image)
  /\ loader' = [loader EXCEPT ![t] = [at |-> "removing", image |-> image,
                                      next |-> IF PopulateInfo(image) THEN 1 ELSE Len(list) + 1]]
  /\ UNCHANGED <<mapped, list, unrecorded>>

(* Mutant: only the first record is looked at, which ends the walk. *)
MutRemoveImage(t) ==
  /\ loader[t].at = "removing" /\ loader[t].next <= Len(list)
  /\ list' = [list EXCEPT ![loader[t].next] =
                [image |-> @.image, unloaded |-> @.unloaded \/ VmAddr[@.image] = VmAddr[loader[t].image]]]
  /\ loader' = [loader EXCEPT ![t].next = Len(list) + 1]
  /\ UNCHANGED <<mapped, unrecorded>>

(* One record: whatever has the preferred address of the image is marked,  *)
(* an image that stays loaded too, where several images have the same (for *)
(* dynamic libraries it is 0 as a rule).                                   *)
RemoveImage(t) ==
  /\ loader[t].at = "removing" /\ loader[t].next <= Len(list)
  /\ list' = [list EXCEPT ![loader[t].next] =
                [image |-> @.image, unloaded |-> @.unloaded \/ VmAddr[@.image] = VmAddr[loader[t].image]]]
  /\ loader' = [loader EXCEPT ![t] = [at |-> "removing", image |-> @.image, next |-> @.next + 1]]
  /\ UNCHANGED <<mapped, unrecorded>>

EndRemoveImage(t) ==
  /\ loader[t].at = "removing" /\ loader[t].next > Len(list)
  /\ mapped' = mapped \ {loader[t].image}
  /\ unrecorded' = unrecorded \ {loader[t].image}
  /\ loader' = [loader EXCEPT ![t] = Idle]
  /\ UNCHANGED list

ImagesNext ==
  \E t \in Loader :
    \/ \E image \in Image : LoadImage(t, image) \/ BeginRemoveImage(t, image)
    \/ AddImage(t) \/ RemoveImage(t) \/ EndRemoveImage(t)

-----------------------------------------------------------------------------
(* Readers. *)

(* What a reader that skips the unloaded records meets. *)
Listed ==
  LET walked[i \in 0 .. Len(list)] ==
        IF i = 0 THEN <<>>
        ELSE IF ~list[i].unloaded THEN Append(walked[i - 1], list[i]) ELSE walked[i - 1]
  IN  walked[Len(list)]

(* image_at_address for an address in an image: the images do not overlap. *)
ImageAtAddress(image) ==
  IF \E i \in DOMAIN Listed : Listed[i].image = image THEN {image} ELSE {}

(* The __crash_info section of the image: a message of a known version     *)
(* whose text can be read to its end.                                      *)
CrashInfoMessage(info) ==
  /\ info.section /\ info.readable
  /\ info.version <= 5
  /\ info.message \in {"text"}

-----------------------------------------------------------------------------
(* Whenever the list is read, no record leads to an image that is gone,    *)
(* and an image that is loaded, has been announced and is not being        *)
(* unloaded is there once, provided that no other image has its address    *)
(* and that there was memory for its record.                               *)
ImagesExact ==
  LET valid == {i \in DOMAIN list : ~list[i].unloaded}
  IN  /\ \A i \in valid : list[i].image \in mapped
      /\ \A i, j \in valid : list[i].image = list[j].image => i = j
      /\ \A image \in mapped \ (Unnamed \cup unrecorded) :
           ~Busy(image) /\ (\A other \in Image \ {image} : VmAddr[other] # VmAddr[image])
             => \E i \in valid : list[i].image = image

=============================================================================
