---------------------------- MODULE EventCustody ----------------------------
(***************************************************************************)
(* What Bugsnag's error delivery promises about each event the application *)
(* hands to it, whatever the threads, queues and files that carry it out:  *)
(* the library has custody of the event, in memory or in a file, until the *)
(* event meets exactly one fate.                                           *)
(*                                                                         *)
(* EventUploader implements this specification.                            *)
(***************************************************************************)
EXTENDS Integers, FiniteSets

CONSTANTS Events,              \* everything the application may report
          MaxPersistedEvents   \* configuration.maxPersistedEvents

VARIABLES custody,    \* where each event is, or what became of it
          stamp       \* creation date of the event's file, 0 if it has none

vars == <<custody, stamp>>

-----------------------------------------------------------------------------

Held(e) == custody[e] \in {"memory", "disk"}

\* At least maxPersistedEvents files were created after the file of e.
Outnumbered(e) ==
    Cardinality({f \in Events : stamp[f] > stamp[e]}) >= MaxPersistedEvents

\* The file of e is created, and is the newest of all.
Stamped(e) ==
    /\ stamp[e] = 0
    /\ stamp'[e] \in Nat
    /\ \A f \in Events : stamp[f] < stamp'[e]
    /\ stamp' = [stamp EXCEPT ![e] = stamp'[e]]

Init == /\ custody = [e \in Events |-> "new"]
        /\ stamp = [e \in Events |-> 0]

-----------------------------------------------------------------------------

\* A handled error waits in memory.
Accept(e) ==
    /\ custody[e] = "new"
    /\ custody' = [custody EXCEPT ![e] = "memory"]
    /\ UNCHANGED stamp

\* An event gets a file: at once (unhandled) or when sending it has failed.
Persist(e) ==
    /\ custody[e] \in {"new", "memory"}
    /\ custody' = [custody EXCEPT ![e] = "disk"]
    /\ Stamped(e)

\* The server has confirmed it, and it is let go.
Deliver(e) ==
    /\ Held(e)
    /\ custody' = [custody EXCEPT ![e] = "delivered"]
    /\ UNCHANGED stamp

\* The client decides against sending it, or the server will never take it.
Discard(e) ==
    /\ Held(e)
    /\ custody' = [custody EXCEPT ![e] = "discarded"]
    /\ UNCHANGED stamp

\* It can be lost only while it has no file: turned away, nowhere to send it,
\* not written.
Lose(e) ==
    /\ custody[e] \in {"new", "memory"}
    /\ custody' = [custody EXCEPT ![e] = "lost"]
    /\ UNCHANGED stamp

\* Room is made for newer events, and only for them.
Evict(e) ==
    /\ custody[e] = "disk"
    /\ Outnumbered(e)
    /\ custody' = [custody EXCEPT ![e] = "evicted"]
    /\ UNCHANGED stamp

\* The process ends.  What was only in memory is lost, no file is, and the
\* crash itself may leave a report R = {r} (or none, R = {}).
Die(R) ==
    /\ \A r \in R : custody[r] = "new"
    /\ custody' = [e \in Events |-> IF custody[e] = "memory" THEN "lost"
                                    ELSE IF e \in R THEN "disk" ELSE custody[e]]
    /\ \/ R = {} /\ UNCHANGED stamp
       \/ \E r \in R : R = {r} /\ Stamped(r)

Next == \/ \E e \in Events : \/ Accept(e) \/ Persist(e) \/ Deliver(e)
                             \/ Discard(e) \/ Lose(e) \/ Evict(e)
        \/ Die({}) \/ \E r \in Events : Die({r})

Spec == Init /\ [][Next]_vars

=============================================================================
