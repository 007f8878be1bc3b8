----------------------------- MODULE DeviceFlow -----------------------------
(***************************************************************************)
(* OIDTVAuthorizationService: the authorization of a device that shows a   *)
(* code and polls the token endpoint until the user has entered the code   *)
(* elsewhere.                                                              *)
(*                                                                         *)
(* A background thread sleeps and polls; it does not wait for the answers. *)
(* An answer passes through the main queue twice before it is acted on     *)
(* and a third time before the completion block is called, and the block   *)
(* that cancels the flow may be called in between.                         *)
(***************************************************************************)
EXTENDS Integers, Sequences, FiniteSets

CONSTANTS MaxOutstanding,  \* token requests made and not acted on at a time: more
                           \* than 1 when the server is slower than the interval
          MaxCancels,      \* bound: calls of the cancel block
          Intervals,       \* what the server may ask for, in tenths of a second: any
                           \* number, also less than ten and less than zero
          MaxInterval      \* bound: interval, in tenths of a second

ASSUME BoundsAssumption == /\ MaxOutstanding \in Nat /\ MaxCancels \in Nat
                           /\ MaxInterval \in Nat /\ MaxInterval >= 50
ASSUME IntervalsAssumption == Intervals \subseteq Int /\ \A i \in Intervals : i <= MaxInterval

VARIABLES
    pollRunning,   \* "yes" or "no"
    phase,         \* "request" until the initial request is answered, then "failed" or "polling"
    loop,          \* the background thread: "off", "sleep", "test" or "ended"
    asked,         \* TVAuthorizationResponse.interval: whether there is one, and doubleValue
    interval,      \* tenths of a second
    slept,         \* how long the thread is to sleep or has slept last: not at all
                   \* when this is negative
    slowDowns,     \* whether a slow_down has been acted on, now and when the
    slowed,        \* thread last went to sleep
    polls,         \* token requests without an answer
    expired,       \* the device code has expired
    cancels,       \* calls of the cancel block
    mainQueue,     \* blocks dispatched to the main queue
    initialized,   \* what the initialization block was called with
    completions    \* what the completion block was called with (the first three times)

poller == <<phase, asked, loop, slept, slowed>>
vars   == <<pollRunning, poller, interval, slowDowns, polls, expired, cancels, mainQueue, initialized, completions>>

-----------------------------------------------------------------------------

Answers == {"success", "authorization_pending", "slow_down", "error"}

\* Blocks on the main queue: a call of initialization, the callback of a token
\* request, what the callback dispatches, a call of completion.
Blocks ==
    [call : {"initialization"}, with : {"response", "error"}]
      \cup [call : {"callback", "inspect"}, with : Answers]
      \cup [call : {"completion"}, with : {"success", "error", "cancelled"}]

TypeOK ==
    /\ pollRunning \in {"yes", "no"}
    /\ phase \in {"request", "failed", "polling"}
    /\ loop \in {"off", "sleep", "test", "ended"}
    /\ asked \in [given : {"yes", "no"}, value : Intervals \cup {0}]
    /\ interval \in Intervals \cup 0 .. MaxInterval /\ slept \in Intervals \cup 0 .. MaxInterval
    /\ slowDowns \in {"yes", "no"} /\ slowed \in {"yes", "no"}
    /\ polls \in 0 .. MaxOutstanding
    /\ expired \in {"yes", "no"}
    /\ cancels \in 0 .. MaxCancels
    /\ mainQueue \in Seq(Blocks)
    /\ initialized \in {"no", "response", "error"}
    /\ completions \in Seq({"success", "error", "cancelled"})

Init ==
    /\ pollRunning = "yes" /\ phase = "request" /\ asked = [given |-> "no", value |-> 0]
    /\ loop = "off" /\ interval = 0 /\ slept = 0 /\ slowDowns = "no" /\ slowed = "no"
    /\ polls = 0 /\ expired = "no" /\ cancels = 0
    /\ mainQueue = <<>> /\ initialized = "no" /\ completions = <<>>

Block(call, with) == [call |-> call, with |-> with]
Dispatch(call, with) == mainQueue' = Append(mainQueue, Block(call, with))

-----------------------------------------------------------------------------

\* The cancel block, called on the main thread
Cancel ==
    /\ cancels < MaxCancels
    /\ cancels' = cancels + 1
    /\ IF pollRunning = "yes" THEN Dispatch("completion", "cancelled") ELSE UNCHANGED mainQueue
    /\ pollRunning' = "no"
    /\ UNCHANGED <<poller, interval, slowDowns, polls, expired, initialized, completions>>

\* Network, HTTP, OAuth, JSON and response errors of the initial request
InitialRequestFails ==
    /\ phase = "request"
    /\ phase' = "failed"
    /\ Dispatch("initialization", "error")
    /\ UNCHANGED <<pollRunning, loop, asked, interval, slowDowns, slept, slowed, polls, expired, cancels,
                   initialized, completions>>

\* Mutant: taken for one of another unit.
MutStartingInterval == IF asked'.given = "no" THEN 50
                       ELSE IF asked'.value = 0 THEN 10 ELSE 10 * asked'.value

\* Only a missing interval and zero are replaced.
StartingInterval == IF asked'.given = "no" THEN 50
                    ELSE IF asked'.value = 0 THEN 10 ELSE asked'.value

InitialRequestSucceeds ==
    /\ phase = "request"
    /\ phase' = "polling"
    /\ Dispatch("initialization", "response")
    /\ \/ UNCHANGED asked
       \/ \E i \in Intervals : asked' = [given |-> "yes", value |-> i]
    /\ interval' = StartingInterval
    /\ loop' = "sleep" /\ slept' = interval'
    /\ UNCHANGED <<pollRunning, slowDowns, slowed, polls, expired, cancels, initialized, completions>>

-----------------------------------------------------------------------------

\* Token requests whose answers have not been acted on
Outstanding ==
    polls + Cardinality({i \in 1 .. Len(mainQueue) : mainQueue[i].call \in {"callback", "inspect"}})

\* The thread wakes up, and stops or makes a token request.
Poll ==
    /\ loop = "sleep"
    /\ \/ pollRunning = "no" /\ loop' = "ended" /\ UNCHANGED polls
       \/ /\ pollRunning = "yes" /\ Outstanding < MaxOutstanding
          /\ loop' = "test" /\ polls' = polls + 1
    /\ UNCHANGED <<pollRunning, phase, asked, interval, slowDowns, slept, slowed, expired, cancels, mainQueue,
                   initialized, completions>>

\* while (not expired && pollRunning)
TestLoop ==
    /\ loop = "test"
    /\ \/ /\ expired = "no" /\ pollRunning = "yes"
          /\ loop' = "sleep" /\ slept' = interval /\ slowed' = slowDowns
       \/ /\ expired = "yes" \/ pollRunning = "no"
          /\ loop' = "ended" /\ UNCHANGED <<slept, slowed>>
    /\ UNCHANGED <<pollRunning, phase, asked, interval, slowDowns, polls, expired, cancels, mainQueue,
                   initialized, completions>>

\* The token endpoint answers, in any order, or the request times out.
Answered(answer) ==
    /\ polls > 0
    /\ polls' = polls - 1
    /\ Dispatch("callback", answer)
    /\ UNCHANGED <<pollRunning, poller, interval, slowDowns, expired, cancels, initialized, completions>>

Expire ==
    /\ phase = "polling" /\ expired = "no"
    /\ expired' = "yes"
    /\ UNCHANGED <<pollRunning, poller, interval, slowDowns, polls, cancels, mainQueue, initialized, completions>>

-----------------------------------------------------------------------------
(***************************************************************************)
(* The main queue                                                          *)
(***************************************************************************)

Turn(call) == mainQueue # <<>> /\ Head(mainQueue).call = call
Dispatched(call, with) == mainQueue' = Append(Tail(mainQueue), Block(call, with))

CallInitialization ==
    /\ Turn("initialization")
    /\ initialized' = Head(mainQueue).with
    /\ mainQueue' = Tail(mainQueue)
    /\ UNCHANGED <<pollRunning, poller, interval, slowDowns, polls, expired, cancels, completions>>

\* Mutant: the callback takes "not running" for "nothing to do" the wrong way round.
MutCallback ==
    /\ Turn("callback")
    /\ IF pollRunning = "yes" THEN mainQueue' = Tail(mainQueue)
                              ELSE Dispatched("inspect", Head(mainQueue).with)
    /\ UNCHANGED <<pollRunning, poller, interval, slowDowns, polls, expired, cancels, initialized, completions>>

Callback ==
    /\ Turn("callback")
    /\ IF pollRunning = "no" THEN mainQueue' = Tail(mainQueue)
                             ELSE Dispatched("inspect", Head(mainQueue).with)
    /\ UNCHANGED <<pollRunning, poller, interval, slowDowns, polls, expired, cancels, initialized, completions>>

\* Nothing to do yet
InspectPending ==
    /\ Turn("inspect") /\ Head(mainQueue).with = "authorization_pending"
    /\ mainQueue' = Tail(mainQueue)
    /\ UNCHANGED <<pollRunning, poller, interval, slowDowns, polls, expired, cancels, initialized, completions>>

AtLeast(n, m) == IF n < m THEN m ELSE n
AtMost(n, m) == IF n < m THEN n ELSE m

\* Mutant: no lower bound.
MutInspectSlowDown ==
    /\ Turn("inspect") /\ Head(mainQueue).with = "slow_down"
    /\ interval' = AtMost((interval * 12) \div 10, MaxInterval)
    /\ slowDowns' = "yes"
    /\ mainQueue' = Tail(mainQueue)
    /\ UNCHANGED <<pollRunning, poller, polls, expired, cancels, initialized, completions>>

\* 20 % more, and no less than five seconds.  Bound: not more than MaxInterval.
InspectSlowDown ==
    /\ Turn("inspect") /\ Head(mainQueue).with = "slow_down"
    /\ interval' = AtMost(AtLeast((interval * 12) \div 10, 50), MaxInterval)
    /\ slowDowns' = "yes"
    /\ mainQueue' = Tail(mainQueue)
    /\ UNCHANGED <<pollRunning, poller, polls, expired, cancels, initialized, completions>>

\* Mutant: the loop is left running.
MutInspectFinal ==
    /\ Turn("inspect") /\ Head(mainQueue).with \in {"success", "error"}
    /\ Dispatched("completion", Head(mainQueue).with)
    /\ UNCHANGED <<pollRunning, poller, interval, slowDowns, polls, expired, cancels, initialized, completions>>

\* Success, or an error that ends the flow
InspectFinal ==
    /\ Turn("inspect") /\ Head(mainQueue).with \in {"success", "error"}
    /\ pollRunning' = "no"
    /\ Dispatched("completion", Head(mainQueue).with)
    /\ UNCHANGED <<poller, interval, slowDowns, polls, expired, cancels, initialized, completions>>

CallCompletion ==
    /\ Turn("completion")
    /\ completions' = IF Len(completions) < 3 THEN Append(completions, Head(mainQueue).with)
                                              ELSE completions
    /\ mainQueue' = Tail(mainQueue)
    /\ UNCHANGED <<pollRunning, poller, interval, slowDowns, polls, expired, cancels, initialized>>

-----------------------------------------------------------------------------

Inspect == InspectPending \/ InspectSlowDown \/ InspectFinal

MainThread == CallInitialization \/ Callback \/ Inspect \/ CallCompletion

Answer == \E answer \in Answers : Answered(answer)

Next == \/ Cancel
        \/ InitialRequestFails \/ InitialRequestSucceeds
        \/ Poll \/ TestLoop
        \/ Answer \/ Expire
        \/ MainThread

Spec == Init /\ [][Next]_vars

\* Requests are answered, if only with a timeout, and threads and queues run.
Fairness == /\ WF_vars(InitialRequestFails \/ InitialRequestSucceeds)
            /\ WF_vars(Poll) /\ WF_vars(TestLoop) /\ WF_vars(Answer)
            /\ WF_vars(MainThread)

FairSpec == Spec /\ Fairness

-----------------------------------------------------------------------------
(***************************************************************************)
(* Properties                                                              *)
(***************************************************************************)

\* The thread never polls without having slept for as long as the server asked,
\* for five seconds when it did not say, and not for zero, which the code replaces
\* "to prevent infinite polling"; no sleep is shorter than the last; and once a
\* slow_down has been acted on and the thread has gone to sleep again it sleeps for
\* five seconds at least.  (A server that asks for a fraction of a second is polled
\* as often, one that asks for less than zero without a pause, until it says
\* slow_down.)
PollsSpaced ==
    loop # "off" =>
        /\ slept # 0 /\ slept >= asked.value
        /\ asked.given = "no" \/ slowed = "yes" => slept >= 50
        /\ interval >= slept

\* OIDTVAuthorizationService.h:98: completion is the "Block that is called on the
\* success or failure of the authorization": when nobody cancels, once at most.
OneCompletion == Len(completions) <= 1

\* A flow the completion block has been called for is over: its thread ends,
\* and does not go on until the device code expires.
ThreadEnds == (completions # <<>> /\ loop # "off") ~> (loop = "ended")

\* An answer that ends the flow reaches the application, unless the flow was
\* cancelled or had another end, which reaches it too.
AnswerReported ==
    (\E i \in 1 .. Len(mainQueue) : /\ mainQueue[i].call = "callback"
                                    /\ mainQueue[i].with \in {"success", "error"})
        ~> (completions # <<>>)

=============================================================================
