--------------------------- MODULE DeviceFlowProofs ---------------------------
(***************************************************************************)
(* The thread that polls keeps its distance, for every number of token     *)
(* requests under way and every bound on the interval.                     *)
(***************************************************************************)
EXTENDS DeviceFlow, FiniteSetTheorems, TLAPS

\* Nothing is polled, and no answer to a poll is on its way, before the server
\* has answered the initial request.
IsAnswer(b) == b.call \in {"callback", "inspect"}

PhaseInv ==
    phase # "polling" =>
        /\ asked = [given |-> "no", value |-> 0]
        /\ loop = "off" /\ polls = 0 /\ slowDowns = "no" /\ slowed = "no"
        /\ \A i \in 1 .. Len(mainQueue) : ~IsAnswer(mainQueue[i])

\* The interval is always one that the thread may sleep for next.
IntervalInv ==
    phase = "polling" =>
        /\ loop # "off" /\ interval # 0 /\ interval >= asked.value
        /\ asked.given = "no" \/ slowDowns = "yes" => interval >= 50

IInv == TypeOK /\ PhaseInv /\ IntervalInv /\ PollsSpaced

\* What is known of the variables, for the provers in one place.
LEMMA Types ==
    ASSUME TypeOK
    PROVE  /\ interval \in Int /\ interval <= MaxInterval /\ slept \in Int /\ slept <= MaxInterval
           /\ asked.value \in Int /\ asked.value <= MaxInterval
           /\ mainQueue \in Seq(Blocks) /\ MaxInterval \in Nat /\ MaxInterval >= 50
           /\ polls \in Nat /\ completions \in Seq({"success", "error", "cancelled"})
  <1>1. /\ mainQueue \in Seq(Blocks) /\ MaxInterval \in Nat /\ MaxInterval >= 50
        /\ polls \in Nat /\ completions \in Seq({"success", "error", "cancelled"})
    BY BoundsAssumption DEF TypeOK
  <1>2. \A n \in Intervals \cup 0 .. MaxInterval : n \in Int /\ n <= MaxInterval
    BY <1>1, IntervalsAssumption
  <1>3. /\ interval \in Intervals \cup 0 .. MaxInterval /\ slept \in Intervals \cup 0 .. MaxInterval
        /\ asked.value \in Intervals \cup 0 .. MaxInterval
    BY <1>1 DEF TypeOK
  <1>. QED BY <1>1, <1>2, <1>3

\* Dispatching to the main queue, taking a block from it, and both.
LEMMA QueueAppend ==
    ASSUME NEW q \in Seq(Blocks), NEW b \in Blocks
    PROVE  /\ Append(q, b) \in Seq(Blocks)
           /\ (\A i \in 1 .. Len(q) : ~IsAnswer(q[i])) /\ ~IsAnswer(b)
                => \A i \in 1 .. Len(Append(q, b)) : ~IsAnswer(Append(q, b)[i])
  <1>1. /\ Append(q, b) \in Seq(Blocks) /\ Len(Append(q, b)) = Len(q) + 1 /\ Len(q) \in Nat
        /\ \A i \in 1 .. Len(q) : Append(q, b)[i] = q[i]
        /\ Append(q, b)[Len(q) + 1] = b
    OBVIOUS
  <1>. QED BY <1>1

\* What taking the first block off the main queue leaves.
LEMMA QueueTail ==
    ASSUME NEW q \in Seq(Blocks), q # <<>>
    PROVE  /\ Tail(q) \in Seq(Blocks) /\ Head(q) \in Blocks
           /\ (\A i \in 1 .. Len(q) : ~IsAnswer(q[i]))
                => ~IsAnswer(Head(q)) /\ \A i \in 1 .. Len(Tail(q)) : ~IsAnswer(Tail(q)[i])
  <1>1. /\ Tail(q) \in Seq(Blocks) /\ Head(q) \in Blocks /\ Len(q) \in Nat \ {0}
        /\ Len(Tail(q)) = Len(q) - 1 /\ Head(q) = q[1]
        /\ \A i \in 1 .. Len(Tail(q)) : Tail(q)[i] = q[i + 1]
    OBVIOUS
  <1>. QED BY <1>1

\* The blocks that are dispatched.
LEMMA BlockTypes ==
    /\ \A w \in {"response", "error"} :
          Block("initialization", w) \in Blocks /\ ~IsAnswer(Block("initialization", w))
    /\ \A w \in {"success", "error", "cancelled"} :
          Block("completion", w) \in Blocks /\ ~IsAnswer(Block("completion", w))
    /\ \A w \in Answers : Block("callback", w) \in Blocks /\ Block("inspect", w) \in Blocks
  BY DEF Block, Blocks, IsAnswer

\* What the blocks at the head of the main queue are called with.
LEMMA HeadTypes ==
    ASSUME TypeOK, NEW call, Turn(call)
    PROVE  /\ mainQueue # <<>> /\ Tail(mainQueue) \in Seq(Blocks)
           /\ call = "initialization" => Head(mainQueue).with \in {"response", "error"}
           /\ call \in {"callback", "inspect"} => Head(mainQueue).with \in Answers
           /\ call = "completion" => Head(mainQueue).with \in {"success", "error", "cancelled"}
           /\ call \in {"callback", "inspect"} => phase = "polling" \/ ~PhaseInv
  <1>1. Head(mainQueue) \in Blocks /\ Tail(mainQueue) \in Seq(Blocks) /\ mainQueue # <<>>
    BY Types, QueueTail DEF Turn
  <1>2. call \in {"callback", "inspect"} /\ PhaseInv => phase = "polling"
    <2>1. call \in {"callback", "inspect"} => IsAnswer(Head(mainQueue))
      BY DEF Turn, IsAnswer
    <2>. QED BY <1>1, <2>1, Types, QueueTail DEF PhaseInv
  <1>. QED BY <1>1, <1>2 DEF Turn, Blocks

\* The initial request and its answer.
LEMMA RequestStep ==
    ASSUME IInv, InitialRequestFails \/ InitialRequestSucceeds
    PROVE  IInv'
  <1>1. TypeOK /\ PhaseInv
    BY DEF IInv
  <1>2. CASE InitialRequestFails
    <2>1. /\ mainQueue' \in Seq(Blocks)
          /\ \A i \in 1 .. Len(mainQueue') : ~IsAnswer(mainQueue'[i])
      BY <1>1, <1>2, Types, BlockTypes, QueueAppend DEF InitialRequestFails, Dispatch, PhaseInv
    <2>2. TypeOK'
      BY <1>1, <1>2, <2>1 DEF InitialRequestFails, TypeOK
    <2>3. PhaseInv' /\ IntervalInv' /\ PollsSpaced'
      BY <1>1, <1>2, <2>1 DEF InitialRequestFails, PhaseInv, IntervalInv, PollsSpaced
    <2>. QED BY <2>2, <2>3 DEF IInv
  <1>3. CASE InitialRequestSucceeds
    <2>1. mainQueue' \in Seq(Blocks)
      BY <1>1, <1>3, Types, BlockTypes, QueueAppend DEF InitialRequestSucceeds, Dispatch
    <2>2. slept' = interval' /\ phase' = "polling" /\ loop' = "sleep" /\ interval' = StartingInterval
      BY <1>3 DEF InitialRequestSucceeds
    <2>3. slowDowns' = "no" /\ slowed' = "no"
      BY <1>1, <1>3 DEF InitialRequestSucceeds, PhaseInv
    <2>4. \/ asked' = [given |-> "no", value |-> 0] /\ interval' = 50
          \/ /\ asked' = [given |-> "yes", value |-> asked'.value] /\ asked'.value \in Intervals
             /\ interval' = IF asked'.value = 0 THEN 10 ELSE asked'.value
      <3>1. CASE UNCHANGED asked
        BY <1>1, <1>3, <2>2, <3>1 DEF InitialRequestSucceeds, PhaseInv, StartingInterval
      <3>2. ASSUME NEW i \in Intervals, asked' = [given |-> "yes", value |-> i] PROVE <2>4
        BY <2>2, <3>2 DEF StartingInterval
      <3>. QED BY <1>3, <3>1, <3>2 DEF InitialRequestSucceeds
    <2>5. /\ interval' \in Intervals \cup 0 .. MaxInterval /\ interval' # 0
          /\ asked' \in [given : {"yes", "no"}, value : Intervals \cup {0}]
          /\ interval' \in Int /\ interval' >= asked'.value
          /\ asked'.given = "no" => interval' >= 50
      BY <2>4, BoundsAssumption, IntervalsAssumption
    <2>6. TypeOK'
      BY <1>1, <1>3, <2>1, <2>2, <2>3, <2>5 DEF InitialRequestSucceeds, TypeOK
    <2>7. PhaseInv' /\ IntervalInv' /\ PollsSpaced'
      BY <2>2, <2>3, <2>5 DEF PhaseInv, IntervalInv, PollsSpaced
    <2>. QED BY <2>6, <2>7 DEF IInv
  <1>. QED BY <1>2, <1>3

\* The polling thread sleeps for the interval as it is when it goes to sleep.
LEMMA ThreadStep ==
    ASSUME IInv, Poll \/ TestLoop
    PROVE  IInv'
  <1>1. TypeOK /\ PhaseInv /\ IntervalInv /\ PollsSpaced
    BY DEF IInv
  <1>2. phase = "polling"
    BY <1>1 DEF Poll, TestLoop, PhaseInv, TypeOK
  <1>3. TypeOK'
    <2>1. CASE Poll
      <3>1. polls' \in 0 .. MaxOutstanding
        <4>1. CASE Outstanding < MaxOutstanding /\ polls' = polls + 1
          <5>. DEFINE rest == Cardinality({i \in 1 .. Len(mainQueue) :
                                             mainQueue[i].call \in {"callback", "inspect"}})
          <5>1. rest \in Nat
            <6>1. IsFiniteSet(1 .. Len(mainQueue))
              BY <1>1, Types, FS_Interval
            <6>. QED BY <6>1, FS_Subset, FS_CardinalityType
          <5>2. polls + rest < MaxOutstanding
            BY <4>1 DEF Outstanding
          <5>. HIDE DEF rest
          <5>. QED BY <1>1, <4>1, <5>1, <5>2, Types, BoundsAssumption
        <4>. QED BY <1>1, <2>1, <4>1 DEF Poll, TypeOK
      <3>. QED BY <1>1, <2>1, <3>1 DEF Poll, TypeOK
    <2>2. CASE TestLoop
      BY <1>1, <2>2 DEF TestLoop, TypeOK
    <2>. QED BY <2>1, <2>2
  <1>4. PhaseInv' /\ IntervalInv'
    BY <1>1, <1>2 DEF Poll, TestLoop, PhaseInv, IntervalInv
  <1>5. PollsSpaced'
    BY <1>1, <1>2, Types DEF Poll, TestLoop, IntervalInv, PollsSpaced
  <1>. QED BY <1>3, <1>4, <1>5 DEF IInv

\* Answers of the token endpoint, cancellations and the end of the device code.
LEMMA OutsideStep ==
    ASSUME IInv, Cancel \/ Expire \/ Answer
    PROVE  IInv'
  <1>1. TypeOK /\ PhaseInv /\ IntervalInv /\ PollsSpaced
    BY DEF IInv
  <1>2. UNCHANGED <<phase, asked, loop, slept, slowed, interval, slowDowns>>
    BY DEF Cancel, Expire, Answer, Answered, poller
  <1>3. IntervalInv' /\ PollsSpaced'
    BY <1>1, <1>2 DEF IntervalInv, PollsSpaced
  <1>4. CASE Cancel
    <2>1. mainQueue' = mainQueue \/ mainQueue' = Append(mainQueue, Block("completion", "cancelled"))
      BY <1>4 DEF Cancel, Dispatch
    <2>2. mainQueue' \in Seq(Blocks)
      BY <1>1, <2>1, Types, BlockTypes, QueueAppend
    <2>3. TypeOK'
      BY <1>1, <1>4, <2>2, BoundsAssumption DEF Cancel, poller, TypeOK
    <2>4. PhaseInv'
      BY <1>1, <1>2, <1>4, <2>1, Types, BlockTypes, QueueAppend DEF Cancel, PhaseInv
    <2>. QED BY <1>3, <2>3, <2>4 DEF IInv
  <1>5. CASE Expire
    BY <1>1, <1>3, <1>5 DEF Expire, poller, IInv, TypeOK, PhaseInv
  <1>6. ASSUME NEW w \in Answers, Answered(w) PROVE IInv'
    <2>1. mainQueue' \in Seq(Blocks)
      BY <1>1, <1>6, Types, BlockTypes, QueueAppend DEF Answered, Dispatch
    <2>2. polls' \in 0 .. MaxOutstanding
      BY <1>1, <1>6, BoundsAssumption DEF Answered, TypeOK
    <2>3. TypeOK'
      BY <1>1, <1>6, <2>1, <2>2 DEF Answered, poller, TypeOK
    <2>4. PhaseInv'
      BY <1>1, <1>2, <1>6, Types DEF Answered, PhaseInv
    <2>. QED BY <1>3, <2>3, <2>4 DEF IInv
  <1>. QED BY <1>4, <1>5, <1>6 DEF Answer

\* The main thread: only a slow_down changes the interval, and never to less
\* than five seconds.
LEMMA MainStep ==
    ASSUME IInv, MainThread
    PROVE  IInv'
  <1>1. TypeOK /\ PhaseInv /\ IntervalInv /\ PollsSpaced
    BY DEF IInv
  <1>2. CASE CallInitialization \/ CallCompletion
    <2>1. PICK call \in {"initialization", "completion"} : Turn(call)
      BY <1>2 DEF CallInitialization, CallCompletion
    <2>2. mainQueue' = Tail(mainQueue) /\ mainQueue # <<>> /\ mainQueue' \in Seq(Blocks)
      BY <1>1, <1>2, <2>1, HeadTypes DEF CallInitialization, CallCompletion
    <2>3. UNCHANGED <<phase, asked, loop, slept, slowed, interval, slowDowns, polls, pollRunning, expired, cancels>>
      BY <1>2 DEF CallInitialization, CallCompletion, poller
    <2>4. /\ initialized' \in {"no", "response", "error"}
          /\ completions' \in Seq({"success", "error", "cancelled"})
      <3>1. CASE CallInitialization
        <4>1. Turn("initialization")
          BY <3>1 DEF CallInitialization
        <4>2. Head(mainQueue).with \in {"response", "error"}
          BY <1>1, <4>1, HeadTypes
        <4>3. initialized' = Head(mainQueue).with /\ UNCHANGED completions
          BY <3>1 DEF CallInitialization
        <4>. QED BY <1>1, <4>2, <4>3, Types
      <3>2. CASE CallCompletion
        <4>1. Turn("completion")
          BY <3>2 DEF CallCompletion
        <4>2. Head(mainQueue).with \in {"success", "error", "cancelled"}
          BY <1>1, <4>1, HeadTypes
        <4>3. UNCHANGED initialized /\ completions' \in {completions, Append(completions, Head(mainQueue).with)}
          BY <3>2 DEF CallCompletion
        <4>4. completions' \in Seq({"success", "error", "cancelled"})
          <5>1. completions \in Seq({"success", "error", "cancelled"})
            BY <1>1, Types
          <5>. QED BY <4>2, <4>3, <5>1
        <4>. QED BY <1>1, <4>3, <4>4 DEF TypeOK
      <3>. QED BY <1>2, <3>1, <3>2
    <2>5. TypeOK'
      BY <1>1, <2>2, <2>3, <2>4 DEF TypeOK
    <2>6. PhaseInv'
      BY <1>1, <2>2, <2>3, Types, QueueTail DEF PhaseInv
    <2>. QED BY <1>1, <2>3, <2>5, <2>6 DEF IInv, IntervalInv, PollsSpaced
  <1>3. CASE Callback \/ Inspect
    <2>1. PICK call \in {"callback", "inspect"} : Turn(call)
      BY <1>3 DEF Callback, Inspect, InspectPending, InspectSlowDown, InspectFinal
    <2>2. phase = "polling" /\ Tail(mainQueue) \in Seq(Blocks) /\ Head(mainQueue).with \in Answers
      BY <1>1, <2>1, HeadTypes
    <2>3. mainQueue' \in Seq(Blocks)
      BY <1>3, <2>2, BlockTypes, QueueAppend
         DEF Callback, Inspect, InspectPending, InspectSlowDown, InspectFinal, Dispatched
    <2>4. UNCHANGED <<phase, asked, loop, slept, slowed, polls, expired, cancels, initialized, completions>>
      BY <1>3 DEF Callback, Inspect, InspectPending, InspectSlowDown, InspectFinal, poller
    <2>5. CASE InspectSlowDown
      <3>1. interval' \in 50 .. MaxInterval /\ interval' >= interval /\ slowDowns' = "yes" /\ UNCHANGED pollRunning
        <4>. DEFINE n == (interval * 12) \div 10
        <4>1. interval' = AtMost(AtLeast(n, 50), MaxInterval)
          BY <2>5 DEF InspectSlowDown
        <4>2. n \in Int /\ (n >= interval \/ 50 >= interval)
          BY <1>1, Types
        <4>. HIDE DEF n
        <4>. QED BY <1>1, <2>5, <4>1, <4>2, Types DEF AtMost, AtLeast, InspectSlowDown
      <3>2. TypeOK'
        BY <1>1, <2>3, <2>4, <3>1 DEF TypeOK
      <3>3. IntervalInv' /\ PollsSpaced'
        BY <1>1, <2>2, <2>4, <3>1, Types DEF IntervalInv, PollsSpaced
      <3>. QED BY <2>2, <2>4, <3>2, <3>3 DEF IInv, PhaseInv
    <2>6. CASE ~InspectSlowDown
      <3>1. UNCHANGED <<interval, slowDowns>> /\ pollRunning' \in {pollRunning, "no"}
        BY <1>3, <2>6 DEF Callback, Inspect, InspectPending, InspectFinal
      <3>2. TypeOK'
        BY <1>1, <2>3, <2>4, <3>1 DEF TypeOK
      <3>. QED BY <1>1, <2>2, <2>4, <3>1, <3>2 DEF IInv, PhaseInv, IntervalInv, PollsSpaced
    <2>. QED BY <2>5, <2>6
  <1>. QED BY <1>2, <1>3 DEF MainThread

\* The inductive invariant holds in every reachable state: one step per action
\* of Next.
LEMMA Invariant == Spec => []IInv
  <1>1. Init => IInv
    <2>. SUFFICES ASSUME Init PROVE IInv
      OBVIOUS
    <2>1. mainQueue \in Seq(Blocks) /\ completions \in Seq({"success", "error", "cancelled"})
      BY DEF Init
    <2>. QED BY <2>1, BoundsAssumption DEF Init, IInv, TypeOK, PhaseInv, IntervalInv, PollsSpaced
  <1>2. IInv /\ [Next]_vars => IInv'
    <2>1. ASSUME IInv, UNCHANGED vars PROVE IInv'
      BY <2>1 DEF vars, poller, IInv, TypeOK, PhaseInv, IntervalInv, PollsSpaced
    <2>. QED BY <2>1, RequestStep, ThreadStep, OutsideStep, MainStep DEF Next
  <1>. QED BY <1>1, <1>2, PTL DEF Spec

-----------------------------------------------------------------------------

\* The variables have their types, whatever the bounds: in particular no more
\* requests are under way than the server is allowed to be late with.
THEOREM TypeCorrect == Spec => []TypeOK
  <1>1. IInv => TypeOK
    BY DEF IInv
  <1>. QED BY <1>1, Invariant, PTL

\* Whatever interval the server asks for, and however answers, slow_downs and
\* cancellations fall between two polls, the thread never polls without having
\* slept for that long, five seconds if none was given and not zero; sleeps never
\* get shorter; and they last five seconds at least once it has gone to sleep
\* after a slow_down.
THEOREM PollsAlwaysSpaced == Spec => []PollsSpaced
  <1>1. IInv => PollsSpaced
    BY DEF IInv
  <1>. QED BY <1>1, Invariant, PTL

=============================================================================
