---------------------------- MODULE AuthFlowProofs ----------------------------
(***************************************************************************)
(* A callback is called once, with the response that was accepted, for     *)
(* every number of flows that share the user agent.                        *)
(***************************************************************************)
EXTENDS AuthFlow, TLAPS

\* Dismissals as a set of their own, so that the provers need not look inside.
Dismissal == [view : Flows, for : Flows, outcome : Outcomes]

\* A callback has been called once if the flow is over, and not if it is not.
CalledInv ==
    \A s \in Flows : IF flow[s] = "finished" THEN Len(results[s]) = 1 ELSE results[s] = <<>>

\* The user agent knows a session just while a flow is in progress, and none
\* that has taken a URL: from then on only a dismissal can finish it.
AgentInv ==
    /\ inProgress = "no" <=> session = None
    /\ \A s \in Flows : accepted[s] # {} => flow[s] # "new" /\ session # s

\* A view is dismissed to report what was accepted, or for a session that was
\* sent cancel.
DismissInv ==
    \A d \in dismissing : d.for \notin cancelled => d.outcome \in accepted[d.for]

IInv == TypeOK /\ CalledInv /\ AgentInv /\ DismissInv /\ AcceptedResponseWins

\* A dismissal under way is a record of the view, the flow it was for and the
\* outcome.
LEMMA DismissalType ==
    ASSUME NEW v \in Flows, NEW s \in Flows, NEW o \in Outcomes
    PROVE  /\ [view |-> v, for |-> s, outcome |-> o] \in Dismissal
           /\ [view |-> v, for |-> s, outcome |-> o].for = s
           /\ [view |-> v, for |-> s, outcome |-> o].outcome = o
  BY DEF Dismissal

\* The parts of a dismissal have their types.
LEMMA DismissalParts ==
    ASSUME NEW d \in Dismissal
    PROVE  d.view \in Flows /\ d.for \in Flows /\ d.outcome \in Outcomes
  BY DEF Dismissal

\* What finishing a session does: nothing when it is finished already.
LEMMA Finishing ==
    ASSUME TypeOK, CalledInv, NEW s \in Flows, NEW o \in Outcomes, DidFinish(s, o)
    PROVE  /\ flow' \in [Flows -> {"new", "pending", "finished"}]
           /\ results' \in [Flows -> Seq(Outcomes)]
           /\ CalledInv'
           /\ flow'[s] = "finished"
           /\ flow[s] = "finished" => results'[s] = results[s]
           /\ flow[s] # "finished" => results'[s] = <<o>>
           /\ \A t \in Flows \ {s} : flow'[t] = flow[t] /\ results'[t] = results[t]
  <1>1. /\ flow \in [Flows -> {"new", "pending", "finished"}]
        /\ results \in [Flows -> Seq(Outcomes)]
    BY DEF TypeOK
  <1>2. flow' = [flow EXCEPT ![s] = "finished"]
    BY DEF DidFinish
  <1>3. CASE flow[s] = "finished"
    BY <1>1, <1>2, <1>3 DEF DidFinish, CalledInv
  <1>4. CASE flow[s] # "finished"
    <2>1. results[s] = <<>>
      BY <1>4 DEF CalledInv
    <2>2. Append(results[s], o) = <<o>> /\ <<o>> \in Seq(Outcomes) /\ Len(<<o>>) = 1
      BY <2>1
    <2>3. results' = [results EXCEPT ![s] = <<o>>]
      BY <1>4, <2>2 DEF DidFinish
    <2>. QED BY <1>1, <1>2, <1>4, <2>2, <2>3 DEF CalledInv
  <1>. QED BY <1>3, <1>4

\* A step that finishes at most the session s, with an outcome that it has
\* accepted unless it was sent cancel or has accepted nothing.
LEMMA WinsStep ==
    ASSUME IInv, NEW s \in Flows, NEW o \in Outcomes, DidFinish(s, o),
           accepted' \in [Flows -> SUBSET URLs],
           \A t \in Flows \ {s} : accepted'[t] = accepted[t],
           flow[s] = "finished" => accepted'[s] = accepted[s],
           cancelled \subseteq cancelled',
           flow[s] # "finished" => accepted'[s] = {} \/ s \in cancelled' \/ o \in accepted'[s]
    PROVE  AcceptedResponseWins'
  <1>1. TypeOK /\ CalledInv /\ AcceptedResponseWins
    BY DEF IInv
  <1>2. ASSUME NEW t \in Flows, results'[t] # <<>>, accepted'[t] # {}, t \notin cancelled'
        PROVE  results'[t][1] \in accepted'[t]
    <2>1. CASE t # s
      BY <1>1, <1>2, <2>1, Finishing DEF AcceptedResponseWins
    <2>2. CASE t = s /\ flow[s] = "finished"
      BY <1>1, <1>2, <2>2, Finishing DEF AcceptedResponseWins
    <2>3. CASE t = s /\ flow[s] # "finished"
      BY <1>1, <1>2, <2>3, Finishing
    <2>. QED BY <2>1, <2>2, <2>3
  <1>. QED BY <1>2 DEF AcceptedResponseWins

\* A dismissal for the pending session s, to report a URL it has taken or that
\* it was sent cancel.
LEMMA DismissStep ==
    ASSUME IInv, NEW s \in Flows, flow[s] = "pending", NEW o \in Outcomes,
           NEW sh \in [Kinds -> Flows \cup {None}], NEW open \in SUBSET (Kinds \X Flows),
           Dismiss(s, o, sh, open),
           accepted' \in [Flows -> SUBSET URLs],
           \A t \in Flows \ {s} : accepted'[t] = accepted[t], accepted[s] \subseteq accepted'[s],
           cancelled \subseteq cancelled', cancelled' \subseteq Flows,
           s \in cancelled' \/ o \in accepted'[s], UNCHANGED raised
    PROVE  IInv'
  <1>1. /\ TypeOK /\ CalledInv /\ AgentInv /\ DismissInv /\ AcceptedResponseWins
        /\ None \notin Flows
    BY FlowsAssumption DEF IInv
  <1>2. session' = None /\ inProgress' = "no"
    BY <1>1 DEF Dismiss, CleanUp, agent, AgentInv
  <1>3. /\ sheet' \in [Kinds -> Flows \cup {None}] /\ safari' \in Flows \cup {None}
        /\ handlers' \subseteq Kinds \X Flows /\ shown' \subseteq Flows /\ strayed' \subseteq Flows
    <2>1. strayed \cup ({session} \ {s}) \subseteq Flows \/ inProgress = "no"
      BY <1>1 DEF TypeOK, AgentInv
    <2>2. /\ sheet \in [Kinds -> Flows \cup {None}] /\ safari \in Flows \cup {None}
          /\ handlers \subseteq Kinds \X Flows /\ shown \subseteq Flows /\ strayed \subseteq Flows
          /\ NoSheet \in [Kinds -> Flows \cup {None}]
      BY <1>1 DEF TypeOK, NoSheet
    <2>. QED BY <2>1, <2>2 DEF Dismiss, CleanUp, DismissSafari, agent
  <1>4. CASE DismissSafari(s, o) /\ safari # None
    <2>. DEFINE d == [view |-> safari, for |-> s, outcome |-> o]
    <2>1. d \in Dismissal /\ d.for = s /\ d.outcome = o
      BY <1>1, <1>4, DismissalType DEF TypeOK
    <2>2. dismissing' = dismissing \cup {d} /\ UNCHANGED <<flow, results>>
      BY <1>4 DEF DismissSafari
    <2>. HIDE DEF d
    <2>3. TypeOK'
      BY <1>1, <1>2, <1>3, <2>1, <2>2 DEF TypeOK, Dismissal
    <2>4. CalledInv' /\ AgentInv'
      BY <1>1, <1>2, <2>2 DEF CalledInv, AgentInv
    <2>5. DismissInv'
      <3>1. \A x \in dismissing : x.for \in Flows
        BY <1>1, DismissalParts DEF TypeOK, Dismissal
      <3>. QED BY <1>1, <2>1, <2>2, <3>1 DEF DismissInv
    <2>6. AcceptedResponseWins'
      BY <1>1, <2>2 DEF AcceptedResponseWins, CalledInv
    <2>. QED BY <2>3, <2>4, <2>5, <2>6 DEF IInv
  <1>5. CASE DidFinish(s, o) /\ UNCHANGED dismissing
    <2>1. /\ flow' \in [Flows -> {"new", "pending", "finished"}]
          /\ results' \in [Flows -> Seq(Outcomes)] /\ CalledInv' /\ flow'[s] = "finished"
          /\ \A t \in Flows \ {s} : flow'[t] = flow[t]
      BY <1>1, <1>5, Finishing
    <2>2. TypeOK'
      BY <1>1, <1>2, <1>3, <1>5, <2>1 DEF TypeOK
    <2>3. AgentInv'
      BY <1>1, <1>2, <2>1 DEF AgentInv
    <2>4. DismissInv'
      <3>1. \A x \in dismissing : x.for \in Flows
        BY <1>1, DismissalParts DEF TypeOK, Dismissal
      <3>. QED BY <1>1, <1>5, <3>1 DEF DismissInv
    <2>5. AcceptedResponseWins'
      BY <1>1, <1>5, WinsStep
    <2>. QED BY <2>1, <2>2, <2>3, <2>4, <2>5 DEF IInv
  <1>. QED BY <1>4, <1>5 DEF Dismiss

\* A step that finishes s without a URL, one that has not taken any, and leaves
\* the dismissals alone.
LEMMA FinishStep ==
    ASSUME IInv, NEW s \in Flows, NEW o \in Outcomes, DidFinish(s, o), accepted[s] = {},
           TypeOK', inProgress' = "no" <=> session' = None,
           session' \in {session, None}, UNCHANGED <<dismissing, accepted, cancelled>>
    PROVE  IInv'
  <1>1. /\ TypeOK /\ CalledInv /\ AgentInv /\ DismissInv /\ AcceptedResponseWins
        /\ None \notin Flows
    BY FlowsAssumption DEF IInv
  <1>2. CalledInv' /\ flow'[s] = "finished" /\ \A t \in Flows \ {s} : flow'[t] = flow[t]
    BY <1>1, Finishing
  <1>3. AgentInv'
    BY <1>1, <1>2 DEF AgentInv
  <1>4. DismissInv'
    BY <1>1 DEF DismissInv
  <1>5. AcceptedResponseWins'
    BY <1>1, WinsStep DEF TypeOK
  <1>. QED BY <1>2, <1>3, <1>4, <1>5 DEF IInv

\* The steps that present a flow.
LEMMA PresentStep ==
    ASSUME IInv, NEW s \in Flows, PresentRefused(s) \/ PresentFails(s) \/ Present(s)
    PROVE  IInv'
  <1>1. /\ TypeOK /\ CalledInv /\ AgentInv /\ DismissInv /\ AcceptedResponseWins
        /\ None \notin Flows
    BY FlowsAssumption DEF IInv
  <1>2. flow[s] = "new" /\ accepted[s] = {}
    <2>1. flow[s] = "new"
      BY DEF PresentRefused, PresentFails, Present
    <2>. QED BY <1>1, <2>1 DEF AgentInv, TypeOK
  <1>3. CASE PresentRefused(s) \/ PresentFails(s)
    <2>1. DidFinish(s, "error") /\ "error" \in Outcomes /\ UNCHANGED <<system, history, raised>>
      BY <1>3 DEF PresentRefused, PresentFails, Outcomes
    <2>2. TypeOK'
      <3>1. /\ flow' \in [Flows -> {"new", "pending", "finished"}]
            /\ results' \in [Flows -> Seq(Outcomes)]
        BY <1>1, <2>1, Finishing
      <3>2. NoSheet \in [Kinds -> Flows \cup {None}]
        BY DEF NoSheet
      <3>. QED BY <1>1, <1>3, <2>1, <3>1, <3>2
               DEF PresentRefused, PresentFails, CleanUp, agent, system, history, TypeOK
    <2>3. /\ inProgress' = "no" <=> session' = None
          /\ session' \in {session, None} /\ UNCHANGED <<dismissing, accepted, cancelled>>
      BY <1>1, <1>3 DEF PresentRefused, PresentFails, CleanUp, agent, system, history, AgentInv
    <2>. QED BY <1>2, <2>1, <2>2, <2>3, FinishStep
  <1>4. CASE Present(s)
    <2>1. /\ flow' = [flow EXCEPT ![s] = "pending"] /\ inProgress' = "yes" /\ session' = s
          /\ UNCHANGED <<results, dismissing, accepted, cancelled, strayed, raised>>
      BY <1>4 DEF Present, history
    <2>2. /\ sheet' \in [Kinds -> Flows \cup {None}] /\ handlers' \subseteq Kinds \X Flows
          /\ safari' \in Flows \cup {None} /\ shown' \subseteq Flows
      <3>1. PICK opened \in {"web", "auth", "safari", "browser"}, tried \in SUBSET Kinds :
              /\ sheet' = [k \in Kinds |-> IF k \in tried THEN s ELSE sheet[k]]
              /\ handlers' = IF opened \in Kinds THEN handlers \cup {<<opened, s>>} ELSE handlers
              /\ safari' = IF opened = "safari" THEN s ELSE safari
              /\ shown' = IF opened = "safari" THEN shown \cup {s} ELSE shown
        <4>1. \A opened : Tries(opened) \subseteq SUBSET Kinds
          BY DEF Tries, Kinds
        <4>. QED BY <1>4, <4>1 DEF Present
      <3>. QED BY <1>1, <3>1 DEF TypeOK
    <2>3. TypeOK'
      BY <1>1, <2>1, <2>2 DEF TypeOK
    <2>4. CalledInv' /\ AgentInv'
      BY <1>1, <1>2, <2>1 DEF CalledInv, AgentInv, TypeOK
    <2>5. DismissInv' /\ AcceptedResponseWins'
      BY <1>1, <2>1 DEF DismissInv, AcceptedResponseWins
    <2>. QED BY <2>3, <2>4, <2>5 DEF IInv
  <1>. QED BY <1>3, <1>4

\* The session s takes a URL that matches.
LEMMA ResumeStep ==
    ASSUME IInv, NEW s \in Flows, flow[s] = "pending", NEW url \in URLs,
           NEW sh \in [Kinds -> Flows \cup {None}], NEW open \in SUBSET (Kinds \X Flows),
           Resume(s, url, sh, open)
    PROVE  IInv'
  <1>1. accepted \in [Flows -> SUBSET URLs] /\ cancelled \subseteq Flows /\ url \in Outcomes
    BY DEF IInv, TypeOK, URLs, Outcomes
  <1>2. /\ accepted' = [accepted EXCEPT ![s] = accepted[s] \cup {url}]
        /\ Dismiss(s, url, sh, open) /\ UNCHANGED <<cancelled, raised>>
    BY DEF Resume
  <1>3. /\ accepted' \in [Flows -> SUBSET URLs] /\ url \in accepted'[s]
        /\ accepted[s] \subseteq accepted'[s]
        /\ \A t \in Flows \ {s} : accepted'[t] = accepted[t]
    BY <1>1, <1>2
  <1>. QED BY <1>1, <1>2, <1>3, DismissStep

\* What the handlers of sheets are called with, and what they leave.
LEMMA SheetTypes ==
    ASSUME TypeOK, NEW k \in Kinds, NEW s \in Flows
    PROVE  /\ sheet \in [Kinds -> Flows \cup {None}] /\ handlers \in SUBSET (Kinds \X Flows)
           /\ Without(k) \in [Kinds -> Flows \cup {None}]
           /\ handlers \ {<<k, s>>} \in SUBSET (Kinds \X Flows)
  BY DEF TypeOK, Without

\* The application cancels a flow or hands a URL over.
LEMMA ApplicationStep ==
    ASSUME IInv, NEW s \in Flows, Cancel(s) \/ \E url \in URLs : OpenURL(s, url)
    PROVE  IInv'
  <1>1. ASSUME NEW url \in URLs, OpenURL(s, url) PROVE IInv'
    <2>1. /\ sheet \in [Kinds -> Flows \cup {None}] /\ handlers \in SUBSET (Kinds \X Flows)
          /\ flow[s] = "pending" /\ Resume(s, url, sheet, handlers)
      BY <1>1 DEF OpenURL, IInv, TypeOK
    <2>. QED BY <2>1, ResumeStep
  <1>2. ASSUME Cancel(s) PROVE IInv'
    <2>1. /\ sheet \in [Kinds -> Flows \cup {None}] /\ handlers \in SUBSET (Kinds \X Flows)
          /\ accepted \in [Flows -> SUBSET URLs] /\ cancelled \subseteq Flows
          /\ "cancelled" \in Outcomes
      BY DEF IInv, TypeOK, Outcomes
    <2>2. /\ flow[s] = "pending" /\ cancelled' = cancelled \cup {s}
          /\ Dismiss(s, "cancelled", sheet, handlers) /\ UNCHANGED <<accepted, raised>>
      BY <1>2 DEF Cancel
    <2>. QED BY <2>1, <2>2, DismissStep
  <1>. QED BY <1>1, <1>2

\* The sheet answers, for the flow it was presented for.
LEMMA SheetStep ==
    ASSUME IInv, NEW k \in Kinds, NEW s \in Flows,
           \/ SheetCancelled(k, s) \/ SheetIgnored(k, s)
           \/ \E url \in URLs : SheetReturns(k, s, url)
    PROVE  IInv'
  <1>1. /\ TypeOK /\ CalledInv /\ AgentInv /\ DismissInv /\ AcceptedResponseWins
        /\ None \notin Flows
    BY FlowsAssumption DEF IInv
  <1>2. /\ Without(k) \in [Kinds -> Flows \cup {None}]
        /\ handlers \ {<<k, s>>} \in SUBSET (Kinds \X Flows)
    BY <1>1, SheetTypes
  <1>3. ASSUME SheetIgnored(k, s) PROVE IInv'
    <2>1. TypeOK'
      BY <1>1, <1>2, <1>3 DEF SheetIgnored, TypeOK
    <2>2. UNCHANGED <<flow, results, inProgress, session, dismissing, accepted, cancelled>>
      BY <1>3 DEF SheetIgnored
    <2>. QED BY <1>1, <2>1, <2>2
             DEF IInv, CalledInv, AgentInv, DismissInv, AcceptedResponseWins
  <1>4. ASSUME NEW url \in URLs, SheetReturns(k, s, url) PROVE IInv'
    <2>1. session \in Flows
      BY <1>1, <1>4 DEF SheetReturns, TypeOK
    <2>2. CASE flow[session] = "pending"
      <3>1. Resume(session, url, Without(k), handlers \ {<<k, s>>})
        BY <1>4, <2>2 DEF SheetReturns
      <3>. QED BY <1>2, <2>1, <2>2, <3>1, ResumeStep
    <2>3. CASE flow[session] # "pending"
      <3>1. raised' = "yes" /\ UNCHANGED <<flow, results, agent, system, history>>
        BY <1>4, <2>3 DEF SheetReturns
      <3>2. TypeOK'
        BY <1>1, <3>1 DEF TypeOK, agent, system, history
      <3>. QED BY <1>1, <3>1, <3>2
               DEF IInv, CalledInv, AgentInv, DismissInv, AcceptedResponseWins, agent, system, history
    <2>. QED BY <2>2, <2>3
  <1>5. ASSUME SheetCancelled(k, s) PROVE IInv'
    <2>1. /\ session \in Flows /\ DidFinish(session, "cancelled") /\ "cancelled" \in Outcomes
          /\ accepted[session] = {}
      <3>1. session \in Flows
        BY <1>1, <1>5 DEF SheetCancelled, TypeOK
      <3>. QED BY <1>1, <1>5, <3>1 DEF SheetCancelled, Outcomes, AgentInv
    <2>2. /\ handlers' = handlers \ {<<k, s>>} /\ sheet' = Without(k)
          /\ UNCHANGED <<inProgress, session, safari, shown, dismissing, accepted, cancelled,
                         strayed, raised>>
      BY <1>5 DEF SheetCancelled, history
    <2>3. /\ flow' \in [Flows -> {"new", "pending", "finished"}]
          /\ results' \in [Flows -> Seq(Outcomes)]
      BY <1>1, <2>1, Finishing
    <2>4. TypeOK'
      BY <1>1, <1>2, <2>2, <2>3 DEF TypeOK
    <2>5. inProgress' = "no" <=> session' = None
      BY <1>1, <2>2 DEF AgentInv
    <2>. QED BY <2>1, <2>2, <2>4, <2>5, FinishStep
  <1>. QED BY <1>3, <1>4, <1>5

\* The user closes a Safari view.
LEMMA SafariStep ==
    ASSUME IInv, NEW v \in Flows, SafariDidFinish(v)
    PROVE  IInv'
  <1>1. /\ TypeOK /\ CalledInv /\ AgentInv /\ DismissInv /\ AcceptedResponseWins
        /\ None \notin Flows
    BY FlowsAssumption DEF IInv
  <1>2. /\ shown' = shown \ {v}
        /\ UNCHANGED <<handlers, dismissing, accepted, cancelled, strayed, raised>>
    BY DEF SafariDidFinish, history
  <1>3. CASE v = safari /\ inProgress = "yes"
    <2>1. CleanUp /\ DidFinish(session, "cancelled")
      BY <1>3 DEF SafariDidFinish
    <2>2. session \in Flows /\ accepted[session] = {} /\ "cancelled" \in Outcomes
      <3>1. session \in Flows
        BY <1>1, <1>3 DEF AgentInv, TypeOK
      <3>. QED BY <1>1, <3>1 DEF AgentInv, Outcomes
    <2>3. /\ flow' \in [Flows -> {"new", "pending", "finished"}]
          /\ results' \in [Flows -> Seq(Outcomes)]
      BY <1>1, <2>1, <2>2, Finishing
    <2>4. TypeOK'
      <3>1. NoSheet \in [Kinds -> Flows \cup {None}]
        BY DEF NoSheet
      <3>. QED BY <1>1, <1>2, <2>1, <2>3, <3>1 DEF TypeOK, CleanUp
    <2>. QED BY <1>2, <2>1, <2>2, <2>4, FinishStep DEF CleanUp
  <1>4. CASE ~(v = safari /\ inProgress = "yes")
    <2>1. UNCHANGED <<agent, flow, results>>
      BY <1>4 DEF SafariDidFinish
    <2>2. TypeOK'
      BY <1>1, <1>2, <2>1 DEF TypeOK, agent
    <2>. QED BY <1>1, <1>2, <2>1, <2>2
             DEF IInv, CalledInv, AgentInv, DismissInv, AcceptedResponseWins, agent
  <1>. QED BY <1>3, <1>4

\* The end of a dismissal reports what it was begun for, unless the session has
\* been finished in the meantime.
LEMMA DismissalStep ==
    ASSUME IInv, NEW d \in dismissing, DismissalEnds(d)
    PROVE  IInv'
  <1>1. /\ TypeOK /\ CalledInv /\ AgentInv /\ DismissInv /\ AcceptedResponseWins
        /\ None \notin Flows
    BY FlowsAssumption DEF IInv
  <1>2. d.view \in Flows /\ d.for \in Flows /\ d.outcome \in Outcomes
    BY <1>1, DismissalParts DEF TypeOK, Dismissal
  <1>3. /\ dismissing' = dismissing \ {d} /\ shown' = shown \ {d.view}
        /\ DidFinish(d.for, d.outcome)
        /\ UNCHANGED <<agent, handlers, accepted, cancelled, strayed, raised>>
    BY DEF DismissalEnds, history
  <1>4. /\ flow' \in [Flows -> {"new", "pending", "finished"}]
        /\ results' \in [Flows -> Seq(Outcomes)] /\ CalledInv' /\ flow'[d.for] = "finished"
        /\ \A t \in Flows \ {d.for} : flow'[t] = flow[t]
    BY <1>1, <1>2, <1>3, Finishing
  <1>5. TypeOK'
    BY <1>1, <1>3, <1>4 DEF TypeOK, agent
  <1>6. AgentInv'
    BY <1>1, <1>3, <1>4 DEF AgentInv, agent
  <1>7. DismissInv'
    BY <1>1, <1>3 DEF DismissInv
  <1>8. AcceptedResponseWins'
    <2>1. d.for \in cancelled \/ d.outcome \in accepted[d.for]
      BY <1>1 DEF DismissInv
    <2>. QED BY <1>1, <1>2, <1>3, <2>1, WinsStep DEF TypeOK
  <1>. QED BY <1>4, <1>5, <1>6, <1>7, <1>8 DEF IInv

\* The strengthened invariant holds in every reachable state: one step per
\* action of Next.
LEMMA Invariant == Spec => []IInv
  <1>1. Init => IInv
    <2>. SUFFICES ASSUME Init PROVE IInv
      OBVIOUS
    <2>1. results \in [Flows -> Seq(Outcomes)] /\ \A s \in Flows : results[s] = <<>>
      BY DEF Init
    <2>2. TypeOK
      BY <2>1 DEF Init, NoSheet, TypeOK
    <2>3. CalledInv /\ AcceptedResponseWins
      BY <2>1 DEF Init, CalledInv, AcceptedResponseWins
    <2>4. AgentInv /\ DismissInv
      BY DEF Init, AgentInv, DismissInv
    <2>. QED BY <2>2, <2>3, <2>4 DEF IInv
  <1>2. IInv /\ [Next]_vars => IInv'
    <2>. SUFFICES ASSUME IInv, [Next]_vars PROVE IInv'
      OBVIOUS
    <2>1. CASE UNCHANGED vars
      <3>1. UNCHANGED <<flow, results, inProgress, session, sheet, safari, handlers, shown,
                        dismissing, accepted, cancelled, strayed, raised>>
        BY <2>1 DEF vars, agent, system, history
      <3>2. TypeOK'
        BY <3>1 DEF IInv, TypeOK
      <3>. QED BY <3>1, <3>2 DEF IInv, CalledInv, AgentInv, DismissInv, AcceptedResponseWins
    <2>2. CASE Step
      BY <2>2, PresentStep, ApplicationStep, SheetStep, SafariStep, DismissalStep
         DEF Step, User, EndDismissal
    <2>. QED BY <2>1, <2>2 DEF Next
  <1>. QED BY <1>1, <1>2, PTL DEF Spec

-----------------------------------------------------------------------------

\* The variables have their types, for every set of flows.
THEOREM TypeCorrect == Spec => []TypeOK
  <1>1. IInv => TypeOK
    BY DEF IInv
  <1>. QED BY <1>1, Invariant, PTL

\* A callback is called once at most: however many flows share the user agent,
\* and in whatever order URLs, cancellations, closed views and animations come.
THEOREM AlwaysCalledOnce == Spec => []CalledOnce
  <1>1. IInv => CalledOnce
    <2>1. ASSUME CalledInv, NEW s \in Flows PROVE Len(results[s]) <= 1
      <3>1. CASE flow[s] = "finished"
        <4>1. Len(results[s]) = 1
          BY <2>1, <3>1 DEF CalledInv
        <4>. QED BY <4>1
      <3>2. CASE flow[s] # "finished"
        <4>1. results[s] = <<>>
          BY <2>1, <3>2 DEF CalledInv
        <4>2. Len(<<>>) = 0
          OBVIOUS
        <4>. QED BY <4>1, <4>2
      <3>. QED BY <3>1, <3>2
    <2>. QED BY <2>1 DEF IInv, CalledOnce
  <1>. QED BY <1>1, Invariant, PTL

\* A session that has taken a URL calls back with what the URL says, unless it
\* was sent cancel: no closed view and no other flow can come before it.
THEOREM AcceptedAlwaysWins == Spec => []AcceptedResponseWins
  <1>1. IInv => AcceptedResponseWins
    BY DEF IInv
  <1>. QED BY <1>1, Invariant, PTL

=============================================================================
