------------------------------ MODULE AuthFlow ------------------------------
(***************************************************************************)
(* Authorization and end-session flows (OIDAuthorizationSession and        *)
(* OIDEndSessionImplementation) in the user agent of iOS                   *)
(* (OIDExternalUserAgentIOS).                                              *)
(*                                                                         *)
(* All of it runs on the main thread, but a flow is a conversation: the    *)
(* system shows a sheet and calls a handler later, a Safari view is        *)
(* dismissed with an animation and only then the flow is finished, and in  *)
(* between the application may hand in a URL, cancel, or present another   *)
(* flow in the same user agent.                                            *)
(***************************************************************************)
EXTENDS Naturals, FiniteSets, Sequences

CONSTANTS Flows,  \* the sessions, each of which is presented once
          None    \* nil

ASSUME FlowsAssumption == IsFiniteSet(Flows) /\ None \notin Flows

VARIABLES
    flow,        \* "new", "pending" (the callback is not nil) or "finished"
    results,     \* what each callback was called with
    inProgress,  \* _externalUserAgentFlowInProgress
    session,     \* _session
    sheet,       \* _webAuthenticationVC and _authenticationVC, by the flow they show
    safari,      \* _safariVC, by the flow it shows
    handlers,    \* sheets the system shows, whose completion handlers are to be called
    shown,       \* SFSafariViewControllers on the screen
    dismissing,  \* dismissals that are under way
    accepted,    \* what the URLs say that each session has taken
    cancelled,   \* sessions that were sent cancel
    strayed,     \* flows whose user agent was dismissed for another session, or was
                 \* given a URL that does not match
    raised       \* an exception has ended the process

agent   == <<inProgress, session, sheet, safari>>
system  == <<handlers, shown, dismissing>>
history == <<accepted, cancelled, strayed>>
vars    == <<flow, results, agent, system, history, raised>>

-----------------------------------------------------------------------------

Kinds    == {"web", "auth"}     \* ASWebAuthenticationSession, SFAuthenticationSession
Outcomes == {"response", "error", "cancelled"}

\* What a URL that matches the redirect URI amounts to: the response, or an OAuth
\* error (which only OIDAuthorizationSession looks for) or a wrong state.
URLs == {"response", "error"}

TypeOK ==
    /\ flow \in [Flows -> {"new", "pending", "finished"}]
    /\ results \in [Flows -> Seq(Outcomes)]
    /\ inProgress \in {"yes", "no"}
    /\ session \in Flows \cup {None}
    /\ sheet \in [Kinds -> Flows \cup {None}]
    /\ safari \in Flows \cup {None}
    /\ handlers \subseteq Kinds \X Flows
    /\ shown \subseteq Flows
    /\ dismissing \subseteq [view : Flows, for : Flows, outcome : Outcomes]
    /\ accepted \in [Flows -> SUBSET URLs]
    /\ cancelled \subseteq Flows
    /\ strayed \subseteq Flows
    /\ raised \in {"yes", "no"}

NoSheet == [k \in Kinds |-> None]

Init ==
    /\ flow = [s \in Flows |-> "new"] /\ results = [s \in Flows |-> <<>>]
    /\ inProgress = "no" /\ session = None /\ sheet = NoSheet /\ safari = None
    /\ handlers = {} /\ shown = {} /\ dismissing = {}
    /\ accepted = [s \in Flows |-> {}] /\ cancelled = {} /\ strayed = {} /\ raised = "no"

-----------------------------------------------------------------------------

\* Mutant: the pending callback is not set to nil.
MutDidFinish(s, outcome) ==
    /\ flow' = flow
    /\ results' = IF flow[s] = "pending" THEN [results EXCEPT ![s] = Append(@, outcome)] ELSE results

\* didFinishWithResponse:error:
DidFinish(s, outcome) ==
    /\ flow' = [flow EXCEPT ![s] = "finished"]
    /\ results' = IF flow[s] # "finished" THEN [results EXCEPT ![s] = Append(@, outcome)] ELSE results

CleanUp == /\ inProgress' = "no" /\ session' = None
           /\ sheet' = NoSheet /\ safari' = None

\* The sheet that a dismissal cancels, if there is one.  It may be one that did
\* not start, and then hides what was shown in its place.
Cancels(sh) == IF sh["web"] # None THEN {<<"web", sh["web"]>>}
               ELSE IF sh["auth"] # None THEN {<<"auth", sh["auth"]>>} ELSE {}

\* The Safari view is dismissed, and then s is finished.
DismissSafari(s, outcome) ==
    /\ dismissing' = dismissing \cup {[view |-> safari, for |-> s, outcome |-> outcome]}
    /\ UNCHANGED <<flow, results, handlers, shown>>

\* Mutant: the user agent is cleaned up when the view has gone.
MutDismiss(s, outcome, sh, open) ==
    IF inProgress = "yes" /\ Cancels(sh) = {} /\ safari # None
    THEN DismissSafari(s, outcome) /\ UNCHANGED <<inProgress, session, safari, strayed>> /\ sheet' = sh
    ELSE /\ DidFinish(s, outcome)
         /\ handlers' = open \ Cancels(sh)
         /\ IF inProgress = "yes" THEN CleanUp ELSE UNCHANGED agent
         /\ UNCHANGED <<shown, dismissing, strayed>>

\* Mutant: takes for granted that there is a Safari view when there is no sheet.
MutDismissNil(s, outcome, sh, open) ==
    IF inProgress = "yes" /\ Cancels(sh) = {}
    THEN DismissSafari(s, outcome) /\ CleanUp /\ UNCHANGED strayed
    ELSE /\ DidFinish(s, outcome)
         /\ handlers' = open \ Cancels(sh)
         /\ IF inProgress = "yes" THEN CleanUp ELSE UNCHANGED agent
         /\ UNCHANGED <<shown, dismissing, strayed>>

\* dismissExternalUserAgentAnimated:completion: with a block that finishes s, when
\* the sheets are sh and open are those whose handlers have not been called.
\* (A sheet that is cancelled does not call its handler any more.)
Dismiss(s, outcome, sh, open) ==
    IF inProgress = "no"
    THEN /\ DidFinish(s, outcome)
         /\ handlers' = open
         /\ UNCHANGED <<agent, shown, dismissing, strayed>>
    ELSE /\ CleanUp
         /\ strayed' = strayed \cup ({session} \ {s})
         /\ IF Cancels(sh) = {} /\ safari # None
            THEN DismissSafari(s, outcome)
            ELSE /\ DidFinish(s, outcome)
                 /\ handlers' = open \ Cancels(sh)
                 /\ UNCHANGED <<shown, dismissing>>

-----------------------------------------------------------------------------
(***************************************************************************)
(* Presenting a flow                                                       *)
(***************************************************************************)

\* presentExternalUserAgentRequest: returns NO while a flow is in progress.
PresentRefused(s) ==
    /\ flow[s] = "new" /\ inProgress = "yes"
    /\ DidFinish(s, "error")
    /\ UNCHANGED <<agent, system, history, raised>>

\* The user agents that are tried, in order, before one opens: with guided
\* access no sheet is; before iOS 12 there is only the second kind.
Tries(opened) == CASE opened = "web"  -> {{"web"}}
                   [] opened = "auth" -> {{"auth"}, {"web", "auth"}}
                   [] OTHER           -> {{}, {"auth"}, {"web", "auth"}}

Present(s) ==
    /\ flow[s] = "new" /\ inProgress = "no"
    /\ flow' = [flow EXCEPT ![s] = "pending"]
    /\ inProgress' = "yes" /\ session' = s
    /\ \E opened \in {"web", "auth", "safari", "browser"} : \E tried \in Tries(opened) :
          /\ sheet' = [k \in Kinds |-> IF k \in tried THEN s ELSE sheet[k]]
          /\ handlers' = IF opened \in Kinds THEN handlers \cup {<<opened, s>>} ELSE handlers
          /\ safari' = IF opened = "safari" THEN s ELSE safari
          /\ shown' = IF opened = "safari" THEN shown \cup {s} ELSE shown
    /\ UNCHANGED <<results, dismissing, history, raised>>

\* Nothing opens.
PresentFails(s) ==
    /\ flow[s] = "new" /\ inProgress = "no"
    /\ CleanUp
    /\ DidFinish(s, "error")
    /\ UNCHANGED <<system, history, raised>>

-----------------------------------------------------------------------------
(***************************************************************************)
(* The application                                                         *)
(***************************************************************************)

\* resumeExternalUserAgentFlowWithURL: with a URL that matches
Resume(s, url, sh, open) ==
    /\ accepted' = [accepted EXCEPT ![s] = @ \cup {url}]
    /\ Dismiss(s, url, sh, open)
    /\ UNCHANGED <<cancelled, raised>>

\* The system opens a URL in the application, which passes it to a session that
\* has not called back.
OpenURL(s, url) == flow[s] = "pending" /\ Resume(s, url, sheet, handlers)

Cancel(s) ==
    /\ flow[s] = "pending"
    /\ cancelled' = cancelled \cup {s}
    /\ Dismiss(s, "cancelled", sheet, handlers)
    /\ UNCHANGED <<accepted, raised>>

-----------------------------------------------------------------------------
(***************************************************************************)
(* The system and the user.  The handler of a sheet speaks to _session,    *)
(* whichever flow the sheet was for.                                       *)
(***************************************************************************)

Without(k) == [sheet EXCEPT ![k] = None]

SheetReturns(k, s, url) ==
    /\ <<k, s>> \in handlers /\ session # None
    /\ IF flow[session] = "pending"
       THEN Resume(session, url, Without(k), handlers \ {<<k, s>>})
       ELSE /\ raised' = "yes"
            /\ UNCHANGED <<flow, results, agent, system, history>>

\* A URL that does not match, or a handler that finds no session
SheetIgnored(k, s) ==
    /\ <<k, s>> \in handlers
    /\ handlers' = handlers \ {<<k, s>>}
    /\ sheet' = Without(k)
    /\ strayed' = strayed \cup {s}
    /\ UNCHANGED <<flow, results, inProgress, session, safari, shown, dismissing, accepted, cancelled, raised>>

\* Mutant: the error is dropped.
MutSheetCancelled(k, s) ==
    /\ <<k, s>> \in handlers /\ session # None
    /\ handlers' = handlers \ {<<k, s>>}
    /\ sheet' = Without(k)
    /\ UNCHANGED <<flow, results, inProgress, session, safari, shown, dismissing, history, raised>>

\* The user closes the sheet.  The user agent is not cleaned up.
SheetCancelled(k, s) ==
    /\ <<k, s>> \in handlers /\ session # None
    /\ handlers' = handlers \ {<<k, s>>}
    /\ sheet' = Without(k)
    /\ DidFinish(session, "cancelled")
    /\ UNCHANGED <<inProgress, session, safari, shown, dismissing, history, raised>>

\* safariViewControllerDidFinish:
SafariDidFinish(v) ==
    /\ v \in shown
    /\ shown' = shown \ {v}
    /\ IF v = safari /\ inProgress = "yes"
       THEN CleanUp /\ DidFinish(session, "cancelled")
       ELSE UNCHANGED <<agent, flow, results>>
    /\ UNCHANGED <<handlers, dismissing, history, raised>>

\* dismissViewControllerAnimated:completion: calls its block.
DismissalEnds(d) ==
    /\ d \in dismissing
    /\ dismissing' = dismissing \ {d}
    /\ shown' = shown \ {d.view}
    /\ DidFinish(d.for, d.outcome)
    /\ UNCHANGED <<agent, handlers, history, raised>>

-----------------------------------------------------------------------------

\* The user finishes with what is on the screen, one way or the other.
User == \/ \E k \in Kinds, s \in Flows :
              \/ SheetCancelled(k, s) \/ SheetIgnored(k, s)
              \/ \E url \in URLs : SheetReturns(k, s, url)
        \/ \E v \in Flows : SafariDidFinish(v)

EndDismissal == \E d \in dismissing : DismissalEnds(d)

Step == \/ \E s \in Flows : \/ Present(s) \/ PresentRefused(s) \/ PresentFails(s)
                            \/ Cancel(s) \/ \E url \in URLs : OpenURL(s, url)
        \/ User \/ EndDismissal

Next == raised = "no" /\ Step

\* What is on the screen is closed some day, and animations end.  Nothing makes
\* a user who was sent to the browser come back.
Fairness == WF_vars(raised = "no" /\ User) /\ WF_vars(raised = "no" /\ EndDismissal)

Spec == Init /\ [][Next]_vars /\ Fairness

-----------------------------------------------------------------------------
(***************************************************************************)
(* Properties                                                              *)
(***************************************************************************)

\* However URLs, cancellations, closed views and ended animations fall, a
\* callback is called once at most.
CalledOnce == \A s \in Flows : Len(results[s]) <= 1

\* A session that has taken a URL and was not cancelled calls back with what a
\* URL it has taken says, although the user may close the Safari view, or the
\* application present another flow, while the view is being dismissed.
AcceptedResponseWins ==
    \A s \in Flows : (results[s] # <<>> /\ accepted[s] # {} /\ s \notin cancelled)
        => results[s][1] \in accepted[s]

\* A flow shown in a sheet or a Safari view finishes, except one that has
\* strayed, because its user agent was dismissed for another session or its sheet
\* returned a URL that does not match.
EveryFlowEnds ==
    \A s \in Flows :
        (flow[s] = "pending" /\ (safari = s \/ \E k \in Kinds : <<k, s>> \in handlers))
            ~> (flow[s] = "finished" \/ s \in strayed \/ raised = "yes")

=============================================================================
