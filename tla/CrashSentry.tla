---------------------------- MODULE CrashSentry ----------------------------
(***************************************************************************)
(* The crash sentries (BSG_KSCrashSentry.c and its four handlers): threads *)
(* of the application that crash, perhaps several at once and perhaps in   *)
(* the handler, and the two threads that wait for Mach exceptions.         *)
(*                                                                         *)
(* A fault goes to the Mach port if it is a hardware fault and the port is *)
(* ours, to the signal handler, to the terminate handler of C++ or to the  *)
(* uncaught exception handler.  Whoever handles it suspends every other    *)
(* thread, one after the other, fills the context and writes a report.     *)
(***************************************************************************)
EXTENDS Integers, FiniteSets, Sequences

CONSTANTS
  App,             \* threads of the application
  Absent,          \* NULL, or a report that is not there
  Configurations,  \* the sets of sentries that can be installed
  MaxFaults        \* faults of the application in one run (a bound)

Handlers == {"primary", "secondary"}
Thread == App \cup Handlers

AsyncSafe == {"mach", "signal"}                     \* BSG_KSCrashTypeAsyncSafe
All == AsyncSafe \cup {"cpp", "nsexception"}        \* BSG_KSCrashTypeAll

ASSUME SentryAssumption ==
  /\ App \cap Handlers = {} /\ IsFiniteSet(App) /\ MaxFaults \in Nat
  /\ Configurations \subseteq { c \in SUBSET All : "signal" \in c }

VARIABLES
  alive,         \* "running", "dead" by a signal, or "killed" from outside
  installed,     \* bsg_g_installed, for signals bsg_g_enabled
  ports,         \* who receives the exceptions of the task: "ours" or "theirs"
  context,       \* BSG_KSCrash_SentryContext
  threadsRun,    \* bsg_g_threads_are_running
  suspended,     \* of each thread, the kernel's suspend count
  gone,          \* threads that have ended
  inbox,         \* threads whose exception waits at the port
  at,            \* what each thread is at
  reports,       \* the standard and the minimal report
  faults,        \* the kinds of faults the application has had, in order
  inHandler      \* the kind of crash whose handler crashed, or "none"

vars == <<alive, installed, ports, context, threadsRun, suspended, gone, inbox, at, reports, faults, inHandler>>

(* A handler has a crash of a kind, of a thread; it remembers whether one  *)
(* was being handled already, and the threads it still has to suspend or   *)
(* resume.                                                                 *)
(* An NSException comes by the terminate handler first (inTerminate).      *)
Frame(pc, kind, of) ==
  [pc |-> pc, kind |-> kind, of |-> of, was |-> FALSE, todo |-> {}, file |-> "standard",
   inTerminate |-> FALSE, recorded |-> FALSE]

Cleared == [handling |-> FALSE, recrash |-> FALSE, type |-> Absent, thread |-> Absent, reserved |-> {}]

Stages == {"app", "receiving", "trapped", "enter", "begin", "suspend", "suspending", "secondary", "recrash",
           "record", "fill", "report", "writing", "written", "resume", "resuming", "recorded", "finish",
           "reraise"}

FrameType == [pc : Stages, kind : All, of : Thread, was : BOOLEAN, todo : SUBSET Thread,
              file : {"standard", "minimal"}, inTerminate : BOOLEAN, recorded : BOOLEAN]
ContextType == [handling : BOOLEAN, recrash : BOOLEAN, type : All \cup {Absent}, thread : Thread \cup {Absent},
                reserved : SUBSET Handlers]
ReportType == [type : All \cup {Absent}, thread : Thread \cup {Absent}, complete : BOOLEAN, by : All, of : Thread]

ASSUME AbsentAssumption == Absent \notin ReportType

TypeOK ==
  /\ alive \in {"running", "dead", "killed"} /\ ports \in {"ours", "theirs"}
  /\ installed \subseteq All /\ gone \subseteq Handlers /\ inbox \subseteq Thread
  /\ context \in ContextType
  /\ threadsRun \in BOOLEAN /\ suspended \in [Thread -> Nat]
  /\ at \in [Thread -> FrameType]
  /\ reports \in [{"standard", "minimal"} -> ReportType \cup {Absent}]
  /\ faults \in Seq(All) /\ Len(faults) <= MaxFaults /\ inHandler \in All \cup {"none"}

(* bsg_kscrashsentry_installMachHandler starts two threads, of which the   *)
(* secondary one suspends itself, and takes the task's exception ports.    *)
InstallMachHandler(installs) ==
  /\ ports = IF installs THEN "ours" ELSE "theirs"
  /\ context.reserved = IF installs THEN Handlers ELSE {}
  /\ suspended = [t \in Thread |-> IF t = "secondary" THEN 1 ELSE 0]
  /\ gone = IF installs THEN {} ELSE Handlers

(* bsg_kscrashsentry_installWithContext clears the context first. *)
Init ==
  /\ alive = "running"
  /\ installed \in Configurations
  /\ context \in {[Cleared EXCEPT !.reserved = r] : r \in SUBSET Handlers}
  /\ InstallMachHandler("mach" \in installed)
  /\ threadsRun = TRUE
  /\ inbox = {}
  /\ at = [t \in Thread |-> Frame(IF t \in App THEN "app" ELSE "receiving", "mach", t)]
  /\ reports = [f \in {"standard", "minimal"} |-> Absent]
  /\ faults = <<>> /\ inHandler = "none"

Runs(t) == alive = "running" /\ t \notin gone /\ suspended[t] = 0
At(t, pc) == Runs(t) /\ at[t].pc = pc
Goto(t, pc) == at' = [at EXCEPT ![t].pc = pc]

-----------------------------------------------------------------------------
(* The kernel and the runtimes: where a fault of a kind takes a thread.    *)
(* A C++ exception without our terminate handler aborts; an NSException    *)
(* passes the terminate handler, if it is ours, before the uncaught        *)
(* exception handler.                                                      *)
Raise(t, kind) ==
  /\ at' = [at EXCEPT ![t] =
       CASE kind = "mach" /\ ports = "ours" -> Frame("trapped", "mach", t)
         [] kind = "nsexception" /\ "cpp" \in installed ->
              [Frame("record", "nsexception", t) EXCEPT !.inTerminate = TRUE]
         [] kind = "nsexception" /\ "cpp" \notin installed -> Frame("enter", "nsexception", t)
         [] kind = "cpp" /\ "cpp" \in installed -> Frame("enter", "cpp", t)
         [] OTHER -> Frame("enter", "signal", t)]
  /\ inbox' = IF kind = "mach" /\ ports = "ours" THEN inbox \cup {t} ELSE inbox

Fault(t, kind) ==
  /\ t \in App /\ At(t, "app") /\ Len(faults) < MaxFaults
  /\ faults' = Append(faults, kind)
  /\ Raise(t, kind)
  /\ UNCHANGED <<alive, installed, ports, context, threadsRun, suspended, gone, reports, inHandler>>

(* Something the report writer touches is not there any more; once (a      *)
(* bound).                                                                 *)
HandlerFault(t, kind) ==
  /\ At(t, "writing") /\ inHandler = "none"
  /\ inHandler' = at[t].kind
  /\ Raise(t, kind)
  /\ UNCHANGED <<alive, installed, ports, context, threadsRun, suspended, gone, reports, faults>>

Receive(h) ==
  /\ h \in Handlers /\ At(h, "receiving")
  /\ \E t \in inbox :
       /\ inbox' = inbox \ {t}
       /\ at' = [at EXCEPT ![h] = Frame("enter", "mach", t)]
  /\ UNCHANGED <<alive, installed, ports, context, threadsRun, suspended, gone, reports, faults, inHandler>>

-----------------------------------------------------------------------------
(* The handlers: the order of the stages depends on the kind of the crash. *)

MachOrder ==
  [begin |-> "suspend", suspend |-> "secondary", secondary |-> "recrash", recrash |-> "fill",
   fill |-> "report", written |-> "resume", resume |-> "finish"]
SignalOrder ==
  [begin |-> "suspend", suspend |-> "recrash", recrash |-> "fill",
   fill |-> "report", written |-> "resume", resume |-> "reraise"]
CPPOrder ==
  [begin |-> "recrash", recrash |-> "suspend", suspend |-> "fill",
   fill |-> "report", written |-> "resume", resume |-> "finish"]
NSOrder ==
  [begin |-> "recrash", recrash |-> "record",
   fill |-> "suspend", suspend |-> "report", written |-> "resume", resume |-> "recorded"]

Following(kind, stage) ==
  LET order == CASE kind = "mach" -> MachOrder [] kind = "signal" -> SignalOrder
                 [] kind = "cpp" -> CPPOrder [] kind = "nsexception" -> NSOrder
  IN  order[stage]

(* A Mach exception, a signal or an NSException whose sentry was           *)
(* uninstalled is passed on; CPPExceptionTerminate does not look.  The     *)
(* sentry and handlingCrash are looked at one after the other; a sentry is *)
(* never installed again and handlingCrash never goes back to FALSE (but   *)
(* for the instant in which a crash that begins has cleared the context),  *)
(* so that whatever comes in between gives the outcome of a single step    *)
(* before or after it.                                                     *)
Enter(t) ==
  /\ At(t, "enter")
  /\ at' = [at EXCEPT ![t].was = context.handling,
                      ![t].pc = CASE at[t].kind \in installed \cup {"cpp"} -> "begin"
                                     [] at[t].kind = "signal" /\ "signal" \notin installed -> "reraise"
                                     [] OTHER -> "finish"]
  /\ UNCHANGED <<alive, installed, ports, context, threadsRun, suspended, gone, inbox, reports, faults, inHandler>>

(* bsg_kscrashsentry_beginHandlingCrash clears the whole context, the      *)
(* reserved threads too.                                                   *)
Begin(t) ==
  /\ At(t, "begin")
  /\ context' = [Cleared EXCEPT !.handling = TRUE]
  /\ Goto(t, Following(at[t].kind, "begin"))
  /\ UNCHANGED <<alive, installed, ports, threadsRun, suspended, gone, inbox, reports, faults, inHandler>>

(* bsg_kscrashsentry_suspendThreads: the threads are listed ... *)
ListThreads(t) ==
  /\ At(t, "suspend")
  /\ at' = [at EXCEPT ![t].todo = Thread \ (gone \cup {t}),
                      ![t].pc = IF threadsRun THEN "suspending" ELSE Following(at[t].kind, "suspend")]
  /\ UNCHANGED <<alive, installed, ports, context, threadsRun, suspended, gone, inbox, reports, faults, inHandler>>

\* Mutant: the Mach threads stay reserved.
MutSuspendThread(t) ==
  /\ At(t, "suspending")
  /\ \/ \E u \in at[t].todo :
          /\ suspended' = IF u \in gone \cup Handlers THEN suspended ELSE [suspended EXCEPT ![u] = @ + 1]
          /\ at' = [at EXCEPT ![t].todo = @ \ {u}]
          /\ UNCHANGED threadsRun
     \/ /\ at[t].todo = {}
        /\ threadsRun' = FALSE
        /\ Goto(t, Following(at[t].kind, "suspend"))
        /\ UNCHANGED suspended
  /\ UNCHANGED <<alive, installed, ports, context, gone, inbox, reports, faults, inHandler>>

(* ... and suspended one by one, but for those the context reserves then. *)
SuspendThread(t) ==
  /\ At(t, "suspending")
  /\ \/ \E u \in at[t].todo :
          /\ suspended' = IF u \in gone \cup context.reserved THEN suspended ELSE [suspended EXCEPT ![u] = @ + 1]
          /\ at' = [at EXCEPT ![t].todo = @ \ {u}]
          /\ UNCHANGED threadsRun
     \/ /\ at[t].todo = {}
        /\ threadsRun' = FALSE
        /\ Goto(t, Following(at[t].kind, "suspend"))
        /\ UNCHANGED suspended
  /\ UNCHANGED <<alive, installed, ports, context, gone, inbox, reports, faults, inHandler>>

(* The primary thread hands over to the secondary one; if that fails, and  *)
(* on the secondary thread, the original ports are restored.               *)
SwitchToSecondary(t) ==
  LET resumes == t = "primary" /\ "secondary" \notin gone /\ suspended["secondary"] > 0
  IN  /\ At(t, "secondary")
      /\ suspended' = IF resumes THEN [suspended EXCEPT !["secondary"] = @ - 1] ELSE suspended
      /\ ports' = IF resumes THEN ports ELSE "theirs"
      /\ Goto(t, Following(at[t].kind, "secondary"))
      /\ UNCHANGED <<alive, installed, context, threadsRun, gone, inbox, reports, faults, inHandler>>

\* Mutant: the thread that runs is not spared.
MutUninstallMachHandler(t) ==
  /\ ports' = "theirs"
  /\ gone' = gone \cup Handlers \cup {t}

(* bsg_kscrashsentry_uninstallMachHandler: the exception threads but the   *)
(* one that runs are terminated.  It is called from handlers only, when a  *)
(* crash is being handled, so that pthread_cancel is not come to.          *)
UninstallMachHandler(t) ==
  /\ ports' = "theirs"
  /\ gone' = gone \cup (Handlers \ {t})

(* bsg_kscrashsentry_uninstall; of signals only the flag is cleared. *)
Uninstall(types, t) ==
  /\ installed' = installed \ types
  /\ IF "mach" \in types \cap installed THEN UninstallMachHandler(t) ELSE UNCHANGED <<ports, gone>>

TypesOf(kind) == IF kind \in AsyncSafe THEN AsyncSafe ELSE All

(* The crash reporter itself crashed. *)
Recrash(t) ==
  /\ At(t, "recrash")
  /\ IF at[t].was
     THEN context' = [context EXCEPT !.recrash = TRUE] /\ Uninstall(TypesOf(at[t].kind), t)
     ELSE UNCHANGED <<context, installed, ports, gone>>
  /\ Goto(t, Following(at[t].kind, "recrash"))
  /\ UNCHANGED <<alive, threadsRun, suspended, inbox, reports, faults, inHandler>>

(* bsg_recordException: nothing is done when the sentry is uninstalled or  *)
(* the exception has been recorded before.                                 *)
Record(t) ==
  /\ At(t, "record")
  /\ at' = [at EXCEPT ![t].pc = IF "nsexception" \in installed /\ ~at[t].recorded THEN "fill" ELSE "recorded",
                      ![t].recorded = TRUE]
  /\ UNCHANGED <<alive, installed, ports, context, threadsRun, suspended, gone, inbox, reports, faults, inHandler>>

Fill(t) ==
  /\ At(t, "fill")
  /\ context' = [context EXCEPT !.type = at[t].kind, !.thread = at[t].of]
  /\ Goto(t, Following(at[t].kind, "fill"))
  /\ UNCHANGED <<alive, installed, ports, threadsRun, suspended, gone, inbox, reports, faults, inHandler>>

\* Mutant: a crash of the handler goes to the standard report too.
MutOnCrash(t) ==
  /\ At(t, "report")
  /\ IF reports["standard"] = Absent
     THEN /\ reports' = [reports EXCEPT !["standard"] =
               [type |-> context.type, thread |-> context.thread, complete |-> FALSE,
                by |-> at[t].kind, of |-> at[t].of]]
          /\ at' = [at EXCEPT ![t].pc = "writing", ![t].file = "standard"]
     ELSE Goto(t, "written") /\ UNCHANGED reports
  /\ UNCHANGED <<alive, installed, ports, context, threadsRun, suspended, gone, inbox, faults, inHandler>>

(* bsg_kscrash_i_onCrash: a report that is there already is not written    *)
(* (O_EXCL).                                                               *)
OnCrash(t) ==
  LET file == IF context.recrash THEN "minimal" ELSE "standard"
  IN  /\ At(t, "report")
      /\ IF reports[file] = Absent
         THEN /\ reports' = [reports EXCEPT ![file] =
                   [type |-> context.type, thread |-> context.thread, complete |-> FALSE,
                    by |-> at[t].kind, of |-> at[t].of]]
              /\ at' = [at EXCEPT ![t].pc = "writing", ![t].file = file]
         ELSE Goto(t, "written") /\ UNCHANGED reports
      /\ UNCHANGED <<alive, installed, ports, context, threadsRun, suspended, gone, inbox, faults, inHandler>>

CloseReport(t) ==
  /\ At(t, "writing")
  /\ reports' = [reports EXCEPT ![at[t].file].complete = TRUE]
  /\ Goto(t, "written")
  /\ UNCHANGED <<alive, installed, ports, context, threadsRun, suspended, gone, inbox, faults, inHandler>>

UninstallHandlers(t) ==
  /\ At(t, "written")
  /\ IF at[t].kind = "nsexception" THEN UNCHANGED <<installed, ports, gone>>
     ELSE Uninstall(TypesOf(at[t].kind), t)
  /\ Goto(t, Following(at[t].kind, "written"))
  /\ UNCHANGED <<alive, context, threadsRun, suspended, inbox, reports, faults, inHandler>>

\* Mutant: the flag is looked at the wrong way round.
MutResumeThreads(t) ==
  /\ At(t, "resume")
  /\ at' = [at EXCEPT ![t].todo = Thread \ (gone \cup {t}),
                      ![t].pc = IF threadsRun THEN "resuming" ELSE Following(at[t].kind, "resume")]
  /\ UNCHANGED <<alive, installed, ports, context, threadsRun, suspended, gone, inbox, reports, faults, inHandler>>

(* bsg_kscrashsentry_resumeThreads: the threads are listed again ... *)
ResumeThreads(t) ==
  /\ At(t, "resume")
  /\ at' = [at EXCEPT ![t].todo = Thread \ (gone \cup {t}),
                      ![t].pc = IF threadsRun THEN Following(at[t].kind, "resume") ELSE "resuming"]
  /\ UNCHANGED <<alive, installed, ports, context, threadsRun, suspended, gone, inbox, reports, faults, inHandler>>

(* ... and resumed one by one, which fails for one that runs.  A thread    *)
(* that is resumed early finds the flag still saying that none run.        *)
ResumeThread(t) ==
  /\ At(t, "resuming")
  /\ \/ \E u \in at[t].todo :
          /\ suspended' = IF u \in gone \cup context.reserved \/ suspended[u] = 0 THEN suspended
                          ELSE [suspended EXCEPT ![u] = @ - 1]
          /\ at' = [at EXCEPT ![t].todo = @ \ {u}]
          /\ UNCHANGED threadsRun
     \/ /\ at[t].todo = {}
        /\ threadsRun' = TRUE
        /\ Goto(t, Following(at[t].kind, "resume"))
        /\ UNCHANGED suspended
  /\ UNCHANGED <<alive, installed, ports, context, gone, inbox, reports, faults, inHandler>>

(* From the terminate handler the exception goes on to the uncaught        *)
(* exception handler, if it is ours still; that one uninstalls everything. *)
Recorded(t) ==
  /\ At(t, "recorded")
  /\ IF at[t].inTerminate
     THEN /\ at' = [at EXCEPT ![t].inTerminate = FALSE, ![t].pc = "enter"]
          /\ UNCHANGED <<installed, ports, gone>>
     ELSE Goto(t, "finish") /\ Uninstall(All, t)
  /\ UNCHANGED <<alive, context, threadsRun, suspended, inbox, reports, faults, inHandler>>

(* The signal is raised again for its default action, or handed to the     *)
(* handler before ours, which ends the process.                            *)
ReraiseSignal(t) ==
  /\ At(t, "reraise")
  /\ alive' = "dead"
  /\ UNCHANGED <<installed, ports, context, threadsRun, suspended, gone, inbox, at, reports, faults, inHandler>>

(* The Mach thread replies that it has not handled the exception, and ends; *)
(* the kernel raises a signal.  The handlers of the languages call those   *)
(* before them, which abort.                                               *)
Finish(t) ==
  LET stopped == IF at[t].kind = "mach" THEN at[t].of ELSE t
  IN  /\ At(t, "finish")
      /\ at' = [at EXCEPT ![stopped] = Frame("enter", "signal", stopped)]
      /\ gone' = IF at[t].kind = "mach" THEN gone \cup {t} ELSE gone
      /\ UNCHANGED <<alive, installed, ports, context, threadsRun, suspended, inbox, reports, faults, inHandler>>

Step(t) ==
  \/ Receive(t) \/ Enter(t) \/ Begin(t) \/ ListThreads(t) \/ SuspendThread(t) \/ SwitchToSecondary(t)
  \/ Recrash(t) \/ Record(t) \/ Fill(t) \/ OnCrash(t) \/ CloseReport(t) \/ UninstallHandlers(t)
  \/ ResumeThreads(t) \/ ResumeThread(t) \/ Recorded(t) \/ ReraiseSignal(t) \/ Finish(t)

(* The watchdog or the user. *)
Kill ==
  /\ alive = "running"
  /\ alive' = "killed"
  /\ UNCHANGED <<installed, ports, context, threadsRun, suspended, gone, inbox, at, reports, faults, inHandler>>

Done == alive # "running" /\ UNCHANGED vars

Next ==
  \/ \E t \in Thread :
       \/ Step(t)
       \/ \E kind \in All : Fault(t, kind)
       \/ \E kind \in AsyncSafe : HandlerFault(t, kind)
  \/ Kill
  \/ Done

(* A thread that is not suspended runs. *)
Spec == Init /\ [][Next]_vars /\ \A t \in Thread : WF_vars(Step(t))

-----------------------------------------------------------------------------
Complete(file) == IF reports[file] = Absent THEN FALSE ELSE reports[file].complete

(* An NSException among others: its sentry fills the context before the    *)
(* threads are suspended, and from the terminate handler without beginning *)
(* to handle a crash, so the Mach threads are reserved still and run on.   *)
ExceptionAmongOthers == Len(faults) > 1 /\ \E i \in DOMAIN faults : faults[i] = "nsexception"

(* The only report that there is, and what each report says: the crash that *)
(* its writer handles.                                                     *)
Only(file) == reports[file] # Absent /\ \A f \in DOMAIN reports \ {file} : reports[f] = Absent
Matches(file) == reports[file].type = reports[file].by /\ reports[file].thread = reports[file].of

(* A report describes the crash that its writer handles, whatever other    *)
(* threads crash at the same time: nobody can clear the context once it is *)
(* filled, because all others are suspended by then.  So it is for the     *)
(* first report, and for a second one when two threads crash.  When three  *)
(* do, two of them may be resumed after the first report while the flag    *)
(* still says that no thread runs; neither suspends the other then, and    *)
(* the second report may mix the two.                                      *)
OneCrashPerReport ==
  ~ExceptionAmongOthers =>
    \A f \in DOMAIN reports :
      reports[f] # Absent /\ (Only(f) \/ Len(faults) <= 2) => Matches(f)

(* A process that ends by itself leaves a whole report: of the handler's   *)
(* own crash too, unless other threads crash (then the first report may be *)
(* the minimal one already) or it was in the handler of an NSException,    *)
(* which may not have said that a crash is being handled.  It takes three  *)
(* crashes at once to leave none: the second finds the first one begun and *)
(* uninstalls all sentries, and the third ends the process.                *)
ReportLeft ==
  alive = "dead" /\ ~ExceptionAmongOthers /\ Len(faults) <= 2 =>
    IF inHandler = "none" THEN Complete("standard") \/ Complete("minimal")
    ELSE Len(faults) = 1 /\ inHandler # "nsexception" => Complete("minimal")

(* A thread that crashes ends the process, with all others suspended or    *)
(* crashing too, if its handler does not crash.                            *)
Terminates == faults # <<>> ~> (alive # "running" \/ inHandler # "none")

=============================================================================
