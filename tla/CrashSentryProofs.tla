-------------------------- MODULE CrashSentryProofs --------------------------
(***************************************************************************)
(* The first report describes the crash of its writer, for any number of   *)
(* threads and faults and any sentries installed; and a process that ends  *)
(* by itself leaves a whole report.                                        *)
(*                                                                         *)
(* No lock guards the context: what does is that each thread suspends all  *)
(* others before it fills it.  Several may be at that at once and suspend  *)
(* each other, so that the kernel's counts are what has to be reasoned     *)
(* about.  It holds until the first report is whole: then whoever wrote it *)
(* resumes the others one by one, and a thread resumed early suspends      *)
(* nobody any more.                                                        *)
(***************************************************************************)
EXTENDS CrashSentry, TLAPS, FiniteSetTheorems

(***************************************************************************)
(* Types.                                                                  *)
(***************************************************************************)

\* The stages each kind of crash goes through; a thread that is not in a
\* handler has the first kind.
StagesOf(kind) ==
  CASE kind = "mach" -> {"app", "receiving", "trapped", "enter", "begin", "suspend", "suspending", "secondary",
                         "recrash", "fill", "report", "writing", "written", "resume", "resuming", "finish"}
    [] kind = "signal" -> {"enter", "begin", "suspend", "suspending", "recrash", "fill", "report", "writing",
                           "written", "resume", "resuming", "reraise"}
    [] kind = "cpp" -> {"enter", "begin", "recrash", "suspend", "suspending", "fill", "report", "writing",
                        "written", "resume", "resuming", "finish"}
    [] kind = "nsexception" -> {"enter", "begin", "recrash", "record", "fill", "suspend", "suspending", "report",
                                "writing", "written", "resume", "resuming", "recorded", "finish"}

\* Of the Mach exceptions only the threads that wait for them are handlers.
StageInv ==
  /\ \A t \in Thread : at[t].pc \in StagesOf(at[t].kind)
  /\ \A t \in App : at[t].kind = "mach" => at[t].pc \in {"app", "trapped"}

\* Whoever writes a report has opened it.
WriterInv == \A t \in Thread : at[t].pc = "writing" => reports[at[t].file] \in ReportType

\* The stages, kind by kind.
LEMMA StageSets ==
  /\ StagesOf("mach") = {"app", "receiving", "trapped", "enter", "begin", "suspend", "suspending", "secondary",
                         "recrash", "fill", "report", "writing", "written", "resume", "resuming", "finish"}
  /\ StagesOf("signal") = {"enter", "begin", "suspend", "suspending", "recrash", "fill", "report", "writing",
                           "written", "resume", "resuming", "reraise"}
  /\ StagesOf("cpp") = {"enter", "begin", "recrash", "suspend", "suspending", "fill", "report", "writing",
                        "written", "resume", "resuming", "finish"}
  /\ StagesOf("nsexception") = {"enter", "begin", "recrash", "record", "fill", "suspend", "suspending", "report",
                                "writing", "written", "resume", "resuming", "recorded", "finish"}
  BY DEF StagesOf

\* The orders of the handlers as one table.
LEMMA FollowingTable ==
  /\ Following("mach", "begin") = "suspend" /\ Following("mach", "suspend") = "secondary"
  /\ Following("mach", "secondary") = "recrash" /\ Following("mach", "recrash") = "fill"
  /\ Following("mach", "fill") = "report" /\ Following("mach", "written") = "resume"
  /\ Following("mach", "resume") = "finish"
  /\ Following("signal", "begin") = "suspend" /\ Following("signal", "suspend") = "recrash"
  /\ Following("signal", "recrash") = "fill" /\ Following("signal", "fill") = "report"
  /\ Following("signal", "written") = "resume" /\ Following("signal", "resume") = "reraise"
  /\ Following("cpp", "begin") = "recrash" /\ Following("cpp", "recrash") = "suspend"
  /\ Following("cpp", "suspend") = "fill" /\ Following("cpp", "fill") = "report"
  /\ Following("cpp", "written") = "resume" /\ Following("cpp", "resume") = "finish"
  /\ Following("nsexception", "begin") = "recrash" /\ Following("nsexception", "recrash") = "record"
  /\ Following("nsexception", "fill") = "suspend" /\ Following("nsexception", "suspend") = "report"
  /\ Following("nsexception", "written") = "resume" /\ Following("nsexception", "resume") = "recorded"
  <1>1. /\ Following("mach", "begin") = "suspend" /\ Following("mach", "suspend") = "secondary"
        /\ Following("mach", "secondary") = "recrash" /\ Following("mach", "recrash") = "fill"
        /\ Following("mach", "fill") = "report" /\ Following("mach", "written") = "resume"
        /\ Following("mach", "resume") = "finish"
    BY DEF Following, MachOrder
  <1>2. /\ Following("signal", "begin") = "suspend" /\ Following("signal", "suspend") = "recrash"
        /\ Following("signal", "recrash") = "fill" /\ Following("signal", "fill") = "report"
        /\ Following("signal", "written") = "resume" /\ Following("signal", "resume") = "reraise"
    BY DEF Following, SignalOrder
  <1>3. /\ Following("cpp", "begin") = "recrash" /\ Following("cpp", "recrash") = "suspend"
        /\ Following("cpp", "suspend") = "fill" /\ Following("cpp", "fill") = "report"
        /\ Following("cpp", "written") = "resume" /\ Following("cpp", "resume") = "finish"
    BY DEF Following, CPPOrder
  <1>4. /\ Following("nsexception", "begin") = "recrash" /\ Following("nsexception", "recrash") = "record"
        /\ Following("nsexception", "fill") = "suspend" /\ Following("nsexception", "suspend") = "report"
        /\ Following("nsexception", "written") = "resume" /\ Following("nsexception", "resume") = "recorded"
    BY DEF Following, NSOrder
  <1>. QED BY <1>1, <1>2, <1>3, <1>4

\* What follows a stage is a stage of the same kind, that only the handler goes to.
LEMMA FollowingStage ==
  ASSUME NEW kind \in All, NEW stage \in StagesOf(kind),
         stage \in {"begin", "suspend", "secondary", "recrash", "fill", "written", "resume"}
  PROVE  /\ Following(kind, stage) \in StagesOf(kind) \cap Stages
         /\ Following(kind, stage) \notin {"app", "receiving", "trapped", "enter", "suspending", "writing", "resuming"}
  <1>1. CASE kind = "mach"
    BY <1>1, FollowingTable, StageSets DEF Stages
  <1>2. CASE kind = "signal"
    BY <1>2, FollowingTable, StageSets DEF Stages
  <1>3. CASE kind = "cpp"
    BY <1>3, FollowingTable, StageSets DEF Stages
  <1>4. CASE kind = "nsexception"
    BY <1>4, FollowingTable, StageSets DEF Stages
  <1>. QED BY <1>1, <1>2, <1>3, <1>4 DEF All, AsyncSafe

\* A new frame is a frame.
LEMMA NewFrame ==
  ASSUME NEW pc \in Stages, NEW kind \in All, NEW of \in Thread
  PROVE  /\ Frame(pc, kind, of) \in FrameType
         /\ Frame(pc, kind, of).pc = pc /\ Frame(pc, kind, of).kind = kind /\ Frame(pc, kind, of).of = of
  BY DEF Frame, FrameType

\* A frame stays one when it goes to another stage.
LEMMA StageChanged ==
  ASSUME NEW f \in FrameType, NEW pc \in Stages
  PROVE  /\ [f EXCEPT !.pc = pc] \in FrameType
         /\ [f EXCEPT !.pc = pc].pc = pc /\ [f EXCEPT !.pc = pc].kind = f.kind
         /\ [f EXCEPT !.pc = pc].of = f.of /\ [f EXCEPT !.pc = pc].todo = f.todo
  <1>1. [f EXCEPT !.pc = pc] \in FrameType
    BY DEF FrameType
  <1>. QED BY <1>1 DEF FrameType

\* Nor does it stop being one when something else of it changes.
LEMMA FrameChanged ==
  ASSUME NEW f \in FrameType
  PROVE  /\ \A was \in BOOLEAN :
              /\ [f EXCEPT !.was = was] \in FrameType
              /\ [f EXCEPT !.was = was].kind = f.kind /\ [f EXCEPT !.was = was].of = f.of
         /\ \A todo \in SUBSET Thread :
              /\ [f EXCEPT !.todo = todo] \in FrameType /\ [f EXCEPT !.todo = todo].todo = todo
              /\ [f EXCEPT !.todo = todo].kind = f.kind /\ [f EXCEPT !.todo = todo].of = f.of
              /\ [f EXCEPT !.todo = todo].pc = f.pc
         /\ \A file \in {"standard", "minimal"} :
              /\ [f EXCEPT !.file = file] \in FrameType /\ [f EXCEPT !.file = file].file = file
              /\ [f EXCEPT !.file = file].kind = f.kind /\ [f EXCEPT !.file = file].of = f.of
              /\ [f EXCEPT !.file = file].pc = f.pc
         /\ [f EXCEPT !.recorded = TRUE] \in FrameType
         /\ [f EXCEPT !.recorded = TRUE].kind = f.kind /\ [f EXCEPT !.recorded = TRUE].of = f.of
         /\ [f EXCEPT !.recorded = TRUE].pc = f.pc
         /\ [f EXCEPT !.inTerminate = FALSE] \in FrameType
         /\ [f EXCEPT !.inTerminate = FALSE].kind = f.kind /\ [f EXCEPT !.inTerminate = FALSE].of = f.of
         /\ [f EXCEPT !.inTerminate = FALSE].pc = f.pc
  <1>1. ASSUME NEW was \in BOOLEAN
        PROVE  /\ [f EXCEPT !.was = was] \in FrameType
               /\ [f EXCEPT !.was = was].kind = f.kind /\ [f EXCEPT !.was = was].of = f.of
    <2>1. [f EXCEPT !.was = was] \in FrameType
      BY DEF FrameType
    <2>. QED BY <2>1 DEF FrameType
  <1>2. ASSUME NEW todo \in SUBSET Thread
        PROVE  /\ [f EXCEPT !.todo = todo] \in FrameType /\ [f EXCEPT !.todo = todo].todo = todo
               /\ [f EXCEPT !.todo = todo].kind = f.kind /\ [f EXCEPT !.todo = todo].of = f.of
               /\ [f EXCEPT !.todo = todo].pc = f.pc
    <2>1. [f EXCEPT !.todo = todo] \in FrameType
      BY DEF FrameType
    <2>. QED BY <2>1 DEF FrameType
  <1>3. ASSUME NEW file \in {"standard", "minimal"}
        PROVE  /\ [f EXCEPT !.file = file] \in FrameType /\ [f EXCEPT !.file = file].file = file
               /\ [f EXCEPT !.file = file].kind = f.kind /\ [f EXCEPT !.file = file].of = f.of
               /\ [f EXCEPT !.file = file].pc = f.pc
    <2>1. [f EXCEPT !.file = file] \in FrameType
      BY DEF FrameType
    <2>. QED BY <2>1 DEF FrameType
  <1>4. /\ [f EXCEPT !.recorded = TRUE] \in FrameType
        /\ [f EXCEPT !.recorded = TRUE].kind = f.kind /\ [f EXCEPT !.recorded = TRUE].of = f.of
        /\ [f EXCEPT !.recorded = TRUE].pc = f.pc
    <2>1. [f EXCEPT !.recorded = TRUE] \in FrameType
      BY DEF FrameType
    <2>. QED BY <2>1 DEF FrameType
  <1>5. /\ [f EXCEPT !.inTerminate = FALSE] \in FrameType
        /\ [f EXCEPT !.inTerminate = FALSE].kind = f.kind /\ [f EXCEPT !.inTerminate = FALSE].of = f.of
        /\ [f EXCEPT !.inTerminate = FALSE].pc = f.pc
    <2>1. [f EXCEPT !.inTerminate = FALSE] \in FrameType
      BY DEF FrameType
    <2>. QED BY <2>1 DEF FrameType
  <1>. QED BY <1>1, <1>2, <1>3, <1>4, <1>5

\* The case of the threads that are still to be suspended.
LEMMA TodoChanged ==
  ASSUME NEW f \in FrameType, NEW todo \in SUBSET Thread
  PROVE  /\ [f EXCEPT !.todo = todo] \in FrameType /\ [f EXCEPT !.todo = todo].todo = todo
         /\ [f EXCEPT !.todo = todo].kind = f.kind /\ [f EXCEPT !.todo = todo].of = f.of
         /\ [f EXCEPT !.todo = todo].pc = f.pc
  BY Zenon, FrameChanged

\* t goes to a stage; of the other threads and of the crash t handles nothing
\* changes.
Went(t, pc) ==
  /\ at' \in [Thread -> FrameType]
  /\ at'[t].pc = pc /\ at'[t].kind = at[t].kind /\ at'[t].of = at[t].of
  /\ \A u \in Thread \ {t} : at'[u] = at[u]

\* Going to a stage is no more than that.
LEMMA GotoWent ==
  ASSUME TypeOK, NEW t \in Thread, NEW pc \in Stages, Goto(t, pc)
  PROVE  Went(t, pc)
  <1>1. at \in [Thread -> FrameType]
    BY DEF TypeOK
  <1>2. at' = [at EXCEPT ![t] = [at[t] EXCEPT !.pc = pc]]
    BY <1>1 DEF Goto
  <1>. QED BY <1>1, <1>2, StageChanged DEF Went

\* Where the kernel and the runtimes take a thread.
LEMMA RaiseWent ==
  ASSUME TypeOK, NEW t \in Thread, NEW kind \in All, Raise(t, kind)
  PROVE  /\ at' \in [Thread -> FrameType]
         /\ \A u \in Thread \ {t} : at'[u] = at[u]
         /\ at'[t].of = t
         /\ \/ at'[t].pc = "trapped" /\ at'[t].kind = "mach" /\ kind = "mach" /\ inbox' = inbox \cup {t}
            \/ at'[t].pc = "enter" /\ at'[t].kind = "signal" /\ inbox' = inbox
            \/ at'[t].pc = "enter" /\ at'[t].kind = "cpp" /\ kind = "cpp" /\ inbox' = inbox
            \/ at'[t].pc \in {"enter", "record"} /\ at'[t].kind = "nsexception" /\ kind = "nsexception"
                 /\ inbox' = inbox
  <1>1. {"trapped", "record", "enter"} \subseteq Stages /\ {"mach", "signal", "cpp", "nsexception"} \subseteq All
    BY DEF Stages, All, AsyncSafe
  <1>2. at \in [Thread -> FrameType]
    BY DEF TypeOK
  <1>3. ASSUME NEW f \in FrameType, at' = [at EXCEPT ![t] = f]
        PROVE  at' \in [Thread -> FrameType] /\ at'[t] = f /\ \A u \in Thread \ {t} : at'[u] = at[u]
    BY <1>2, <1>3
  <1>4. inbox' = IF kind = "mach" /\ ports = "ours" THEN inbox \cup {t} ELSE inbox
    BY DEF Raise
  <1>5. CASE kind = "mach" /\ ports = "ours"
    <2>1. at' = [at EXCEPT ![t] = Frame("trapped", "mach", t)]
      BY <1>5 DEF Raise
    <2>2. /\ Frame("trapped", "mach", t) \in FrameType /\ Frame("trapped", "mach", t).pc = "trapped"
          /\ Frame("trapped", "mach", t).kind = "mach" /\ Frame("trapped", "mach", t).of = t
      BY <1>1, NewFrame
    <2>. QED BY <1>3, <1>4, <1>5, <2>1, <2>2
  <1>6. CASE kind = "nsexception" /\ "cpp" \in installed
    <2>. DEFINE f == [Frame("record", "nsexception", t) EXCEPT !.inTerminate = TRUE]
    <2>1. at' = [at EXCEPT ![t] = f]
      BY <1>6 DEF Raise
    <2>2. /\ Frame("record", "nsexception", t) \in FrameType /\ Frame("record", "nsexception", t).pc = "record"
          /\ Frame("record", "nsexception", t).kind = "nsexception" /\ Frame("record", "nsexception", t).of = t
      BY <1>1, NewFrame
    <2>3. f \in FrameType /\ f.pc = "record" /\ f.kind = "nsexception" /\ f.of = t
      BY <2>2 DEF FrameType
    <2>. HIDE DEF f
    <2>. QED BY <1>3, <1>4, <1>6, <2>1, <2>3
  <1>7. CASE kind = "nsexception" /\ "cpp" \notin installed
    <2>1. at' = [at EXCEPT ![t] = Frame("enter", "nsexception", t)]
      BY <1>7 DEF Raise
    <2>2. /\ Frame("enter", "nsexception", t) \in FrameType /\ Frame("enter", "nsexception", t).pc = "enter"
          /\ Frame("enter", "nsexception", t).kind = "nsexception" /\ Frame("enter", "nsexception", t).of = t
      BY <1>1, NewFrame
    <2>. QED BY <1>3, <1>4, <1>7, <2>1, <2>2
  <1>8. CASE kind = "cpp" /\ "cpp" \in installed
    <2>1. at' = [at EXCEPT ![t] = Frame("enter", "cpp", t)]
      BY <1>8 DEF Raise
    <2>2. /\ Frame("enter", "cpp", t) \in FrameType /\ Frame("enter", "cpp", t).pc = "enter"
          /\ Frame("enter", "cpp", t).kind = "cpp" /\ Frame("enter", "cpp", t).of = t
      BY <1>1, NewFrame
    <2>. QED BY <1>3, <1>4, <1>8, <2>1, <2>2
  <1>9. CASE /\ ~(kind = "mach" /\ ports = "ours") /\ kind # "nsexception"
             /\ ~(kind = "cpp" /\ "cpp" \in installed)
    <2>1. at' = [at EXCEPT ![t] = Frame("enter", "signal", t)]
      BY <1>9 DEF Raise
    <2>2. /\ Frame("enter", "signal", t) \in FrameType /\ Frame("enter", "signal", t).pc = "enter"
          /\ Frame("enter", "signal", t).kind = "signal" /\ Frame("enter", "signal", t).of = t
      BY <1>1, NewFrame
    <2>. QED BY <1>3, <1>4, <1>9, <2>1, <2>2
  <1>. QED BY <1>5, <1>6, <1>7, <1>8, <1>9

-----------------------------------------------------------------------------
(***************************************************************************)
(* The steps, by what they change of the thread that takes them.           *)
(***************************************************************************)

\* Entering a handler.
LEMMA EnterWent ==
  ASSUME TypeOK, StageInv, NEW t \in Thread, Enter(t)
  PROVE  /\ Went(t, at'[t].pc) /\ at[t].pc = "enter" /\ at'[t].pc \in StagesOf(at[t].kind)
         /\ \/ at'[t].pc = "begin"
            \/ at'[t].pc = "reraise" /\ at[t].kind = "signal"
            \/ at'[t].pc = "finish" /\ at[t].kind # "signal"
  <1>1. at \in [Thread -> FrameType] /\ context.handling \in BOOLEAN /\ at[t].kind \in All
    BY DEF TypeOK, ContextType, FrameType
  <1>. DEFINE pc == CASE at[t].kind \in installed \cup {"cpp"} -> "begin"
                      [] at[t].kind = "signal" /\ "signal" \notin installed -> "reraise"
                      [] OTHER -> "finish"
  <1>2. /\ pc \in Stages /\ pc \in StagesOf(at[t].kind)
        /\ \/ pc = "begin"
           \/ pc = "reraise" /\ at[t].kind = "signal"
           \/ pc = "finish" /\ at[t].kind # "signal"
    <2>1. \/ pc = "begin"
          \/ pc = "reraise" /\ at[t].kind = "signal"
          \/ pc = "finish" /\ at[t].kind # "signal"
      OBVIOUS
    <2>2. at[t].kind \in {"mach", "signal", "cpp", "nsexception"}
      BY <1>1 DEF All, AsyncSafe
    <2>. QED BY <2>1, <2>2, StageSets DEF Stages
  <1>3. at' = [at EXCEPT ![t].was = context.handling, ![t].pc = pc] /\ at[t].pc = "enter"
    BY DEF Enter, At
  <1>. HIDE DEF pc
  <1>4. at' = [at EXCEPT ![t] = [[at[t] EXCEPT !.was = context.handling] EXCEPT !.pc = pc]]
    BY <1>1, <1>3
  <1>. DEFINE f == [at[t] EXCEPT !.was = context.handling]
  <1>5. f \in FrameType /\ f.kind = at[t].kind /\ f.of = at[t].of
    BY <1>1, FrameChanged
  <1>. HIDE DEF f
  <1>6. at' = [at EXCEPT ![t] = [f EXCEPT !.pc = pc]]
    BY <1>4 DEF f
  <1>7. Went(t, pc) /\ at'[t].pc = pc
    BY <1>1, <1>2, <1>5, <1>6, StageChanged DEF Went
  <1>. QED BY <1>2, <1>3, <1>7

\* Stages that are only left for the next.
LEMMA StageWent ==
  ASSUME TypeOK, StageInv, NEW t \in Thread, NEW stage \in {"begin", "secondary", "recrash", "fill", "written"},
         at[t].pc = stage, Goto(t, Following(at[t].kind, stage))
  PROVE  /\ Went(t, Following(at[t].kind, stage))
         /\ Following(at[t].kind, stage) \in StagesOf(at[t].kind)
         /\ Following(at[t].kind, stage) \notin {"app", "receiving", "trapped", "enter", "suspending", "writing", "resuming"}
  <1>1. at[t].kind \in All /\ at[t].pc \in StagesOf(at[t].kind)
    BY DEF TypeOK, FrameType, StageInv
  <1>. QED BY <1>1, FollowingStage, GotoWent

\* The threads are listed, if they run.
LEMMA ListWent ==
  ASSUME TypeOK, StageInv, NEW t \in Thread, ListThreads(t)
  PROVE  /\ Went(t, at'[t].pc) /\ at[t].pc = "suspend" /\ at'[t].pc \in StagesOf(at[t].kind)
         /\ at'[t].pc = IF threadsRun THEN "suspending" ELSE Following(at[t].kind, "suspend")
         /\ at'[t].todo = Thread \ (gone \cup {t})
         /\ at'[t].pc \notin {"app", "receiving", "trapped", "enter", "writing"}
  <1>1. at \in [Thread -> FrameType] /\ at[t].kind \in All /\ at[t].pc \in StagesOf(at[t].kind)
    BY DEF TypeOK, FrameType, StageInv
  <1>. DEFINE pc == IF threadsRun THEN "suspending" ELSE Following(at[t].kind, "suspend")
              todo == Thread \ (gone \cup {t})
              f == [at[t] EXCEPT !.todo = todo]
  <1>2. at' = [at EXCEPT ![t].todo = todo, ![t].pc = pc] /\ at[t].pc = "suspend"
    BY DEF ListThreads, At
  <1>3. pc \in Stages /\ pc \in StagesOf(at[t].kind) /\ pc \notin {"app", "receiving", "trapped", "enter", "writing"}
    <2>1. /\ Following(at[t].kind, "suspend") \in StagesOf(at[t].kind) \cap Stages
          /\ Following(at[t].kind, "suspend") \notin {"app", "receiving", "trapped", "enter", "suspending", "writing", "resuming"}
      BY <1>1, <1>2, FollowingStage
    <2>2. "suspending" \in StagesOf(at[t].kind) \cap Stages
      BY <1>1, <1>2, StageSets DEF All, AsyncSafe, Stages
    <2>. QED BY <2>1, <2>2
  <1>4. todo \in SUBSET Thread
    OBVIOUS
  <1>. HIDE DEF pc, todo
  <1>5. f \in FrameType /\ f.kind = at[t].kind /\ f.of = at[t].of /\ f.todo = todo
    BY <1>1, <1>4, TodoChanged
  <1>6. at' = [at EXCEPT ![t] = [f EXCEPT !.pc = pc]]
    BY <1>1, <1>2
  <1>. HIDE DEF f
  <1>7. /\ Went(t, pc) /\ at'[t].pc = pc /\ at'[t].todo = todo
    BY <1>1, <1>3, <1>5, <1>6, StageChanged DEF Went
  <1>. QED BY <1>2, <1>3, <1>7 DEF pc, todo

\* One more thread is suspended, or all have been.
LEMMA SuspendWent ==
  ASSUME TypeOK, StageInv, NEW t \in Thread, SuspendThread(t)
  PROVE  /\ at[t].pc = "suspending"
         /\ \/ /\ Went(t, "suspending") /\ UNCHANGED threadsRun
               /\ \E u \in at[t].todo : /\ at'[t].todo = at[t].todo \ {u}
                                        /\ suspended' = IF u \in gone \cup context.reserved THEN suspended
                                                        ELSE [suspended EXCEPT ![u] = @ + 1]
            \/ /\ Went(t, Following(at[t].kind, "suspend"))
               /\ Following(at[t].kind, "suspend") \in StagesOf(at[t].kind)
               /\ Following(at[t].kind, "suspend") \notin {"app", "receiving", "trapped", "enter", "suspending", "writing", "resuming"}
               /\ at[t].todo = {} /\ threadsRun' = FALSE /\ UNCHANGED suspended
  <1>1. at \in [Thread -> FrameType] /\ at[t].kind \in All /\ at[t].pc \in StagesOf(at[t].kind)
        /\ at[t].todo \subseteq Thread /\ at[t].pc = "suspending"
    BY DEF TypeOK, FrameType, StageInv, SuspendThread, At
  <1>2. ASSUME NEW u \in at[t].todo, at' = [at EXCEPT ![t].todo = @ \ {u}]
        PROVE  Went(t, "suspending") /\ at'[t].todo = at[t].todo \ {u}
    <2>. DEFINE todo == at[t].todo \ {u}
                f == [at[t] EXCEPT !.todo = todo]
    <2>1. at' = [at EXCEPT ![t] = f]
      BY <1>1, <1>2
    <2>2. todo \in SUBSET Thread
      BY <1>1
    <2>. HIDE DEF todo
    <2>3. f \in FrameType /\ f.kind = at[t].kind /\ f.of = at[t].of /\ f.pc = at[t].pc /\ f.todo = todo
      BY <1>1, <2>2, TodoChanged
    <2>. HIDE DEF f
    <2>4. Went(t, "suspending") /\ at'[t].todo = todo
      BY <1>1, <2>1, <2>3 DEF Went
    <2>. QED BY <2>4 DEF todo
  <1>3. /\ Following(at[t].kind, "suspend") \in StagesOf(at[t].kind) \cap Stages
        /\ Following(at[t].kind, "suspend") \notin {"app", "receiving", "trapped", "enter", "suspending", "writing", "resuming"}
    <2>1. "suspend" \in StagesOf(at[t].kind)
      BY <1>1, StageSets DEF All, AsyncSafe
    <2>. QED BY <1>1, <2>1, FollowingStage
  <1>. QED BY <1>1, <1>2, <1>3, GotoWent DEF SuspendThread

\* The threads are listed to be resumed, if they do not run.
LEMMA ResumeListWent ==
  ASSUME TypeOK, StageInv, NEW t \in Thread, ResumeThreads(t)
  PROVE  /\ Went(t, at'[t].pc) /\ at[t].pc = "resume" /\ at'[t].pc \in StagesOf(at[t].kind)
         /\ at'[t].pc = IF threadsRun THEN Following(at[t].kind, "resume") ELSE "resuming"
         /\ at'[t].pc \notin {"app", "receiving", "trapped", "enter", "suspending", "writing"}
  <1>1. at \in [Thread -> FrameType] /\ at[t].kind \in All /\ at[t].pc \in StagesOf(at[t].kind)
    BY DEF TypeOK, FrameType, StageInv
  <1>. DEFINE pc == IF threadsRun THEN Following(at[t].kind, "resume") ELSE "resuming"
              todo == Thread \ (gone \cup {t})
              f == [at[t] EXCEPT !.todo = todo]
  <1>2. at' = [at EXCEPT ![t].todo = todo, ![t].pc = pc] /\ at[t].pc = "resume"
    BY DEF ResumeThreads, At
  <1>3. /\ pc \in Stages /\ pc \in StagesOf(at[t].kind)
        /\ pc \notin {"app", "receiving", "trapped", "enter", "suspending", "writing"}
    <2>1. /\ Following(at[t].kind, "resume") \in StagesOf(at[t].kind) \cap Stages
          /\ Following(at[t].kind, "resume") \notin {"app", "receiving", "trapped", "enter", "suspending", "writing"}
      BY <1>1, <1>2, FollowingStage
    <2>2. "resuming" \in StagesOf(at[t].kind) \cap Stages
      BY <1>1, <1>2, StageSets DEF All, AsyncSafe, Stages
    <2>. QED BY <2>1, <2>2
  <1>4. todo \in SUBSET Thread
    OBVIOUS
  <1>. HIDE DEF pc, todo
  <1>5. f \in FrameType /\ f.kind = at[t].kind /\ f.of = at[t].of
    BY <1>1, <1>4, TodoChanged
  <1>6. at' = [at EXCEPT ![t] = [f EXCEPT !.pc = pc]]
    BY <1>1, <1>2
  <1>. HIDE DEF f
  <1>7. Went(t, pc) /\ at'[t].pc = pc
    BY <1>1, <1>3, <1>5, <1>6, StageChanged DEF Went
  <1>. QED BY <1>2, <1>3, <1>7 DEF pc

\* One more thread is resumed, or all have been.
LEMMA ResumeWent ==
  ASSUME TypeOK, StageInv, NEW t \in Thread, ResumeThread(t)
  PROVE  /\ at[t].pc = "resuming"
         /\ \/ Went(t, "resuming")
            \/ /\ Went(t, Following(at[t].kind, "resume"))
               /\ Following(at[t].kind, "resume") \in StagesOf(at[t].kind)
               /\ Following(at[t].kind, "resume")
                    \notin {"app", "receiving", "trapped", "enter", "suspending", "writing", "resuming"}
  <1>1. at \in [Thread -> FrameType] /\ at[t].kind \in All /\ at[t].pc \in StagesOf(at[t].kind)
        /\ at[t].todo \subseteq Thread /\ at[t].pc = "resuming"
    BY DEF TypeOK, FrameType, StageInv, ResumeThread, At
  <1>2. ASSUME NEW u \in at[t].todo, at' = [at EXCEPT ![t].todo = @ \ {u}]
        PROVE  Went(t, "resuming")
    <2>. DEFINE todo == at[t].todo \ {u}
                f == [at[t] EXCEPT !.todo = todo]
    <2>1. at' = [at EXCEPT ![t] = f]
      BY <1>1, <1>2
    <2>2. todo \in SUBSET Thread
      BY <1>1
    <2>. HIDE DEF todo
    <2>3. f \in FrameType /\ f.kind = at[t].kind /\ f.of = at[t].of /\ f.pc = at[t].pc
      BY <1>1, <2>2, TodoChanged
    <2>. HIDE DEF f
    <2>. QED BY <1>1, <2>1, <2>3 DEF Went
  <1>3. /\ Following(at[t].kind, "resume") \in StagesOf(at[t].kind) \cap Stages
        /\ Following(at[t].kind, "resume")
             \notin {"app", "receiving", "trapped", "enter", "suspending", "writing", "resuming"}
    <2>1. "resume" \in StagesOf(at[t].kind)
      BY <1>1, StageSets DEF All, AsyncSafe
    <2>. QED BY <1>1, <2>1, FollowingStage
  <1>. QED BY <1>1, <1>2, <1>3, GotoWent DEF ResumeThread

\* An NSException is recorded once.
LEMMA RecordWent ==
  ASSUME TypeOK, StageInv, NEW t \in Thread, Record(t)
  PROVE  /\ Went(t, at'[t].pc) /\ at[t].pc = "record" /\ at[t].kind = "nsexception"
         /\ at'[t].pc \in {"fill", "recorded"}
  <1>1. at \in [Thread -> FrameType] /\ at[t].kind \in All /\ at[t].pc \in StagesOf(at[t].kind)
    BY DEF TypeOK, FrameType, StageInv
  <1>. DEFINE pc == IF "nsexception" \in installed /\ ~at[t].recorded THEN "fill" ELSE "recorded"
  <1>2. at' = [at EXCEPT ![t].pc = pc, ![t].recorded = TRUE] /\ at[t].pc = "record"
    BY DEF Record, At
  <1>3. pc \in {"fill", "recorded"} /\ pc \in Stages
    BY DEF Stages
  <1>. HIDE DEF pc
  <1>. DEFINE f == [at[t] EXCEPT !.pc = pc]
              g == [f EXCEPT !.recorded = TRUE]
  <1>4. at' = [at EXCEPT ![t] = g]
    BY <1>1, <1>2
  <1>5. f \in FrameType /\ f.pc = pc /\ f.kind = at[t].kind /\ f.of = at[t].of
    BY <1>1, <1>3, StageChanged
  <1>. HIDE DEF f
  <1>6. g \in FrameType /\ g.kind = at[t].kind /\ g.of = at[t].of /\ g.pc = pc
    BY <1>5, FrameChanged
  <1>. HIDE DEF g
  <1>7. Went(t, pc) /\ at'[t].pc = pc
    BY <1>1, <1>4, <1>6 DEF Went
  <1>8. at[t].kind = "nsexception"
    BY <1>1, <1>2, StageSets DEF All, AsyncSafe
  <1>. QED BY <1>2, <1>3, <1>7, <1>8

\* A report is opened and written, or is there already.
LEMMA OnCrashWent ==
  ASSUME TypeOK, StageInv, NEW t \in Thread, OnCrash(t)
  PROVE  /\ Went(t, at'[t].pc) /\ at[t].pc = "report" /\ at'[t].pc \in {"writing", "written"}
         /\ \/ UNCHANGED reports /\ at'[t].pc = "written"
            \/ /\ at'[t].file \in {"standard", "minimal"}
               /\ reports' = [reports EXCEPT ![at'[t].file] =
                                [type |-> context.type, thread |-> context.thread, complete |-> FALSE,
                                 by |-> at[t].kind, of |-> at[t].of]]
  <1>1. at \in [Thread -> FrameType] /\ at[t].pc = "report"
    BY DEF TypeOK, OnCrash, At
  <1>. DEFINE file == IF context.recrash THEN "minimal" ELSE "standard"
  <1>2. \/ /\ reports' = [reports EXCEPT ![file] =
                             [type |-> context.type, thread |-> context.thread, complete |-> FALSE,
                              by |-> at[t].kind, of |-> at[t].of]]
           /\ at' = [at EXCEPT ![t].pc = "writing", ![t].file = file]
        \/ Goto(t, "written") /\ UNCHANGED reports
    BY DEF OnCrash
  <1>3. file \in {"standard", "minimal"}
    OBVIOUS
  <1>. HIDE DEF file
  <1>4. ASSUME at' = [at EXCEPT ![t].pc = "writing", ![t].file = file]
        PROVE  Went(t, at'[t].pc) /\ at'[t].pc = "writing" /\ at'[t].file = file
    <2>. DEFINE f == [at[t] EXCEPT !.pc = "writing"]
                g == [f EXCEPT !.file = file]
    <2>1. at' = [at EXCEPT ![t] = g]
      BY <1>1, <1>4
    <2>2. f \in FrameType /\ f.pc = "writing" /\ f.kind = at[t].kind /\ f.of = at[t].of
      <3>1. "writing" \in Stages
        BY DEF Stages
      <3>. QED BY <1>1, <3>1, StageChanged
    <2>. HIDE DEF f
    <2>3. g \in FrameType /\ g.kind = at[t].kind /\ g.of = at[t].of /\ g.pc = "writing" /\ g.file = file
      BY <1>3, <2>2, FrameChanged
    <2>. HIDE DEF g
    <2>. QED BY <1>1, <2>1, <2>3 DEF Went
  <1>5. ASSUME Goto(t, "written")
        PROVE  Went(t, at'[t].pc) /\ at'[t].pc = "written"
    <2>1. "written" \in Stages
      BY DEF Stages
    <2>. QED BY <1>5, <2>1, GotoWent DEF Went
  <1>. QED BY <1>1, <1>2, <1>3, <1>4, <1>5

\* Where the exception goes once it is recorded.
LEMMA RecordedWent ==
  ASSUME TypeOK, StageInv, NEW t \in Thread, Recorded(t)
  PROVE  /\ Went(t, at'[t].pc) /\ at[t].pc = "recorded" /\ at[t].kind = "nsexception"
         /\ at'[t].pc \in {"enter", "finish"}
  <1>1. at \in [Thread -> FrameType] /\ at[t].kind \in All /\ at[t].pc \in StagesOf(at[t].kind)
    BY DEF TypeOK, FrameType, StageInv
  <1>2. at[t].pc = "recorded"
    BY DEF Recorded, At
  <1>3. at[t].kind = "nsexception"
    BY <1>1, <1>2, StageSets DEF All, AsyncSafe
  <1>4. "enter" \in Stages /\ "finish" \in Stages
    BY DEF Stages
  <1>5. CASE at' = [at EXCEPT ![t].inTerminate = FALSE, ![t].pc = "enter"]
    <2>. DEFINE f == [at[t] EXCEPT !.inTerminate = FALSE]
    <2>1. at' = [at EXCEPT ![t] = [f EXCEPT !.pc = "enter"]]
      BY <1>1, <1>5
    <2>2. f \in FrameType /\ f.kind = at[t].kind /\ f.of = at[t].of
      BY <1>1, FrameChanged
    <2>. HIDE DEF f
    <2>. QED BY <1>1, <1>2, <1>3, <1>4, <2>1, <2>2, StageChanged DEF Went
  <1>6. CASE Goto(t, "finish")
    BY <1>2, <1>3, <1>4, <1>6, GotoWent DEF Went
  <1>. QED BY <1>5, <1>6 DEF Recorded

\* A thread waiting for exceptions has one of a trapped thread.
LEMMA ReceiveWent ==
  ASSUME TypeOK, StageInv, NEW h \in Thread, Receive(h)
  PROVE  /\ at' \in [Thread -> FrameType] /\ at[h].pc = "receiving" /\ h \in Handlers
         /\ at'[h].pc = "enter" /\ at'[h].kind = "mach"
         /\ \A u \in Thread \ {h} : at'[u] = at[u]
         /\ \E u \in inbox : inbox' = inbox \ {u}
  <1>1. PICK u \in inbox : inbox' = inbox \ {u} /\ at' = [at EXCEPT ![h] = Frame("enter", "mach", u)]
    BY DEF Receive
  <1>2. at \in [Thread -> FrameType] /\ u \in Thread /\ h \in Handlers /\ at[h].pc = "receiving"
    BY <1>1 DEF TypeOK, Receive, At
  <1>3. /\ Frame("enter", "mach", u) \in FrameType /\ Frame("enter", "mach", u).pc = "enter"
        /\ Frame("enter", "mach", u).kind = "mach"
    BY <1>2, NewFrame DEF Stages, All, AsyncSafe
  <1>. QED BY <1>1, <1>2, <1>3

\* The thread that crashed gets a signal.
LEMMA FinishWent ==
  ASSUME TypeOK, StageInv, NEW t \in Thread, Finish(t)
  PROVE  /\ at' \in [Thread -> FrameType] /\ at[t].pc = "finish"
         /\ \E stopped \in Thread : /\ at'[stopped].pc = "enter" /\ at'[stopped].kind = "signal"
                                    /\ \A u \in Thread \ {stopped} : at'[u] = at[u]
                                    /\ stopped = t \/ (at[t].kind = "mach" /\ t \in gone')
         /\ gone' \in {gone, gone \cup {t}} /\ (at[t].kind # "mach" => gone' = gone)
  <1>. DEFINE stopped == IF at[t].kind = "mach" THEN at[t].of ELSE t
  <1>1. /\ at[t].pc = "finish" /\ at' = [at EXCEPT ![stopped] = Frame("enter", "signal", stopped)]
        /\ gone' = IF at[t].kind = "mach" THEN gone \cup {t} ELSE gone
    BY DEF Finish, At
  <1>2. at \in [Thread -> FrameType] /\ stopped \in Thread
    BY DEF TypeOK, FrameType
  <1>3. stopped = t \/ (at[t].kind = "mach" /\ t \in gone')
    BY <1>1
  <1>. HIDE DEF stopped
  <1>4. /\ Frame("enter", "signal", stopped) \in FrameType /\ Frame("enter", "signal", stopped).pc = "enter"
        /\ Frame("enter", "signal", stopped).kind = "signal"
    BY <1>2, NewFrame DEF Stages, All, AsyncSafe
  <1>5. /\ at' \in [Thread -> FrameType] /\ at'[stopped].pc = "enter" /\ at'[stopped].kind = "signal"
        /\ \A u \in Thread \ {stopped} : at'[u] = at[u]
    BY <1>1, <1>2, <1>4
  <1>. QED BY <1>1, <1>2, <1>3, <1>5

\* Sentries are uninstalled; of the threads for Mach exceptions all but the one
\* that runs end.
LEMMA Uninstalled ==
  ASSUME TypeOK, NEW t \in Thread, NEW types, Uninstall(types, t)
  PROVE  /\ installed' \subseteq All /\ ports' \in {"ours", "theirs"}
         /\ gone \subseteq gone' /\ gone' \subseteq Handlers /\ (t \in gone' => t \in gone)
  BY DEF Uninstall, UninstallMachHandler, TypeOK

-----------------------------------------------------------------------------
\* Only the frame of one thread changes, to a stage of its kind.
LEMMA StageKept ==
  ASSUME StageInv, NEW t \in Thread, at'[t].pc \in StagesOf(at'[t].kind), \A u \in Thread \ {t} : at'[u] = at[u],
         t \in App => at'[t].kind # "mach" \/ at'[t].pc \in {"app", "trapped"}
  PROVE  StageInv'
  <1>1. App \subseteq Thread
    BY DEF Thread
  <1>. QED BY <1>1 DEF StageInv

\* A thread that went to a stage of its kind.
LEMMA WentStage ==
  ASSUME StageInv, NEW t \in Thread, NEW pc, Went(t, pc), pc \in StagesOf(at[t].kind),
         at[t].pc \notin {"app", "trapped"}
  PROVE  StageInv'
  <1>1. at'[t].pc \in StagesOf(at'[t].kind) /\ (t \in App => at'[t].kind # "mach")
    BY DEF Went, StageInv
  <1>. QED BY <1>1, StageKept DEF Went

\* Where a fault takes a thread is a stage of its kind.
LEMMA RaiseStage ==
  ASSUME TypeOK, StageInv, NEW t \in Thread, NEW kind \in All, Raise(t, kind)
  PROVE  StageInv' /\ at' \in [Thread -> FrameType] /\ inbox' \subseteq Thread
  <1>1. at'[t].pc \in StagesOf(at'[t].kind) /\ (at'[t].kind = "mach" => at'[t].pc = "trapped")
    BY RaiseWent, StageSets
  <1>2. StageInv'
    BY <1>1, RaiseWent, StageKept
  <1>. QED BY <1>2, RaiseWent DEF TypeOK

\* The variables that the steps of a handler leave alone, or nearly.
LEMMA TypeKept ==
  ASSUME TypeOK,
         alive' \in {"running", "dead", "killed"}, ports' \in {"ours", "theirs"}, installed' \subseteq All,
         gone' \subseteq Handlers, inbox' \subseteq Thread, context' \in ContextType, threadsRun' \in BOOLEAN,
         suspended' \in [Thread -> Nat], at' \in [Thread -> FrameType],
         reports' \in [{"standard", "minimal"} -> ReportType \cup {Absent}],
         UNCHANGED <<faults, inHandler>>
  PROVE  TypeOK'
  BY DEF TypeOK

\* The context a crash leaves is one.
LEMMA ContextChanged ==
  ASSUME TypeOK
  PROVE  /\ [Cleared EXCEPT !.handling = TRUE] \in ContextType
         /\ [context EXCEPT !.recrash = TRUE] \in ContextType
         /\ \A t \in Thread : [context EXCEPT !.type = at[t].kind, !.thread = at[t].of] \in ContextType
  <1>1. [Cleared EXCEPT !.handling = TRUE] \in ContextType
    BY DEF Cleared, ContextType
  <1>2. [context EXCEPT !.recrash = TRUE] \in ContextType
    BY DEF TypeOK, ContextType
  <1>3. ASSUME NEW t \in Thread
        PROVE  [context EXCEPT !.type = at[t].kind, !.thread = at[t].of] \in ContextType
    BY DEF TypeOK, ContextType, FrameType
  <1>. QED BY <1>1, <1>2, <1>3

\* The first states have their types.
LEMMA TypeInit ==
  ASSUME Init
  PROVE  TypeOK /\ StageInv /\ WriterInv
  <1>1. at \in [Thread -> FrameType] /\ StageInv /\ WriterInv
    <2>1. {"app", "receiving"} \subseteq Stages /\ "mach" \in All
      BY DEF Stages, All, AsyncSafe
    <2>2. ASSUME NEW t \in Thread
          PROVE  /\ at[t] \in FrameType /\ at[t].pc \in StagesOf(at[t].kind)
                 /\ (t \in App => at[t].pc = "app") /\ at[t].pc # "writing"
      <3>. DEFINE pc == IF t \in App THEN "app" ELSE "receiving"
      <3>1. at[t] = Frame(pc, "mach", t) /\ pc \in {"app", "receiving"} /\ (t \in App => pc = "app")
        BY DEF Init
      <3>. HIDE DEF pc
      <3>. QED BY <2>1, <3>1, NewFrame, StageSets
    <2>3. at = [t \in Thread |-> at[t]]
      BY DEF Init
    <2>. QED BY <2>2, <2>3 DEF StageInv, WriterInv, Thread
  <1>2. context \in ContextType
    BY DEF Init, Cleared, ContextType
  <1>3. suspended \in [Thread -> Nat] /\ ports \in {"ours", "theirs"} /\ gone \subseteq Handlers
    BY DEF Init, InstallMachHandler
  <1>4. installed \subseteq All
    BY SentryAssumption DEF Init
  <1>5. faults \in Seq(All) /\ Len(faults) <= MaxFaults
    BY SentryAssumption DEF Init
  <1>. QED BY <1>1, <1>2, <1>3, <1>4, <1>5 DEF TypeOK, Init

\* The report that is closed has been opened.
LEMMA CloseReportType ==
  ASSUME TypeOK, WriterInv, NEW t \in Thread, CloseReport(t)
  PROVE  /\ reports' \in [{"standard", "minimal"} -> ReportType \cup {Absent}]
         /\ \A f \in {"standard", "minimal"} :
              \/ reports'[f] = reports[f]
              \/ /\ reports[f] \in ReportType /\ reports'[f] \in ReportType
                 /\ reports'[f].type = reports[f].type /\ reports'[f].thread = reports[f].thread
                 /\ reports'[f].by = reports[f].by /\ reports'[f].of = reports[f].of
  <1>. DEFINE file == at[t].file
              r == [reports[file] EXCEPT !.complete = TRUE]
  <1>1. reports \in [{"standard", "minimal"} -> ReportType \cup {Absent}] /\ file \in {"standard", "minimal"}
    BY DEF TypeOK, FrameType
  <1>2. reports[file] \in ReportType
    BY DEF WriterInv, CloseReport, At
  <1>3. reports' = [reports EXCEPT ![file] = r]
    BY <1>1 DEF CloseReport
  <1>4. r \in ReportType
    BY <1>2 DEF ReportType
  <1>5. /\ r.type = reports[file].type /\ r.thread = reports[file].thread
        /\ r.by = reports[file].by /\ r.of = reports[file].of
    BY <1>2 DEF ReportType
  <1>. HIDE DEF r, file
  <1>. QED BY <1>1, <1>2, <1>3, <1>4, <1>5

\* A step of a handler keeps the types.
LEMMA TypeStep ==
  ASSUME TypeOK, StageInv, WriterInv, NEW t \in Thread, Step(t)
  PROVE  TypeOK' /\ StageInv'
  <1>1. CASE Receive(t)
    <2>1. at'[t].pc \in StagesOf(at'[t].kind)
      BY <1>1, ReceiveWent, StageSets
    <2>2. StageInv'
      BY <1>1, <2>1, ReceiveWent, StageKept, SentryAssumption
    <2>3. inbox' \subseteq Thread /\ at' \in [Thread -> FrameType]
      BY <1>1, ReceiveWent DEF TypeOK
    <2>. QED BY <1>1, <2>2, <2>3 DEF Receive, TypeOK
  <1>2. CASE Enter(t)
    <2>1. StageInv' /\ at' \in [Thread -> FrameType]
      BY <1>2, EnterWent, WentStage DEF Went
    <2>. QED BY <1>2, <2>1 DEF Enter, TypeOK
  <1>3. CASE Begin(t)
    <2>1. StageInv' /\ at' \in [Thread -> FrameType]
      BY <1>3, StageWent, WentStage DEF Begin, At, Went
    <2>2. context' \in ContextType
      BY <1>3, ContextChanged DEF Begin
    <2>. QED BY <1>3, <2>1, <2>2 DEF Begin, TypeOK
  <1>4. CASE ListThreads(t)
    <2>1. StageInv' /\ at' \in [Thread -> FrameType]
      BY <1>4, ListWent, WentStage DEF Went
    <2>. QED BY <1>4, <2>1 DEF ListThreads, TypeOK
  <1>5. CASE SuspendThread(t)
    <2>1. at[t].kind \in All /\ at[t].pc \in StagesOf(at[t].kind)
      BY DEF TypeOK, FrameType, StageInv
    <2>2. StageInv' /\ at' \in [Thread -> FrameType]
      <3>1. CASE Went(t, "suspending") /\ at[t].pc = "suspending"
        BY <2>1, <3>1, WentStage DEF Went
      <3>2. CASE Went(t, Following(at[t].kind, "suspend")) /\ Following(at[t].kind, "suspend") \in StagesOf(at[t].kind)
        BY <1>5, <3>2, SuspendWent, WentStage DEF Went
      <3>. QED BY <1>5, <3>1, <3>2, SuspendWent
    <2>3. suspended' \in [Thread -> Nat] /\ threadsRun' \in BOOLEAN
      <3>1. suspended \in [Thread -> Nat] /\ threadsRun \in BOOLEAN
        BY DEF TypeOK
      <3>2. ASSUME NEW u \in Thread
            PROVE  [suspended EXCEPT ![u] = @ + 1] \in [Thread -> Nat]
        BY <3>1
      <3>3. at[t].todo \subseteq Thread
        BY DEF TypeOK, FrameType
      <3>. QED BY <1>5, <3>1, <3>2, <3>3 DEF SuspendThread
    <2>. QED BY <1>5, <2>2, <2>3 DEF SuspendThread, TypeOK
  <1>6. CASE SwitchToSecondary(t)
    <2>1. StageInv' /\ at' \in [Thread -> FrameType]
      BY <1>6, StageWent, WentStage DEF SwitchToSecondary, At, Went
    <2>2. suspended' \in [Thread -> Nat] /\ ports' \in {"ours", "theirs"}
      BY <1>6 DEF SwitchToSecondary, TypeOK, Thread, Handlers
    <2>. QED BY <1>6, <2>1, <2>2 DEF SwitchToSecondary, TypeOK
  <1>7. CASE Recrash(t)
    <2>1. StageInv' /\ at' \in [Thread -> FrameType]
      BY <1>7, StageWent, WentStage DEF Recrash, At, Went
    <2>2. /\ context' \in ContextType /\ installed' \subseteq All /\ ports' \in {"ours", "theirs"}
          /\ gone' \subseteq Handlers
      BY <1>7, ContextChanged, Uninstalled DEF Recrash, TypeOK
    <2>. QED BY <1>7, <2>1, <2>2 DEF Recrash, TypeOK
  <1>8. CASE Record(t)
    <2>1. at'[t].pc \in StagesOf(at[t].kind)
      BY <1>8, RecordWent, StageSets
    <2>2. StageInv' /\ at' \in [Thread -> FrameType]
      BY <1>8, <2>1, RecordWent, WentStage DEF Went
    <2>. QED BY <1>8, <2>2 DEF Record, TypeOK
  <1>9. CASE Fill(t)
    <2>1. StageInv' /\ at' \in [Thread -> FrameType]
      BY <1>9, StageWent, WentStage DEF Fill, At, Went
    <2>2. context' \in ContextType
      BY <1>9, ContextChanged DEF Fill
    <2>. QED BY <1>9, <2>1, <2>2 DEF Fill, TypeOK
  <1>10. CASE OnCrash(t)
    <2>1. at[t].kind \in All /\ at[t].pc \in StagesOf(at[t].kind) /\ at[t].of \in Thread
      BY DEF TypeOK, FrameType, StageInv
    <2>2. at'[t].pc \in StagesOf(at[t].kind)
      BY <1>10, <2>1, OnCrashWent, StageSets DEF All, AsyncSafe
    <2>3. StageInv' /\ at' \in [Thread -> FrameType]
      BY <1>10, <2>2, OnCrashWent, WentStage DEF Went
    <2>. DEFINE r == [type |-> context.type, thread |-> context.thread, complete |-> FALSE,
                      by |-> at[t].kind, of |-> at[t].of]
    <2>4. r \in ReportType
      BY <2>1 DEF TypeOK, ContextType, ReportType
    <2>5. reports' = reports \/ \E file \in {"standard", "minimal"} : reports' = [reports EXCEPT ![file] = r]
      BY <1>10, OnCrashWent
    <2>. HIDE DEF r
    <2>6. reports' \in [{"standard", "minimal"} -> ReportType \cup {Absent}]
      BY <2>4, <2>5 DEF TypeOK
    <2>. QED BY <1>10, <2>3, <2>6 DEF OnCrash, TypeOK
  <1>11. CASE CloseReport(t)
    <2>1. at[t].kind \in All /\ at[t].pc \in StagesOf(at[t].kind) /\ at[t].pc = "writing"
      BY <1>11 DEF TypeOK, FrameType, StageInv, CloseReport, At
    <2>2. "written" \in Stages /\ "written" \in StagesOf(at[t].kind)
      BY <2>1, StageSets DEF All, AsyncSafe, Stages
    <2>3. StageInv' /\ at' \in [Thread -> FrameType]
      BY <1>11, <2>1, <2>2, GotoWent, WentStage DEF CloseReport, Went
    <2>4. reports' \in [{"standard", "minimal"} -> ReportType \cup {Absent}]
      BY <1>11, CloseReportType
    <2>. QED BY <1>11, <2>3, <2>4 DEF CloseReport, TypeOK
  <1>12. CASE UninstallHandlers(t)
    <2>1. StageInv' /\ at' \in [Thread -> FrameType]
      BY <1>12, StageWent, WentStage DEF UninstallHandlers, At, Went
    <2>2. installed' \subseteq All /\ ports' \in {"ours", "theirs"} /\ gone' \subseteq Handlers
      BY <1>12, Uninstalled DEF UninstallHandlers, TypeOK
    <2>. QED BY <1>12, <2>1, <2>2 DEF UninstallHandlers, TypeOK
  <1>13. CASE ResumeThreads(t)
    <2>1. StageInv' /\ at' \in [Thread -> FrameType]
      BY <1>13, ResumeListWent, WentStage DEF Went
    <2>. QED BY <1>13, <2>1 DEF ResumeThreads, TypeOK
  <1>17. CASE ResumeThread(t)
    <2>1. at[t].kind \in All /\ at[t].pc \in StagesOf(at[t].kind)
      BY DEF TypeOK, FrameType, StageInv
    <2>2. StageInv' /\ at' \in [Thread -> FrameType]
      <3>1. CASE Went(t, "resuming") /\ at[t].pc = "resuming"
        BY <2>1, <3>1, WentStage DEF Went
      <3>2. CASE Went(t, Following(at[t].kind, "resume")) /\ Following(at[t].kind, "resume") \in StagesOf(at[t].kind)
        BY <1>17, <3>2, ResumeWent, WentStage DEF Went
      <3>. QED BY <1>17, <3>1, <3>2, ResumeWent
    <2>3. suspended' \in [Thread -> Nat] /\ threadsRun' \in BOOLEAN
      <3>1. suspended \in [Thread -> Nat] /\ threadsRun \in BOOLEAN
        BY DEF TypeOK
      <3>2. ASSUME NEW u \in Thread, suspended[u] # 0
            PROVE  [suspended EXCEPT ![u] = @ - 1] \in [Thread -> Nat]
        BY <3>1, <3>2
      <3>3. at[t].todo \subseteq Thread
        BY DEF TypeOK, FrameType
      <3>. QED BY <1>17, <3>1, <3>2, <3>3 DEF ResumeThread
    <2>. QED BY <1>17, <2>2, <2>3 DEF ResumeThread, TypeOK
  <1>14. CASE Recorded(t)
    <2>1. at'[t].pc \in StagesOf(at[t].kind)
      BY <1>14, RecordedWent, StageSets
    <2>2. StageInv' /\ at' \in [Thread -> FrameType]
      BY <1>14, <2>1, RecordedWent, WentStage DEF Went
    <2>3. installed' \subseteq All /\ ports' \in {"ours", "theirs"} /\ gone' \subseteq Handlers
      BY <1>14, Uninstalled DEF Recorded, TypeOK
    <2>. QED BY <1>14, <2>2, <2>3 DEF Recorded, TypeOK
  <1>15. CASE ReraiseSignal(t)
    BY <1>15 DEF ReraiseSignal, TypeOK, StageInv
  <1>16. CASE Finish(t)
    <2>1. PICK stopped \in Thread : /\ at'[stopped].pc = "enter" /\ at'[stopped].kind = "signal"
                                    /\ \A u \in Thread \ {stopped} : at'[u] = at[u]
      BY <1>16, FinishWent
    <2>2. StageInv'
      BY <2>1, StageKept, StageSets
    <2>3. gone' \subseteq Handlers
      <3>1. at[t].pc = "finish" /\ at[t].kind \in All /\ gone \subseteq Handlers
        BY <1>16 DEF Finish, At, TypeOK, FrameType
      <3>2. at[t].kind = "mach" => t \in Handlers
        BY <3>1 DEF StageInv, Thread
      <3>. QED BY <1>16, <3>1, <3>2, FinishWent
    <2>. QED BY <1>16, <2>2, <2>3, FinishWent DEF Finish, TypeOK
  <1>. QED BY <1>1, <1>2, <1>3, <1>4, <1>5, <1>6, <1>7, <1>8, <1>9, <1>10, <1>11, <1>12, <1>13, <1>14, <1>15, <1>16,
           <1>17 DEF Step

\* Whoever does not open a report does not go on to write one.
LEMMA WriterKept ==
  ASSUME TypeOK, WriterInv, NEW t \in Thread, \A u \in Thread \ {t} : at'[u] = at[u], at'[t].pc # "writing",
         \A f \in {"standard", "minimal"} : reports[f] \in ReportType => reports'[f] \in ReportType
  PROVE  WriterInv'
  <1>1. ASSUME NEW u \in Thread, at'[u].pc = "writing"
        PROVE  reports'[at'[u].file] \in ReportType
    <2>1. u # t /\ at'[u] = at[u]
      BY <1>1
    <2>2. at[u].file \in {"standard", "minimal"}
      BY DEF TypeOK, FrameType
    <2>. QED BY <1>1, <2>1, <2>2 DEF WriterInv
  <1>. QED BY <1>1 DEF WriterInv

\* A step of a handler opens the reports it goes on to write.
LEMMA WriterStep ==
  ASSUME TypeOK, StageInv, WriterInv, NEW t \in Thread, Step(t)
  PROVE  WriterInv'
  <1>1. CASE Receive(t)
    BY <1>1, ReceiveWent, WriterKept DEF Receive
  <1>2. CASE Enter(t)
    BY <1>2, EnterWent, WriterKept DEF Enter, Went
  <1>3. CASE Begin(t)
    BY <1>3, StageWent, WriterKept DEF Begin, At, Went
  <1>4. CASE ListThreads(t)
    BY <1>4, ListWent, WriterKept DEF ListThreads, Went
  <1>5. CASE SuspendThread(t)
    BY <1>5, SuspendWent, WriterKept DEF SuspendThread, Went
  <1>6. CASE SwitchToSecondary(t)
    BY <1>6, StageWent, WriterKept DEF SwitchToSecondary, At, Went
  <1>7. CASE Recrash(t)
    BY <1>7, StageWent, WriterKept DEF Recrash, At, Went
  <1>8. CASE Record(t)
    BY <1>8, RecordWent, WriterKept DEF Record, Went
  <1>9. CASE Fill(t)
    BY <1>9, StageWent, WriterKept DEF Fill, At, Went
  <1>10. CASE OnCrash(t)
    <2>. DEFINE r == [type |-> context.type, thread |-> context.thread, complete |-> FALSE,
                      by |-> at[t].kind, of |-> at[t].of]
    <2>1. r \in ReportType
      BY DEF TypeOK, ContextType, ReportType, FrameType
    <2>2. reports \in [{"standard", "minimal"} -> ReportType \cup {Absent}]
      BY DEF TypeOK
    <2>3. \/ UNCHANGED reports /\ at'[t].pc = "written"
          \/ /\ at'[t].file \in {"standard", "minimal"}
             /\ reports' = [reports EXCEPT ![at'[t].file] = r]
      BY <1>10, OnCrashWent
    <2>. HIDE DEF r
    <2>4. CASE UNCHANGED reports /\ at'[t].pc = "written"
      BY <1>10, <2>4, OnCrashWent, WriterKept DEF Went
    <2>5. CASE at'[t].file \in {"standard", "minimal"} /\ reports' = [reports EXCEPT ![at'[t].file] = r]
      <3>1. /\ reports'[at'[t].file] \in ReportType
            /\ \A f \in {"standard", "minimal"} : reports[f] \in ReportType => reports'[f] \in ReportType
        BY <2>1, <2>2, <2>5
      <3>2. ASSUME NEW u \in Thread \ {t}, at'[u].pc = "writing"
            PROVE  reports'[at'[u].file] \in ReportType
        <4>1. at'[u] = at[u]
          BY <1>10, OnCrashWent DEF Went
        <4>2. at[u].file \in {"standard", "minimal"}
          BY DEF TypeOK, FrameType
        <4>. QED BY <3>1, <3>2, <4>1, <4>2 DEF WriterInv
      <3>. QED BY <3>1, <3>2 DEF WriterInv
    <2>. QED BY <2>3, <2>4, <2>5
  <1>11. CASE CloseReport(t)
    <2>1. Went(t, "written")
      BY <1>11, GotoWent DEF CloseReport, Stages
    <2>2. \A f \in {"standard", "minimal"} : reports[f] \in ReportType => reports'[f] \in ReportType
      BY <1>11, CloseReportType
    <2>. QED BY <2>1, <2>2, WriterKept DEF Went
  <1>12. CASE UninstallHandlers(t)
    BY <1>12, StageWent, WriterKept DEF UninstallHandlers, At, Went
  <1>13. CASE ResumeThreads(t)
    BY <1>13, ResumeListWent, WriterKept DEF ResumeThreads, Went
  <1>17. CASE ResumeThread(t)
    BY <1>17, ResumeWent, WriterKept DEF ResumeThread, Went
  <1>14. CASE Recorded(t)
    BY <1>14, RecordedWent, WriterKept DEF Recorded, Went
  <1>15. CASE ReraiseSignal(t)
    BY <1>15 DEF ReraiseSignal, WriterInv
  <1>16. CASE Finish(t)
    BY <1>16, FinishWent, WriterKept DEF Finish
  <1>. QED BY <1>1, <1>2, <1>3, <1>4, <1>5, <1>6, <1>7, <1>8, <1>9, <1>10, <1>11, <1>12, <1>13, <1>14, <1>15, <1>16,
           <1>17 DEF Step

\* The types, with what they rest on.
TypeInv == TypeOK /\ StageInv /\ WriterInv

\* Whatever happens keeps the types.
LEMMA TypeNext ==
  ASSUME TypeInv, [Next]_vars
  PROVE  TypeInv'
  <1>1. TypeOK /\ StageInv /\ WriterInv
    BY DEF TypeInv
  <1>2. ASSUME NEW t \in Thread, NEW kind \in All, Fault(t, kind) \/ HandlerFault(t, kind)
        PROVE  TypeInv'
    <2>1. Raise(t, kind)
      BY <1>2 DEF Fault, HandlerFault
    <2>2. StageInv' /\ at' \in [Thread -> FrameType] /\ inbox' \subseteq Thread
      BY <1>1, <2>1, RaiseStage
    <2>3. WriterInv'
      BY <1>1, <1>2, <2>1, RaiseWent, WriterKept DEF Fault, HandlerFault
    <2>4. faults' \in Seq(All) /\ Len(faults') <= MaxFaults
      <3>1. faults \in Seq(All) /\ Len(faults) <= MaxFaults /\ Len(faults) \in Nat /\ MaxFaults \in Nat
        BY <1>1, SentryAssumption DEF TypeOK
      <3>2. faults' = faults \/ (Len(faults) < MaxFaults /\ faults' = Append(faults, kind))
        BY <1>2 DEF Fault, HandlerFault
      <3>. QED BY <3>1, <3>2
    <2>5. inHandler' \in All \cup {"none"}
      BY <1>1, <1>2 DEF Fault, HandlerFault, TypeOK, FrameType
    <2>. QED BY <1>1, <1>2, <2>2, <2>3, <2>4, <2>5 DEF Fault, HandlerFault, TypeOK, TypeInv
  <1>3. ASSUME NEW t \in Thread, Step(t)
        PROVE  TypeInv'
    BY <1>1, <1>3, TypeStep, WriterStep DEF TypeInv
  <1>4. CASE Kill \/ UNCHANGED vars
    BY <1>1, <1>4 DEF Kill, vars, TypeInv, TypeOK, StageInv, WriterInv
  <1>. QED BY <1>2, <1>3, <1>4 DEF Next, Done, All

\* The behaviours without their fairness.
LEMMA SpecSteps == Spec => Init /\ [][Next]_vars
  BY PTL DEF Spec

\* Every state has its types: a context, a suspend count and a frame for every
\* thread, and what is closed as a report has been opened as one.
THEOREM TypeCorrect == Spec => []TypeOK
  <1>1. Init => TypeInv
    BY TypeInit DEF TypeInv
  <1>2. TypeInv /\ [Next]_vars => TypeInv'
    BY TypeNext
  <1>3. TypeInv => TypeOK
    BY DEF TypeInv
  <1>. QED BY <1>1, <1>2, <1>3, SpecSteps, PTL

-----------------------------------------------------------------------------
(***************************************************************************)
(* The reports, and what a step does to them.                              *)
(***************************************************************************)

\* A frame stays as it is but for the stage.
LEMMA GotoKeeps ==
  ASSUME TypeOK, NEW t \in Thread, NEW pc \in Stages, Goto(t, pc)
  PROVE  /\ at'[t].pc = pc /\ at'[t].was = at[t].was /\ at'[t].recorded = at[t].recorded
         /\ at'[t].inTerminate = at[t].inTerminate /\ at'[t].file = at[t].file
  <1>1. at \in [Thread -> FrameType] /\ at' = [at EXCEPT ![t] = [at[t] EXCEPT !.pc = pc]]
    BY DEF TypeOK, Goto
  <1>. QED BY <1>1 DEF FrameType

\* The file of a report.
FileOf(recrash) == IF recrash THEN "minimal" ELSE "standard"

\* A report is opened, incomplete, or is there already.
LEMMA OnCrashOpens ==
  ASSUME TypeInv, NEW t \in Thread, OnCrash(t), NEW f \in {"standard", "minimal"}
  PROVE  /\ Complete(f)' <=> Complete(f)
         /\ f # FileOf(context.recrash) => reports'[f] = reports[f]
         /\ f = FileOf(context.recrash) =>
              \/ reports[f] # Absent /\ reports'[f] # Absent /\ at'[t].pc = "written"
              \/ reports[f] = Absent /\ reports'[f] # Absent /\ at'[t].pc = "writing" /\ at'[t].file = f
  <1>. DEFINE r == [type |-> context.type, thread |-> context.thread, complete |-> FALSE,
                    by |-> at[t].kind, of |-> at[t].of]
              file == FileOf(context.recrash)
  <1>1. /\ at \in [Thread -> FrameType] /\ at[t] \in FrameType /\ context \in ContextType
        /\ reports \in [{"standard", "minimal"} -> ReportType \cup {Absent}]
    BY DEF TypeInv, TypeOK
  <1>2. r \in ReportType /\ ~r.complete /\ file \in {"standard", "minimal"}
    BY <1>1 DEF ContextType, FrameType, ReportType, FileOf
  <1>3. \/ /\ reports[file] = Absent /\ reports' = [reports EXCEPT ![file] = r]
           /\ at' = [at EXCEPT ![t].pc = "writing", ![t].file = file]
        \/ reports[file] # Absent /\ Goto(t, "written") /\ UNCHANGED reports
    BY DEF OnCrash, FileOf
  <1>. HIDE DEF r, file
  <1>4. ASSUME reports[file] = Absent, reports' = [reports EXCEPT ![file] = r],
               at' = [at EXCEPT ![t].pc = "writing", ![t].file = file]
        PROVE  /\ Complete(f)' <=> Complete(f)
               /\ f # file => reports'[f] = reports[f]
               /\ f = file => reports'[f] # Absent /\ at'[t].pc = "writing" /\ at'[t].file = f
    <2>1. at'[t] = [[at[t] EXCEPT !.pc = "writing"] EXCEPT !.file = file]
      BY <1>1, <1>4
    <2>2. at'[t].pc = "writing" /\ at'[t].file = file
      BY <1>1, <2>1 DEF FrameType
    <2>3. r # Absent
      BY <1>2, AbsentAssumption
    <2>4. f = file => reports'[f] = r
      BY <1>1, <1>2, <1>4
    <2>5. f # file => reports'[f] = reports[f]
      BY <1>1, <1>4
    <2>6. Complete(f)' <=> Complete(f)
      BY <1>2, <1>4, <2>3, <2>4, <2>5 DEF Complete
    <2>. QED BY <2>2, <2>3, <2>4, <2>5, <2>6
  <1>5. ASSUME Goto(t, "written")
        PROVE  at'[t].pc = "written"
    BY <1>1, <1>5, GotoKeeps DEF TypeInv, Stages
  <1>. QED BY <1>3, <1>4, <1>5 DEF file, Complete

\* The report that is written becomes whole.
LEMMA CloseReportCompletes ==
  ASSUME TypeInv, NEW t \in Thread, CloseReport(t), NEW f \in {"standard", "minimal"}
  PROVE  /\ f # at[t].file => reports'[f] = reports[f] /\ (Complete(f)' <=> Complete(f))
         /\ f = at[t].file => reports'[f] # Absent /\ Complete(f)'
         /\ at[t].pc = "writing" /\ at'[t].pc = "written"
  <1>. DEFINE file == at[t].file
              r == [reports[file] EXCEPT !.complete = TRUE]
  <1>1. reports \in [{"standard", "minimal"} -> ReportType \cup {Absent}] /\ file \in {"standard", "minimal"}
    BY DEF TypeInv, TypeOK, FrameType
  <1>2. reports[file] \in ReportType /\ at[t].pc = "writing"
    BY DEF TypeInv, WriterInv, CloseReport, At
  <1>3. reports' = [reports EXCEPT ![file] = r]
    BY <1>1 DEF CloseReport
  <1>4. r \in ReportType /\ r.complete
    BY <1>2 DEF ReportType
  <1>5. at'[t].pc = "written"
    BY GotoKeeps DEF CloseReport, TypeInv, Stages
  <1>. HIDE DEF r, file
  <1>6. r # Absent
    BY <1>4, AbsentAssumption
  <1>7. f = file => reports'[f] = r
    BY <1>1, <1>3
  <1>8. f # file => reports'[f] = reports[f]
    BY <1>1, <1>3
  <1>. QED BY <1>2, <1>4, <1>5, <1>6, <1>7, <1>8 DEF file, Complete

\* No other step changes the reports, and none makes one less whole.
LEMMA ReportsKept ==
  ASSUME TypeInv, NEW t \in Thread, Step(t)
  PROVE  /\ ~OnCrash(t) /\ ~CloseReport(t) => UNCHANGED reports
         /\ ~OnCrash(t) => \A f \in {"standard", "minimal"} : reports'[f] # Absent => reports[f] # Absent
         /\ \A f \in {"standard", "minimal"} : Complete(f) => Complete(f)'
  <1>1. ~OnCrash(t) /\ ~CloseReport(t) => UNCHANGED reports
    BY DEF Step, Receive, Enter, Begin, ListThreads, SuspendThread, SwitchToSecondary, Recrash, Record, Fill,
           UninstallHandlers, ResumeThreads, ResumeThread, Recorded, ReraiseSignal, Finish
  <1>2. ASSUME CloseReport(t), NEW f \in {"standard", "minimal"}
        PROVE  (reports'[f] # Absent => reports[f] # Absent) /\ (Complete(f) => Complete(f)')
    <2>1. f = at[t].file => reports[f] # Absent
      BY <1>2, AbsentAssumption DEF TypeInv, WriterInv, CloseReport, At
    <2>. QED BY <1>2, <2>1, CloseReportCompletes
  <1>3. ASSUME OnCrash(t), NEW f \in {"standard", "minimal"}
        PROVE  Complete(f) => Complete(f)'
    BY <1>3, OnCrashOpens
  <1>4. ASSUME UNCHANGED reports, NEW f \in {"standard", "minimal"}
        PROVE  (reports'[f] # Absent => reports[f] # Absent) /\ (Complete(f) => Complete(f)')
    BY <1>4 DEF Complete
  <1>. QED BY <1>1, <1>2, <1>3, <1>4

\* Steps make no faults.
LEMMA StepFaults ==
  ASSUME NEW t \in Thread, Step(t)
  PROVE  faults' = faults /\ inHandler' = inHandler /\ Runs(t)
  BY DEF Step, Receive, Enter, Begin, ListThreads, SuspendThread, SwitchToSecondary, Recrash, Record, Fill,
         OnCrash, CloseReport, UninstallHandlers, ResumeThreads, ResumeThread, Recorded, ReraiseSignal, Finish, At

-----------------------------------------------------------------------------
(***************************************************************************)
(* Whoever handles a crash is alone.                                       *)
(*                                                                         *)
(* Without an NSException, every handler suspends the other threads, all   *)
(* of them, before it fills the context.  Any number of handlers may be at *)
(* that: one goes on when those that have suspended it have all been       *)
(* suspended themselves.  So a thread counts as held by each thread that   *)
(* has suspended it, and its suspend count is no less than the number of   *)
(* those that hold it.  This lasts until the first report is whole: then   *)
(* its writer resumes the others one by one, before the flag says so, and  *)
(* the threads that are resumed suspend nobody any more.                   *)
(***************************************************************************)

\* Only other kinds of crashes so far.
NoException == \A i \in DOMAIN faults : faults[i] # "nsexception"

SomeReport == Complete("standard") \/ Complete("minimal")

\* Until the first report is whole, or its writer crashes.
Early == NoException /\ inHandler = "none" /\ ~SomeReport

KindInv == \A t \in Thread : at[t].kind # "nsexception"

\* From here to the end of its report a thread has suspended all others.
Alone(t) ==
  \/ at[t].pc \in {"secondary", "fill", "report", "writing"}
  \/ at[t].pc = "recrash" /\ at[t].kind # "cpp"

\* The one thread that runs while the flag says that the threads do not.
Owner(t) == ~threadsRun /\ suspended[t] = 0

\* t has suspended u.
Holds(t, u) ==
  /\ t # u /\ t \notin gone
  /\ Owner(t) \/ (at[t].pc = "suspending" /\ u \notin at[t].todo)

Holders(u) == {t \in Thread : Holds(t, u)}

\* The stages of the primary thread until it has resumed the secondary one.
Preparing == {"receiving", "enter", "begin", "suspend", "suspending", "secondary"}

\* The secondary thread has suspended itself, and nobody has resumed it yet.
SelfSuspended(u) ==
  IF u = "secondary" /\ "primary" \notin gone /\ at["primary"].kind = "mach" /\ at["primary"].pc \in Preparing
  THEN 1 ELSE 0

\* No thread runs that somebody holds, however many do.
CountInv == \A u \in Thread \ gone : suspended[u] >= Cardinality(Holders(u)) + SelfSuspended(u)

\* While the flag says that the threads do not run, somebody does, who is alone.
AloneInv ==
  /\ \A t \in Thread \ gone : Alone(t) <=> Owner(t)
  /\ ~threadsRun => \E t \in Thread \ gone : Owner(t)

\* Whoever has begun to handle a crash has cleared the reserved threads.
ReservedInv ==
  (\E t \in Thread : at[t].pc \in {"recrash", "suspend", "suspending"} \/ Alone(t)) => context.reserved = {}

\* Nobody suspends itself.
TodoInv == \A t \in Thread : at[t].pc = "suspending" => t \notin at[t].todo

\* Nobody has written a report, and who has opened one writes it.
OpenInv ==
  /\ \A t \in Thread : at[t].pc \notin {"written", "resume", "resuming"}
  /\ \A f \in {"standard", "minimal"} :
       reports[f] # Absent => \E t \in Thread \ gone : at[t].pc = "writing" /\ at[t].file = f

Exclusion == KindInv /\ CountInv /\ AloneInv /\ ReservedInv /\ TodoInv /\ OpenInv

\* The threads, and so those that hold one, are finitely many.
LEMMA HoldersFinite ==
  ASSUME NEW u
  PROVE  /\ IsFiniteSet(Holders(u)) /\ Cardinality(Holders(u)) \in Nat
         /\ (\E t \in Thread : Holds(t, u)) => Cardinality(Holders(u)) > 0
  <1>1. IsFiniteSet(Handlers)
    <2>1. IsFiniteSet({"primary"})
      BY FS_Singleton
    <2>2. Handlers = {"primary"} \cup {"secondary"}
      BY DEF Handlers
    <2>. QED BY <2>1, <2>2, FS_AddElement
  <1>2. IsFiniteSet(Thread)
    BY <1>1, SentryAssumption, FS_Union DEF Thread
  <1>3. Holders(u) \subseteq Thread
    BY DEF Holders
  <1>4. IsFiniteSet(Holders(u)) /\ Cardinality(Holders(u)) \in Nat
    BY <1>2, <1>3, FS_Subset, FS_CardinalityType
  <1>5. ASSUME NEW t \in Thread, Holds(t, u)
        PROVE  Cardinality(Holders(u)) > 0
    <2>1. Holders(u) # {}
      BY <1>5 DEF Holders
    <2>. QED BY <1>4, <2>1, FS_EmptySet
  <1>. QED BY <1>4, <1>5

\* No more than once.
LEMMA SelfSuspendedType ==
  ASSUME NEW u
  PROVE  SelfSuspended(u) \in {0, 1} /\ SelfSuspended(u)' \in {0, 1}
  BY DEF SelfSuspended

\* A thread that is held does not run.
LEMMA HeldSuspended ==
  ASSUME TypeOK, CountInv, NEW t \in Thread, NEW u \in Thread \ gone, Holds(t, u)
  PROVE  suspended[u] > SelfSuspended(u) /\ SelfSuspended(u) \in {0, 1}
  <1>1. Cardinality(Holders(u)) > 0 /\ Cardinality(Holders(u)) \in Nat
    BY HoldersFinite
  <1>2. suspended[u] >= Cardinality(Holders(u)) + SelfSuspended(u) /\ suspended[u] \in Nat
    BY DEF CountInv, TypeOK
  <1>3. SelfSuspended(u) \in {0, 1}
    BY SelfSuspendedType
  <1>. QED BY <1>1, <1>2, <1>3

\* While the flag says that the threads do not run, only one does.
LEMMA Excludes ==
  ASSUME TypeOK, CountInv, NEW t \in Thread \ gone, Owner(t), NEW u \in Thread \ gone, u # t
  PROVE  suspended[u] > 0 /\ ~Owner(u)
  <1>1. Holds(t, u)
    BY DEF Holds
  <1>2. suspended[u] > SelfSuspended(u) /\ SelfSuspended(u) \in {0, 1} /\ suspended[u] \in Nat
    BY <1>1, HeldSuspended DEF TypeOK
  <1>. QED BY <1>2 DEF Owner

\* A thread held by fewer is suspended often enough still.
LEMMA CountKept ==
  ASSUME TypeOK, TypeOK', CountInv, gone \subseteq gone',
         \A u \in Thread \ gone' : /\ Holders(u)' \subseteq Holders(u) /\ suspended'[u] >= suspended[u]
                                   /\ SelfSuspended(u)' <= SelfSuspended(u)
  PROVE  CountInv'
  <1>1. ASSUME NEW u \in Thread \ gone'
        PROVE  suspended'[u] >= Cardinality(Holders(u)') + SelfSuspended(u)'
    <2>1. /\ IsFiniteSet(Holders(u)) /\ Cardinality(Holders(u)) \in Nat
          /\ Holders(u)' \subseteq Holders(u)
      BY <1>1, HoldersFinite
    <2>2. Cardinality(Holders(u)') <= Cardinality(Holders(u)) /\ Cardinality(Holders(u)') \in Nat
      BY <2>1, FS_Subset, FS_CardinalityType
    <2>3. suspended[u] >= Cardinality(Holders(u)) + SelfSuspended(u)
      BY <1>1 DEF CountInv
    <2>4. suspended[u] \in Nat /\ suspended'[u] \in Nat /\ suspended'[u] >= suspended[u]
      BY <1>1 DEF TypeOK
    <2>5. SelfSuspended(u) \in {0, 1} /\ SelfSuspended(u)' \in {0, 1} /\ SelfSuspended(u)' <= SelfSuspended(u)
      BY <1>1, SelfSuspendedType
    <2>. QED BY <2>1, <2>2, <2>3, <2>4, <2>5
  <1>. QED BY <1>1 DEF CountInv

\* The steps that only move one thread, which runs: it goes to a stage that
\* says rightly whether it is alone.
LEMMA Moves ==
  ASSUME TypeOK, TypeOK', CountInv, AloneInv, ReservedInv, TodoInv,
         NEW t \in Thread, t \notin gone', suspended[t] = 0, gone \subseteq gone',
         UNCHANGED <<threadsRun, suspended>>, \A u \in Thread \ {t} : at'[u] = at[u],
         at'[t].pc = "suspending" => at'[t].todo = Thread \ (gone \cup {t}),
         context'.reserved = context.reserved \/ context'.reserved = {},
         Alone(t)' <=> ~threadsRun,
         at'[t].pc \in {"recrash", "suspend", "suspending"} \/ Alone(t)' => context'.reserved = {},
         t = "primary" /\ at'[t].kind = "mach" /\ at'[t].pc \in Preparing =>
           at[t].kind = "mach" /\ at[t].pc \in Preparing
  PROVE  CountInv' /\ AloneInv' /\ ReservedInv' /\ TodoInv'
  <1>1. ASSUME NEW u \in Thread
        PROVE  (Owner(u)' <=> Owner(u)) /\ (u # t => (Alone(u)' <=> Alone(u)))
    BY DEF Owner, Alone
  <1>2. CountInv'
    <2>1. ASSUME NEW u \in Thread \ gone', NEW s \in Thread, Holds(s, u)'
          PROVE  Holds(s, u)
      <3>1. CASE s = t /\ at'[t].pc = "suspending" /\ u \notin at'[t].todo
        BY <2>1, <3>1 DEF Holds
      <3>2. CASE Owner(s)'
        BY <1>1, <2>1, <3>2 DEF Holds
      <3>3. CASE s # t /\ at'[s].pc = "suspending" /\ u \notin at'[s].todo
        BY <2>1, <3>3 DEF Holds
      <3>. QED BY <2>1, <3>1, <3>2, <3>3 DEF Holds
    <2>2. \A u \in Thread \ gone' : Holders(u)' \subseteq Holders(u)
      BY <2>1 DEF Holders
    <2>3. ASSUME NEW u \in Thread \ gone'
          PROVE  SelfSuspended(u)' <= SelfSuspended(u)
      <3>1. "primary" \in Thread
        BY DEF Thread, Handlers
      <3>2. /\ "primary" \notin gone' => "primary" \notin gone
            /\ at'["primary"].kind = "mach" /\ at'["primary"].pc \in Preparing =>
                 at["primary"].kind = "mach" /\ at["primary"].pc \in Preparing
        BY <3>1
      <3>. QED BY <3>2 DEF SelfSuspended
    <2>4. \A u \in Thread \ gone' : suspended'[u] >= suspended[u]
      BY DEF TypeOK
    <2>. QED BY <2>2, <2>3, <2>4, CountKept
  <1>3. AloneInv'
    <2>1. \A u \in Thread \ gone' : Alone(u)' <=> Owner(u)'
      BY <1>1 DEF AloneInv, Owner
    <2>2. ~threadsRun' => t \in Thread \ gone' /\ Owner(t)'
      BY DEF Owner
    <2>. QED BY <2>1, <2>2 DEF AloneInv
  <1>4. ReservedInv'
    BY <1>1 DEF ReservedInv
  <1>5. TodoInv'
    BY DEF TodoInv
  <1>. QED BY <1>2, <1>3, <1>4, <1>5

\* What a thread that runs is at, by whether the flag says that the others do.
LEMMA RunsAlone ==
  ASSUME AloneInv, NEW t \in Thread, Runs(t)
  PROVE  /\ t \notin gone /\ suspended[t] = 0
         /\ Alone(t) <=> ~threadsRun
  BY DEF AloneInv, Runs, Owner

\* A thread of the application that runs is not in a handler.
LEMMA FaultExcludes ==
  ASSUME TypeInv, TypeInv', Exclusion, NEW t \in Thread, NEW kind \in All, kind # "nsexception", Fault(t, kind)
  PROVE  CountInv' /\ AloneInv' /\ ReservedInv' /\ TodoInv'
  <1>1. TypeOK /\ TypeOK' /\ CountInv /\ AloneInv /\ ReservedInv /\ TodoInv
    BY DEF TypeInv, Exclusion
  <1>2. /\ Runs(t) /\ UNCHANGED <<gone, threadsRun, suspended, context>>
        /\ Raise(t, kind) /\ at[t].pc = "app" /\ t \in App
    BY DEF Fault, At
  <1>3. /\ \A u \in Thread \ {t} : at'[u] = at[u]
        /\ at'[t].pc \in {"trapped", "enter"}
    BY <1>1, <1>2, RaiseWent
  <1>4. ~Alone(t)' /\ ~Alone(t)
    BY <1>2, <1>3 DEF Alone
  <1>5. t \notin gone /\ suspended[t] = 0 /\ threadsRun
    BY <1>1, <1>2, <1>4, RunsAlone
  <1>6. t # "primary"
    BY <1>2, SentryAssumption DEF Handlers
  <1>. QED BY <1>1, <1>2, <1>3, <1>4, <1>5, <1>6, Moves

\* The kinds that are left, and the stages in which only some of them are.
LEMMA KindsLeft ==
  ASSUME TypeOK, StageInv, KindInv, NEW t \in Thread
  PROVE  /\ at[t].kind \in {"mach", "signal", "cpp"}
         /\ at[t].pc = "receiving" => at[t].kind = "mach"
         /\ at[t].pc = "secondary" => at[t].kind = "mach"
  <1>1. at[t].kind \in {"mach", "signal", "cpp"}
    BY DEF TypeOK, FrameType, KindInv, All, AsyncSafe
  <1>2. at[t].pc \in StagesOf(at[t].kind)
    BY DEF StageInv
  <1>. QED BY <1>1, <1>2, StageSets

\* Before the threads are suspended.
LEMMA ReceiveExcludes ==
  ASSUME TypeInv, TypeInv', Exclusion, NEW t \in Thread, Receive(t)
  PROVE  CountInv' /\ AloneInv' /\ ReservedInv' /\ TodoInv'
  <1>1. TypeOK /\ TypeOK' /\ StageInv /\ KindInv /\ CountInv /\ AloneInv /\ ReservedInv /\ TodoInv
    BY DEF TypeInv, Exclusion
  <1>2. Runs(t) /\ UNCHANGED <<gone, threadsRun, suspended, context>>
    BY DEF Receive, At
  <1>3. /\ at[t].pc = "receiving" /\ at[t].kind = "mach" /\ at'[t].pc = "enter"
        /\ \A u \in Thread \ {t} : at'[u] = at[u]
    BY <1>1, ReceiveWent, KindsLeft
  <1>4. ~Alone(t)' /\ ~Alone(t)
    BY <1>3 DEF Alone
  <1>5. t \notin gone /\ suspended[t] = 0 /\ threadsRun
    BY <1>1, <1>2, <1>4, RunsAlone
  <1>. QED BY <1>1, <1>2, <1>3, <1>4, <1>5, Moves DEF Preparing

\* A handler is entered.
LEMMA EnterExcludes ==
  ASSUME TypeInv, TypeInv', Exclusion, NEW t \in Thread, Enter(t)
  PROVE  CountInv' /\ AloneInv' /\ ReservedInv' /\ TodoInv'
  <1>1. TypeOK /\ TypeOK' /\ StageInv /\ KindInv /\ CountInv /\ AloneInv /\ ReservedInv /\ TodoInv
    BY DEF TypeInv, Exclusion
  <1>2. Runs(t) /\ UNCHANGED <<gone, threadsRun, suspended, context>>
    BY DEF Enter, At
  <1>3. /\ at[t].pc = "enter" /\ at'[t].kind = at[t].kind
        /\ \/ at'[t].pc = "begin"
           \/ at'[t].pc = "reraise" /\ at[t].kind = "signal"
           \/ at'[t].pc = "finish" /\ at[t].kind # "signal"
        /\ \A u \in Thread \ {t} : at'[u] = at[u]
    BY <1>1, EnterWent DEF Went
  <1>4. ~Alone(t)' /\ ~Alone(t)
    BY <1>3 DEF Alone
  <1>5. t \notin gone /\ suspended[t] = 0 /\ threadsRun
    BY <1>1, <1>2, <1>4, RunsAlone
  <1>. QED BY <1>1, <1>2, <1>3, <1>4, <1>5, Moves DEF Preparing

\* No thread is reserved once a handler has begun.
LEMMA BeginExcludes ==
  ASSUME TypeInv, TypeInv', Exclusion, NEW t \in Thread, Begin(t)
  PROVE  CountInv' /\ AloneInv' /\ ReservedInv' /\ TodoInv'
  <1>1. TypeOK /\ TypeOK' /\ StageInv /\ KindInv /\ CountInv /\ AloneInv /\ ReservedInv /\ TodoInv
    BY DEF TypeInv, Exclusion
  <1>2. Runs(t) /\ UNCHANGED <<gone, threadsRun, suspended>> /\ context'.reserved = {}
    BY DEF Begin, At, Cleared
  <1>3. /\ at[t].pc = "begin" /\ at'[t].kind = at[t].kind
        /\ at'[t].pc = Following(at[t].kind, "begin")
        /\ \A u \in Thread \ {t} : at'[u] = at[u]
    BY <1>1, StageWent DEF Went, Begin, At
  <1>4. /\ at[t].kind = "cpp" => at'[t].pc = "recrash"
        /\ at[t].kind # "cpp" => at'[t].pc = "suspend"
    BY <1>1, <1>3, KindsLeft, FollowingTable
  <1>5. ~Alone(t)' /\ ~Alone(t)
    BY <1>3, <1>4 DEF Alone
  <1>6. t \notin gone /\ suspended[t] = 0 /\ threadsRun
    BY <1>1, <1>2, <1>5, RunsAlone
  <1>7. at'[t].pc # "suspending" /\ ("mach" = at'[t].kind => at[t].kind = "mach" /\ at[t].pc \in Preparing)
    BY <1>3, <1>4 DEF Preparing
  <1>. QED BY <1>1, <1>2, <1>3, <1>5, <1>6, <1>7, Moves

\* All threads are listed.
LEMMA ListExcludes ==
  ASSUME TypeInv, TypeInv', Exclusion, NEW t \in Thread, ListThreads(t)
  PROVE  CountInv' /\ AloneInv' /\ ReservedInv' /\ TodoInv'
  <1>1. TypeOK /\ TypeOK' /\ StageInv /\ KindInv /\ CountInv /\ AloneInv /\ ReservedInv /\ TodoInv
    BY DEF TypeInv, Exclusion
  <1>2. Runs(t) /\ UNCHANGED <<gone, threadsRun, suspended, context>>
    BY DEF ListThreads, At
  <1>3. /\ at[t].pc = "suspend" /\ at'[t].kind = at[t].kind
        /\ at'[t].pc = IF threadsRun THEN "suspending" ELSE Following(at[t].kind, "suspend")
        /\ at'[t].todo = Thread \ (gone \cup {t})
        /\ \A u \in Thread \ {t} : at'[u] = at[u]
    BY <1>1, ListWent DEF Went
  <1>4. ~Alone(t)
    BY <1>3 DEF Alone
  <1>5. t \notin gone /\ suspended[t] = 0 /\ threadsRun
    BY <1>1, <1>2, <1>4, RunsAlone
  <1>6. at'[t].pc = "suspending" /\ ~Alone(t)' /\ context.reserved = {}
    BY <1>1, <1>3, <1>5 DEF Alone, ReservedInv
  <1>. QED BY <1>1, <1>2, <1>3, <1>5, <1>6, Moves DEF Preparing

\* While a thread is alone: stages that follow each other.
LEMMA StageExcludes ==
  ASSUME TypeInv, TypeInv', Exclusion, NEW t \in Thread, Runs(t), t \notin gone', gone \subseteq gone',
         UNCHANGED <<threadsRun, suspended>>, context'.reserved = context.reserved,
         at'[t].kind = at[t].kind, \A u \in Thread \ {t} : at'[u] = at[u],
         \/ at[t].pc \in {"secondary", "recrash", "fill"} /\ at'[t].pc = Following(at[t].kind, at[t].pc)
         \/ at[t].pc = "report" /\ at'[t].pc = "writing"
  PROVE  CountInv' /\ AloneInv' /\ ReservedInv' /\ TodoInv'
  <1>1. TypeOK /\ TypeOK' /\ StageInv /\ KindInv /\ CountInv /\ AloneInv /\ ReservedInv /\ TodoInv
    BY DEF TypeInv, Exclusion
  <1>2. t \notin gone /\ suspended[t] = 0 /\ (Alone(t) <=> ~threadsRun)
    BY <1>1, RunsAlone
  <1>3. \/ at'[t].pc \in {"fill", "report", "writing"} /\ Alone(t)
        \/ at'[t].pc = "recrash" /\ at[t].kind = "mach" /\ Alone(t)
        \/ at'[t].pc = "suspend" /\ at[t].kind = "cpp" /\ at[t].pc = "recrash"
    <2>1. CASE at[t].pc = "report"
      BY <2>1 DEF Alone
    <2>2. CASE at[t].pc = "secondary"
      BY <1>1, <2>2, KindsLeft, FollowingTable DEF Alone
    <2>3. CASE at[t].pc = "recrash"
      BY <1>1, <2>3, KindsLeft, FollowingTable DEF Alone
    <2>4. CASE at[t].pc = "fill"
      BY <1>1, <2>4, KindsLeft, FollowingTable DEF Alone
    <2>. QED BY <2>1, <2>2, <2>3, <2>4
  <1>4. Alone(t)' <=> ~threadsRun
    <2>1. CASE Alone(t)
      BY <1>2, <1>3, <2>1 DEF Alone
    <2>2. CASE at'[t].pc = "suspend" /\ at[t].kind = "cpp" /\ at[t].pc = "recrash"
      BY <1>2, <2>2 DEF Alone
    <2>. QED BY <1>3, <2>1, <2>2
  <1>5. context'.reserved = {}
    BY <1>1, <1>3 DEF ReservedInv
  <1>6. at'[t].pc # "suspending" /\ ("mach" = at'[t].kind => at'[t].pc \notin Preparing)
    BY <1>3 DEF Preparing
  <1>. QED BY <1>1, <1>2, <1>4, <1>5, <1>6, Moves

\* One thread more is held, and suspended once more; the last one to be
\* suspended leaves none but t that runs.
LEMMA SuspendExcludes ==
  ASSUME TypeInv, TypeInv', Exclusion, NEW t \in Thread, SuspendThread(t)
  PROVE  CountInv' /\ AloneInv' /\ ReservedInv' /\ TodoInv'
  <1>1. TypeOK /\ TypeOK' /\ StageInv /\ KindInv /\ CountInv /\ AloneInv /\ ReservedInv /\ TodoInv
    BY DEF TypeInv, Exclusion
  <1>2. Runs(t) /\ UNCHANGED <<gone, context>> /\ at[t].pc = "suspending"
    BY DEF SuspendThread, At
  <1>3. t \notin gone /\ suspended[t] = 0 /\ threadsRun
    <2>1. ~Alone(t)
      BY <1>2 DEF Alone
    <2>. QED BY <1>1, <1>2, <2>1, RunsAlone
  <1>4. \A u \in Thread \ gone : ~Owner(u) /\ ~Alone(u)
    BY <1>1, <1>3 DEF AloneInv, Owner
  <1>5. context.reserved = {}
    BY <1>1, <1>2 DEF ReservedInv
  <1>6. CASE /\ Went(t, "suspending") /\ UNCHANGED threadsRun
             /\ \E u \in at[t].todo : /\ at'[t].todo = at[t].todo \ {u}
                                      /\ suspended' = IF u \in gone THEN suspended
                                                      ELSE [suspended EXCEPT ![u] = @ + 1]
    <2>1. PICK u \in at[t].todo : /\ at'[t].todo = at[t].todo \ {u}
                                  /\ suspended' = IF u \in gone THEN suspended
                                                  ELSE [suspended EXCEPT ![u] = @ + 1]
      BY <1>6
    <2>2. u \in Thread /\ u # t /\ at'[t].pc = "suspending" /\ at'[t].kind = at[t].kind
          /\ (\A s \in Thread \ {t} : at'[s] = at[s])
      BY <1>1, <1>2, <1>6 DEF TypeOK, FrameType, TodoInv, Went
    <2>3. \A s \in Thread : (Alone(s)' <=> Alone(s)) /\ at'[s].pc = at[s].pc /\ at'[s].kind = at[s].kind
      BY <1>2, <2>2 DEF Alone
    <2>4. ASSUME NEW w \in Thread \ gone
          PROVE  suspended'[w] >= Cardinality(Holders(w)') + SelfSuspended(w)'
      <3>1. SelfSuspended(w)' = SelfSuspended(w) /\ SelfSuspended(w) \in {0, 1}
        <4>1. "primary" \in Thread
          BY DEF Thread, Handlers
        <4>. QED BY <1>2, <2>3, <4>1 DEF SelfSuspended
      <3>2. ASSUME NEW s \in Thread, Holds(s, w)'
            PROVE  Holds(s, w) \/ (s = t /\ w = u)
        <4>1. s # w /\ s \notin gone /\ threadsRun' /\ at'[s].pc = "suspending" /\ w \notin at'[s].todo
          BY <1>2, <1>3, <1>6, <3>2 DEF Holds, Owner
        <4>. QED BY <1>2, <2>1, <2>2, <4>1 DEF Holds
      <3>3. /\ IsFiniteSet(Holders(w)) /\ Cardinality(Holders(w)) \in Nat
            /\ suspended[w] >= Cardinality(Holders(w)) + SelfSuspended(w)
            /\ suspended \in [Thread -> Nat] /\ suspended[w] \in Nat
        BY <1>1, HoldersFinite DEF CountInv, TypeOK
      <3>4. CASE w # u
        <4>1. Holders(w)' \subseteq Holders(w)
          BY <3>2, <3>4 DEF Holders
        <4>2. Cardinality(Holders(w)') <= Cardinality(Holders(w)) /\ Cardinality(Holders(w)') \in Nat
          BY <3>3, <4>1, FS_Subset, FS_CardinalityType
        <4>3. suspended'[w] = suspended[w]
          BY <2>1, <3>3, <3>4
        <4>. QED BY <3>1, <3>3, <4>2, <4>3
      <3>5. CASE w = u
        <4>1. Holders(w)' \subseteq Holders(w) \cup {t}
          BY <3>2 DEF Holders
        <4>2. /\ IsFiniteSet(Holders(w) \cup {t})
              /\ Cardinality(Holders(w) \cup {t}) <= Cardinality(Holders(w)) + 1
              /\ Cardinality(Holders(w) \cup {t}) \in Nat
          <5>. DEFINE H == Holders(w)
          <5>1. IsFiniteSet(H) /\ Cardinality(H) \in Nat
            BY <3>3
          <5>. HIDE DEF H
          <5>2. /\ IsFiniteSet(H \cup {t})
                /\ Cardinality(H \cup {t}) = IF t \in H THEN Cardinality(H) ELSE Cardinality(H) + 1
            BY <5>1, FS_AddElement
          <5>3. Cardinality(H \cup {t}) <= Cardinality(H) + 1 /\ Cardinality(H \cup {t}) \in Nat
            BY <5>1, <5>2
          <5>. QED BY <5>2, <5>3 DEF H
        <4>3. Cardinality(Holders(w)') <= Cardinality(Holders(w) \cup {t}) /\ Cardinality(Holders(w)') \in Nat
          BY <4>1, <4>2, FS_Subset, FS_CardinalityType
        <4>4. suspended'[w] = suspended[w] + 1
          BY <2>1, <2>2, <3>3, <3>5
        <4>. QED BY <3>1, <3>3, <4>2, <4>3, <4>4
      <3>. QED BY <3>4, <3>5
    <2>5. CountInv'
      BY <1>2, <2>4 DEF CountInv
    <2>6. AloneInv'
      BY <1>2, <1>3, <1>4, <1>6, <2>3 DEF AloneInv, Owner
    <2>7. ReservedInv'
      BY <1>2, <1>5 DEF ReservedInv
    <2>8. TodoInv'
      BY <1>1, <1>2, <2>1, <2>2 DEF TodoInv
    <2>. QED BY <2>5, <2>6, <2>7, <2>8
  <1>7. CASE /\ Went(t, Following(at[t].kind, "suspend"))
             /\ at[t].todo = {} /\ threadsRun' = FALSE /\ UNCHANGED suspended
    <2>1. /\ at'[t].kind = at[t].kind /\ at'[t].pc = Following(at[t].kind, "suspend")
          /\ \A s \in Thread \ {t} : at'[s] = at[s]
      BY <1>7 DEF Went
    <2>2. Alone(t)' /\ at'[t].pc # "suspending"
      <3>1. \/ at[t].kind = "mach" /\ at'[t].pc = "secondary"
            \/ at[t].kind = "signal" /\ at'[t].pc = "recrash"
            \/ at[t].kind = "cpp" /\ at'[t].pc = "fill"
        BY <1>1, <2>1, KindsLeft, FollowingTable
      <3>. QED BY <2>1, <3>1 DEF Alone
    <2>3. \A w \in Thread \ gone : w # t => Holds(t, w) /\ suspended[w] > 0
      <3>1. \A w \in Thread \ gone : w # t => Holds(t, w)
        BY <1>2, <1>3, <1>7 DEF Holds
      <3>2. ASSUME NEW w \in Thread \ gone, Holds(t, w)
            PROVE  suspended[w] > 0
        <4>1. suspended[w] > SelfSuspended(w) /\ SelfSuspended(w) \in {0, 1} /\ suspended[w] \in Nat
          BY <1>1, <3>2, HeldSuspended DEF TypeOK
        <4>. QED BY <4>1
      <3>. QED BY <3>1, <3>2
    <2>4. \A w \in Thread \ gone : Owner(w)' <=> w = t
      BY <1>3, <1>7, <2>3 DEF Owner
    <2>5. CountInv'
      <3>1. ASSUME NEW w \in Thread \ gone', NEW s \in Thread, Holds(s, w)'
            PROVE  Holds(s, w)
        <4>1. CASE s = t
          BY <1>2, <2>3, <3>1, <4>1 DEF Holds
        <4>2. CASE s # t
          BY <1>2, <2>1, <2>4, <3>1, <4>2 DEF Holds
        <4>. QED BY <4>1, <4>2
      <3>2. \A w \in Thread \ gone' : Holders(w)' \subseteq Holders(w)
        BY <3>1 DEF Holders
      <3>3. ASSUME NEW w
            PROVE  SelfSuspended(w)' <= SelfSuspended(w)
        <4>1. "primary" \in Thread
          BY DEF Thread, Handlers
        <4>. QED BY <1>2, <2>1, <4>1 DEF SelfSuspended, Preparing
      <3>4. \A w \in Thread \ gone' : suspended'[w] >= suspended[w]
        BY <1>1, <1>7 DEF TypeOK
      <3>. QED BY <1>1, <1>2, <3>2, <3>3, <3>4, CountKept
    <2>6. AloneInv'
      <3>1. \A s \in Thread \ gone' : Alone(s)' => s = t
        BY <1>2, <1>4, <2>1 DEF Alone
      <3>. QED BY <1>2, <1>3, <2>2, <2>4, <3>1 DEF AloneInv
    <2>7. ReservedInv'
      BY <1>2, <1>5 DEF ReservedInv
    <2>8. TodoInv'
      BY <1>1, <2>1, <2>2 DEF TodoInv
    <2>. QED BY <2>5, <2>6, <2>7, <2>8
  <1>. QED BY <1>1, <1>5, <1>6, <1>7, SuspendWent

\* The primary thread resumes the secondary one, which has suspended itself
\* and is held by the primary thread: it does not run yet.
LEMMA SwitchExcludes ==
  ASSUME TypeInv, TypeInv', Exclusion, NEW t \in Thread, SwitchToSecondary(t)
  PROVE  CountInv' /\ AloneInv' /\ ReservedInv' /\ TodoInv'
  <1>1. TypeOK /\ TypeOK' /\ StageInv /\ KindInv /\ CountInv /\ AloneInv /\ ReservedInv /\ TodoInv
    BY DEF TypeInv, Exclusion
  <1>2. Runs(t) /\ UNCHANGED <<gone, threadsRun, context>> /\ at[t].pc = "secondary"
    BY DEF SwitchToSecondary, At
  <1>3. /\ at[t].kind = "mach" /\ at'[t].kind = at[t].kind /\ at'[t].pc = "recrash"
        /\ \A u \in Thread \ {t} : at'[u] = at[u]
    <2>1. Went(t, Following(at[t].kind, "secondary"))
      BY <1>1, <1>2, StageWent DEF SwitchToSecondary
    <2>. QED BY <1>1, <1>2, <2>1, KindsLeft, FollowingTable DEF Went
  <1>4. Alone(t) /\ Alone(t)' /\ Owner(t) /\ t \notin gone
    BY <1>1, <1>2, <1>3, RunsAlone DEF Alone, Owner
  <1>5. CASE UNCHANGED suspended
    BY <1>1, <1>2, <1>3, <1>5, StageExcludes, FollowingTable, RunsAlone
  <1>6. CASE /\ t = "primary" /\ "secondary" \notin gone /\ suspended["secondary"] > 0
             /\ suspended' = [suspended EXCEPT !["secondary"] = @ - 1]
    <2>1. "secondary" \in Thread /\ "secondary" # t /\ t = "primary"
      BY <1>6 DEF Thread, Handlers
    <2>2. SelfSuspended("secondary") = 1 /\ (\A u : SelfSuspended(u)' = 0)
          /\ (\A u : u # "secondary" => SelfSuspended(u) = 0)
      BY <1>2, <1>3, <1>4, <1>6 DEF SelfSuspended, Preparing
    <2>3. suspended["secondary"] > 1
      <3>1. Holds(t, "secondary")
        BY <1>4, <2>1 DEF Holds
      <3>2. suspended["secondary"] > SelfSuspended("secondary") /\ suspended["secondary"] \in Nat
        BY <1>1, <1>6, <2>1, <3>1, HeldSuspended DEF TypeOK
      <3>. QED BY <2>2, <3>2
    <2>4. suspended \in [Thread -> Nat]
      BY <1>1 DEF TypeOK
    <2>5. \A u \in Thread : Owner(u)' <=> Owner(u)
      BY <1>2, <1>6, <2>1, <2>3, <2>4 DEF Owner
    <2>6. \A u \in Thread : u # t => (Alone(u)' <=> Alone(u))
      BY <1>3 DEF Alone
    <2>7. ASSUME NEW w \in Thread \ gone
          PROVE  suspended'[w] >= Cardinality(Holders(w)') + SelfSuspended(w)'
      <3>1. ASSUME NEW s \in Thread, Holds(s, w)'
            PROVE  Holds(s, w)
        <4>1. CASE s = t
          BY <1>2, <1>4, <3>1, <4>1 DEF Holds
        <4>2. CASE s # t
          BY <1>2, <1>3, <2>5, <3>1, <4>2 DEF Holds
        <4>. QED BY <4>1, <4>2
      <3>2. Holders(w)' \subseteq Holders(w)
        BY <3>1 DEF Holders
      <3>3. IsFiniteSet(Holders(w)) /\ Cardinality(Holders(w)) \in Nat
        BY HoldersFinite
      <3>4. Cardinality(Holders(w)') <= Cardinality(Holders(w)) /\ Cardinality(Holders(w)') \in Nat
        BY <3>2, <3>3, FS_Subset, FS_CardinalityType
      <3>5. suspended[w] >= Cardinality(Holders(w)) + SelfSuspended(w) /\ suspended[w] \in Nat
        BY <1>1, <2>4 DEF CountInv
      <3>6. suspended'[w] = suspended[w] - SelfSuspended(w) /\ SelfSuspended(w)' = 0 /\ SelfSuspended(w) \in {0, 1}
        BY <1>6, <2>1, <2>2, <2>4, SelfSuspendedType
      <3>. QED BY <3>3, <3>4, <3>5, <3>6
    <2>8. CountInv'
      BY <1>2, <2>7 DEF CountInv
    <2>9. AloneInv'
      BY <1>1, <1>2, <1>4, <2>5, <2>6 DEF AloneInv
    <2>10. ReservedInv'
      BY <1>1, <1>2, <1>4 DEF ReservedInv
    <2>11. TodoInv'
      BY <1>1, <1>3 DEF TodoInv
    <2>. QED BY <2>8, <2>9, <2>10, <2>11
  <1>. QED BY <1>5, <1>6 DEF SwitchToSecondary

\* Whoever finds its sentry uninstalled is not alone.
LEMMA FinishExcludes ==
  ASSUME TypeInv, TypeInv', Exclusion, NEW t \in Thread, Finish(t)
  PROVE  CountInv' /\ AloneInv' /\ ReservedInv' /\ TodoInv'
  <1>1. TypeOK /\ TypeOK' /\ StageInv /\ KindInv /\ CountInv /\ AloneInv /\ ReservedInv /\ TodoInv
    BY DEF TypeInv, Exclusion
  <1>2. Runs(t) /\ UNCHANGED <<context, threadsRun, suspended>> /\ at[t].pc = "finish" /\ gone \subseteq gone'
    BY DEF Finish, At
  <1>3. PICK stopped \in Thread : /\ at'[stopped].pc = "enter" /\ at'[stopped].kind = "signal"
                                  /\ \A u \in Thread \ {stopped} : at'[u] = at[u]
    BY <1>1, FinishWent
  <1>4. threadsRun
    <2>1. ~Alone(t)
      BY <1>2 DEF Alone
    <2>. QED BY <1>1, <1>2, <2>1, RunsAlone
  <1>5. CountInv'
    <2>1. ASSUME NEW w \in Thread \ gone', NEW s \in Thread, Holds(s, w)'
          PROVE  Holds(s, w)
      <3>1. s # w /\ s \notin gone' /\ at'[s].pc = "suspending" /\ w \notin at'[s].todo
        BY <1>2, <1>4, <2>1 DEF Holds, Owner
      <3>2. s # stopped /\ at'[s] = at[s]
        BY <1>3, <3>1
      <3>. QED BY <1>2, <3>1, <3>2 DEF Holds
    <2>2. \A w \in Thread \ gone' : Holders(w)' \subseteq Holders(w)
      BY <2>1 DEF Holders
    <2>3. ASSUME NEW w
          PROVE  SelfSuspended(w)' <= SelfSuspended(w)
      <3>1. at'["primary"].kind = "mach" => at'["primary"] = at["primary"]
        BY <1>3 DEF Thread, Handlers
      <3>. QED BY <1>2, <3>1 DEF SelfSuspended
    <2>4. \A w \in Thread \ gone' : suspended'[w] >= suspended[w]
      BY <1>1, <1>2 DEF TypeOK
    <2>. QED BY <1>1, <1>2, <2>2, <2>3, <2>4, CountKept
  <1>6. AloneInv'
    <2>1. \A u \in Thread \ gone : ~Alone(u)
      BY <1>1, <1>4 DEF AloneInv, Owner
    <2>2. \A u \in Thread \ gone' : ~Alone(u)'
      BY <1>2, <1>3, <2>1 DEF Alone
    <2>. QED BY <1>2, <1>4, <2>2 DEF AloneInv, Owner
  <1>7. ReservedInv'
    BY <1>1, <1>2, <1>3 DEF ReservedInv, Alone
  <1>8. TodoInv'
    BY <1>1, <1>3 DEF TodoInv
  <1>. QED BY <1>5, <1>6, <1>7, <1>8

\* A step moves the thread that takes it, but for two that start a handler.
LEMMA StepWent ==
  ASSUME TypeInv, NEW t \in Thread, Step(t), ~Receive(t), ~Finish(t), ~ReraiseSignal(t)
  PROVE  Went(t, at'[t].pc) /\ at[t].pc \notin {"app", "receiving", "trapped"} /\ UNCHANGED inbox
  <1>1. TypeOK /\ StageInv
    BY DEF TypeInv
  <1>2. ASSUME NEW pc, Went(t, pc)
        PROVE  Went(t, at'[t].pc)
    BY <1>2 DEF Went
  <1>3. CASE Enter(t) \/ ListThreads(t)
    BY <1>1, <1>3, EnterWent, ListWent DEF Enter, ListThreads
  <1>4. CASE SuspendThread(t)
    BY <1>1, <1>2, <1>4, SuspendWent DEF SuspendThread
  <1>5. CASE Record(t) \/ Recorded(t)
    BY <1>1, <1>5, RecordWent, RecordedWent DEF Record, Recorded
  <1>6. CASE OnCrash(t)
    BY <1>1, <1>6, OnCrashWent DEF OnCrash
  <1>7. CASE CloseReport(t)
    BY <1>1, <1>2, <1>7, GotoWent DEF CloseReport, At, Stages
  <1>8. CASE Begin(t)
    BY <1>1, <1>2, <1>8, StageWent DEF Begin, At
  <1>9. CASE SwitchToSecondary(t)
    BY <1>1, <1>2, <1>9, StageWent DEF SwitchToSecondary, At
  <1>10. CASE Recrash(t)
    BY <1>1, <1>2, <1>10, StageWent DEF Recrash, At
  <1>11. CASE Fill(t)
    BY <1>1, <1>2, <1>11, StageWent DEF Fill, At
  <1>12. CASE UninstallHandlers(t)
    BY <1>1, <1>2, <1>12, StageWent DEF UninstallHandlers, At
  <1>13. CASE ResumeThreads(t)
    BY <1>1, <1>13, ResumeListWent DEF ResumeThreads
  <1>14. CASE ResumeThread(t)
    BY <1>1, <1>2, <1>14, ResumeWent DEF ResumeThread
  <1>. QED BY <1>3, <1>4, <1>5, <1>6, <1>7, <1>8, <1>9, <1>10, <1>11, <1>12, <1>13, <1>14 DEF Step

\* A crash of another kind makes none of an NSException.
LEMMA KindKept ==
  ASSUME TypeInv, KindInv, NEW t \in Thread, Step(t)
  PROVE  KindInv'
  <1>1. TypeOK /\ StageInv
    BY DEF TypeInv
  <1>2. CASE Receive(t)
    BY <1>1, <1>2, ReceiveWent DEF KindInv
  <1>3. CASE Finish(t)
    BY <1>1, <1>3, FinishWent DEF KindInv
  <1>4. CASE ReraiseSignal(t)
    BY <1>4 DEF ReraiseSignal, KindInv
  <1>5. CASE ~Receive(t) /\ ~Finish(t) /\ ~ReraiseSignal(t)
    BY <1>5, StepWent DEF Went, KindInv
  <1>. QED BY <1>2, <1>3, <1>4, <1>5

\* Nobody holds anybody at first, but the secondary thread has suspended itself.
LEMMA ExclusionInit ==
  ASSUME Init
  PROVE  Exclusion
  <1>1. ASSUME NEW t \in Thread
        PROVE  at[t].pc \in {"app", "receiving"} /\ at[t].kind = "mach"
    BY DEF Init, Frame
  <1>2. KindInv /\ ReservedInv /\ TodoInv /\ OpenInv
    <2>1. \A f \in {"standard", "minimal"} : reports[f] = Absent
      BY DEF Init
    <2>. QED BY <1>1, <2>1 DEF KindInv, ReservedInv, TodoInv, OpenInv, Alone
  <1>3. AloneInv
    BY <1>1 DEF AloneInv, Alone, Owner, Init
  <1>4. ASSUME NEW u \in Thread \ gone
        PROVE  suspended[u] >= Cardinality(Holders(u)) + SelfSuspended(u)
    <2>1. Holders(u) = {}
      BY <1>1 DEF Holders, Holds, Owner, Init
    <2>2. Cardinality(Holders(u)) = 0
      BY <2>1, FS_EmptySet
    <2>3. suspended[u] = (IF u = "secondary" THEN 1 ELSE 0) /\ SelfSuspended(u) \in {0, 1}
          /\ (u # "secondary" => SelfSuspended(u) = 0)
      BY DEF Init, InstallMachHandler, SelfSuspended
    <2>. QED BY <2>2, <2>3
  <1>5. CountInv
    BY <1>4 DEF CountInv
  <1>. QED BY <1>2, <1>3, <1>5 DEF Exclusion

\* Whoever takes a step finds no report, or closes the one it writes.
LEMMA NoReportYet ==
  ASSUME TypeInv, Exclusion, NEW t \in Thread, Runs(t), at[t].pc # "writing"
  PROVE  \A f \in {"standard", "minimal"} : reports[f] = Absent
  <1>1. TypeOK /\ t \notin gone /\ suspended[t] = 0 /\ CountInv /\ AloneInv
    BY DEF TypeInv, Runs, Exclusion
  <1>2. ASSUME NEW u \in Thread \ gone, at[u].pc = "writing"
        PROVE  FALSE
    <2>1. u # t
      BY <1>2
    <2>2. Alone(u)
      BY <1>2 DEF Alone
    <2>3. Owner(u)
      BY <1>1, <2>2 DEF AloneInv
    <2>4. suspended[t] > 0
      BY <1>1, <2>1, <2>3, Excludes
    <2>. QED BY <1>1, <2>4
  <1>. QED BY <1>2 DEF Exclusion, OpenInv

\* A report that is closed is whole.
LEMMA ClosedReport ==
  ASSUME TypeInv, NEW t \in Thread, CloseReport(t)
  PROVE  SomeReport'
  <1>1. at[t].file \in {"standard", "minimal"}
    BY DEF TypeInv, TypeOK, FrameType
  <1>2. \A f \in {"standard", "minimal"} : f = at[t].file => Complete(f)'
    BY CloseReportCompletes
  <1>. QED BY <1>1, <1>2 DEF SomeReport

\* A writer closes its report; whoever else takes a step comes to no stage after
\* the report, and opens one only to write it.
LEMMA OpenStep ==
  ASSUME TypeInv, Exclusion, NEW t \in Thread, Step(t), ~SomeReport'
  PROVE  OpenInv' /\ at[t].pc # "writing" /\ at'[t].pc \notin {"written", "resume", "resuming"}
  <1>1. TypeOK /\ StageInv /\ KindInv /\ OpenInv /\ Runs(t) /\ t \notin gone
    BY StepFaults DEF TypeInv, Exclusion, Runs
  <1>2. at[t].pc \notin {"writing", "written", "resume", "resuming"}
    <2>1. CASE at[t].pc = "writing"
      <3>1. CloseReport(t)
        BY <2>1 DEF Step, Receive, Enter, Begin, ListThreads, SuspendThread, SwitchToSecondary, Recrash, Record, Fill,
             OnCrash, UninstallHandlers, ResumeThreads, ResumeThread, Recorded, ReraiseSignal, Finish, At
      <3>. QED BY <3>1, ClosedReport
    <2>. QED BY <1>1, <2>1 DEF OpenInv
  <1>3. \A f \in {"standard", "minimal"} : reports[f] = Absent
    BY <1>1, <1>2, NoReportYet
  <1>4. at[t].kind \in {"mach", "signal", "cpp"} /\ at[t].pc \in StagesOf(at[t].kind)
    BY <1>1, KindsLeft DEF StageInv
  <1>5. ~CloseReport(t) /\ ~UninstallHandlers(t) /\ ~ResumeThreads(t) /\ ~ResumeThread(t) /\ ~Record(t) /\ ~Recorded(t)
    BY <1>2, <1>4, StageSets DEF CloseReport, UninstallHandlers, ResumeThreads, ResumeThread, Record, Recorded, At
  <1>6. ASSUME ~OnCrash(t), \A u \in Thread : at'[u] = at[u] \/ at'[u].pc \notin {"written", "resume", "resuming"},
               \A f \in {"standard", "minimal"} : reports'[f] # Absent => reports[f] # Absent
        PROVE  OpenInv'
    BY <1>1, <1>3, <1>6 DEF OpenInv
  <1>7. ~OnCrash(t) => \A f \in {"standard", "minimal"} : reports'[f] # Absent => reports[f] # Absent
    BY ReportsKept
  <1>8. CASE Receive(t)
    <2>1. \A u \in Thread : at'[u] = at[u] \/ at'[u].pc \notin {"written", "resume", "resuming"}
      BY <1>1, <1>8, ReceiveWent
    <2>2. ~OnCrash(t)
      BY <1>8 DEF Receive, OnCrash, At
    <2>. QED BY <1>1, <1>2, <1>6, <1>7, <2>1, <2>2
  <1>9. CASE Finish(t)
    <2>1. \A u \in Thread : at'[u] = at[u] \/ at'[u].pc \notin {"written", "resume", "resuming"}
      BY <1>1, <1>9, FinishWent
    <2>2. ~OnCrash(t)
      BY <1>9 DEF Finish, OnCrash, At
    <2>. QED BY <1>1, <1>2, <1>6, <1>7, <2>1, <2>2
  <1>10. CASE ReraiseSignal(t)
    <2>1. UNCHANGED at /\ ~OnCrash(t)
      BY <1>10 DEF ReraiseSignal, OnCrash, At
    <2>. QED BY <1>1, <1>2, <1>6, <1>7, <2>1
  <1>11. CASE ~Receive(t) /\ ~Finish(t) /\ ~ReraiseSignal(t) /\ ~OnCrash(t)
    <2>1. at'[t].pc \notin {"written", "resume", "resuming"}
      <3>1. CASE Enter(t)
        BY <1>1, <3>1, EnterWent
      <3>2. CASE Begin(t)
        <4>1. at'[t].pc = Following(at[t].kind, "begin")
          BY <1>1, <3>2, StageWent DEF Begin, At, Went
        <4>. QED BY <1>4, <4>1, FollowingTable
      <3>3. CASE ListThreads(t) \/ SuspendThread(t)
        <4>1. at'[t].pc \in {"suspending", Following(at[t].kind, "suspend")}
          BY <1>1, <3>3, ListWent, SuspendWent DEF Went
        <4>. QED BY <1>4, <4>1, FollowingTable
      <3>4. CASE SwitchToSecondary(t)
        <4>1. at'[t].pc = Following(at[t].kind, "secondary") /\ at[t].kind = "mach"
          BY <1>1, <3>4, StageWent, KindsLeft DEF SwitchToSecondary, At, Went
        <4>. QED BY <4>1, FollowingTable
      <3>5. CASE Recrash(t)
        <4>1. at'[t].pc = Following(at[t].kind, "recrash")
          BY <1>1, <3>5, StageWent DEF Recrash, At, Went
        <4>. QED BY <1>4, <4>1, FollowingTable
      <3>6. CASE Fill(t)
        <4>1. at'[t].pc = Following(at[t].kind, "fill")
          BY <1>1, <3>6, StageWent DEF Fill, At, Went
        <4>. QED BY <1>4, <4>1, FollowingTable
      <3>. QED BY <1>5, <1>11, <3>1, <3>2, <3>3, <3>4, <3>5, <3>6 DEF Step
    <2>2. \A u \in Thread \ {t} : at'[u] = at[u]
      BY <1>11, StepWent DEF Went
    <2>. QED BY <1>2, <1>6, <1>7, <1>11, <2>1, <2>2
  <1>12. CASE OnCrash(t)
    <2>1. \A f \in {"standard", "minimal"} : reports'[f] # Absent => at'[t].pc = "writing" /\ at'[t].file = f
      BY <1>3, <1>12, OnCrashOpens
    <2>2. at'[t].pc = "writing"
      <3>1. FileOf(context.recrash) \in {"standard", "minimal"}
        BY DEF FileOf
      <3>. QED BY <1>3, <1>12, <3>1, OnCrashOpens
    <2>3. gone' = gone /\ \A u \in Thread \ {t} : at'[u] = at[u]
      BY <1>1, <1>12, OnCrashWent DEF OnCrash, Went
    <2>. QED BY <1>1, <1>2, <2>1, <2>2, <2>3 DEF OpenInv
  <1>. QED BY <1>8, <1>9, <1>10, <1>11, <1>12

\* Without an NSException the steps keep those who handle a crash apart.
LEMMA ExclusionStep ==
  ASSUME TypeInv, TypeInv', Exclusion, NEW t \in Thread, Step(t), ~SomeReport'
  PROVE  Exclusion'
  <1>1. TypeOK /\ StageInv /\ WriterInv /\ KindInv /\ CountInv /\ AloneInv /\ ReservedInv /\ TodoInv /\ OpenInv
    BY DEF TypeInv, Exclusion
  <1>2. KindInv' /\ OpenInv'
    BY <1>1, KindKept, OpenStep
  <1>3. /\ at[t].kind # "nsexception"
        /\ at[t].pc \notin {"writing", "written", "resume", "resuming"}
        /\ at'[t].pc \notin {"written", "resume", "resuming"}
    BY <1>1, OpenStep DEF KindInv, OpenInv
  <1>4. CountInv' /\ AloneInv' /\ ReservedInv' /\ TodoInv'
    <2>1. CASE Receive(t)
      BY <2>1, ReceiveExcludes
    <2>2. CASE Enter(t)
      BY <2>2, EnterExcludes
    <2>3. CASE Begin(t)
      BY <2>3, BeginExcludes
    <2>4. CASE ListThreads(t)
      BY <2>4, ListExcludes
    <2>5. CASE SuspendThread(t)
      BY <2>5, SuspendExcludes
    <2>6. CASE SwitchToSecondary(t)
      BY <2>6, SwitchExcludes
    <2>7. CASE Recrash(t)
      <3>1. /\ Runs(t) /\ at[t].pc = "recrash" /\ UNCHANGED <<threadsRun, suspended>>
            /\ Went(t, Following(at[t].kind, "recrash"))
        BY <1>1, <2>7, StageWent DEF Recrash, At
      <3>2. t \notin gone' /\ gone \subseteq gone'
        BY <1>1, <2>7, <3>1, Uninstalled DEF Recrash, Runs
      <3>3. context'.reserved = context.reserved
        BY <1>1, <2>7 DEF Recrash, TypeOK, ContextType
      <3>. QED BY <3>1, <3>2, <3>3, StageExcludes DEF Went
    <2>8. CASE Record(t) \/ Recorded(t)
      BY <1>1, <1>3, <2>8, RecordWent, RecordedWent
    <2>9. CASE Fill(t)
      <3>1. /\ Runs(t) /\ at[t].pc = "fill" /\ UNCHANGED <<gone, threadsRun, suspended>>
            /\ Went(t, Following(at[t].kind, "fill"))
        BY <1>1, <2>9, StageWent DEF Fill, At
      <3>2. context'.reserved = context.reserved
        BY <1>1, <2>9 DEF Fill, TypeOK, ContextType
      <3>. QED BY <3>1, <3>2, StageExcludes DEF Went, Runs
    <2>10. CASE OnCrash(t)
      <3>1. /\ Runs(t) /\ at[t].pc = "report" /\ UNCHANGED <<gone, threadsRun, suspended, context>>
            /\ Went(t, at'[t].pc) /\ at'[t].pc \in {"writing", "written"}
        BY <1>1, <2>10, OnCrashWent DEF OnCrash, At
      <3>. QED BY <1>3, <3>1, StageExcludes DEF Went, Runs
    <2>11. CASE CloseReport(t) \/ UninstallHandlers(t) \/ ResumeThreads(t) \/ ResumeThread(t)
      BY <1>3, <2>11 DEF CloseReport, UninstallHandlers, ResumeThreads, ResumeThread, At
    <2>12. CASE ReraiseSignal(t)
      <3>1. UNCHANGED <<context, threadsRun, suspended, gone, at>>
        BY <2>12 DEF ReraiseSignal
      <3>. QED BY <1>1, <3>1 DEF CountInv, Holders, Holds, Owner, SelfSuspended, AloneInv, Alone,
                                 ReservedInv, TodoInv
    <2>13. CASE Finish(t)
      BY <2>13, FinishExcludes
    <2>. QED BY <2>1, <2>2, <2>3, <2>4, <2>5, <2>6, <2>7, <2>8, <2>9, <2>10, <2>11, <2>12, <2>13 DEF Step
  <1>. QED BY <1>2, <1>4 DEF Exclusion

\* Nor do the faults of other kinds bring them together.
LEMMA ExclusionNext ==
  ASSUME TypeInv, TypeInv', Early => Exclusion, [Next]_vars
  PROVE  (Early => Exclusion)'
  <1>1. TypeOK /\ TypeOK'
    BY DEF TypeInv
  <1>2. ASSUME NEW t \in Thread, NEW kind \in All, Fault(t, kind), Early'
        PROVE  Exclusion'
    <2>1. /\ faults \in Seq(All) /\ faults' = Append(faults, kind) /\ Raise(t, kind) /\ at[t].pc = "app"
          /\ UNCHANGED <<reports, gone, inHandler>>
      BY <1>1, <1>2 DEF TypeOK, Fault, At
    <2>2. NoException /\ kind # "nsexception"
      BY <1>2, <2>1 DEF Early, NoException
    <2>3. Early /\ Exclusion
      BY <1>2, <2>1, <2>2 DEF Early, SomeReport, Complete
    <2>4. \A u \in Thread \ {t} : at'[u] = at[u]
      BY <1>1, <2>1, RaiseWent
    <2>5. at'[t].pc \in {"trapped", "enter"} /\ at'[t].kind # "nsexception"
      BY <1>1, <2>1, <2>2, RaiseWent
    <2>6. KindInv' /\ OpenInv'
      BY <2>1, <2>3, <2>4, <2>5 DEF Exclusion, KindInv, OpenInv
    <2>. QED BY <1>2, <2>2, <2>3, <2>6, FaultExcludes DEF Exclusion
  <1>3. ASSUME NEW t \in Thread, NEW kind \in AsyncSafe, HandlerFault(t, kind), Early'
        PROVE  Exclusion'
    <2>1. inHandler' # "none"
      BY <1>1, <1>3 DEF HandlerFault, TypeOK, FrameType, All, AsyncSafe
    <2>. QED BY <1>3, <2>1 DEF Early
  <1>4. ASSUME NEW t \in Thread, Step(t), Early'
        PROVE  Exclusion'
    <2>1. faults' = faults /\ inHandler' = inHandler /\ (SomeReport => SomeReport')
      BY <1>4, StepFaults, ReportsKept DEF SomeReport
    <2>2. Early /\ ~SomeReport'
      BY <1>4, <2>1 DEF Early, NoException
    <2>. QED BY <1>4, <2>2, ExclusionStep
  <1>5. ASSUME Kill \/ UNCHANGED vars, Early'
        PROVE  Exclusion'
    <2>1. UNCHANGED <<context, threadsRun, suspended, gone, at, faults, reports, inHandler>>
      BY <1>5 DEF Kill, vars
    <2>2. Early
      BY <1>5, <2>1 DEF Early, NoException, SomeReport, Complete
    <2>. QED BY <2>1, <2>2 DEF Exclusion, KindInv, CountInv, Holders, Holds, Owner, SelfSuspended,
                               AloneInv, Alone, ReservedInv, TodoInv, OpenInv
  <1>. QED BY <1>2, <1>3, <1>4, <1>5 DEF Next, Done

-----------------------------------------------------------------------------
(***************************************************************************)
(* A single crash, which may be an NSException: one thread handles it.     *)
(***************************************************************************)

\* In a handler, or about to be taken out of the port by one.
Busy(t) == t \in inbox \/ (t \notin gone /\ at[t].pc \notin {"app", "receiving", "trapped"})

\* Before a crash no thread is, and without a second crash one at a time.
SingleInv ==
  /\ faults = <<>> => \A t \in Thread : ~Busy(t)
  /\ Len(faults) = 1 => (\A t, u \in Thread : Busy(t) /\ Busy(u) => t = u)
                        /\ \A t \in inbox : at[t].pc = "trapped"

\* Nobody that has ended comes back.
LEMMA StepGone ==
  ASSUME TypeInv, NEW t \in Thread, Step(t)
  PROVE  gone \subseteq gone'
  <1>1. TypeOK
    BY DEF TypeInv
  <1>2. CASE Recrash(t) \/ UninstallHandlers(t) \/ Recorded(t)
    BY <1>1, <1>2, Uninstalled DEF Recrash, UninstallHandlers, Recorded
  <1>. QED BY <1>2 DEF Step, Receive, Enter, Begin, ListThreads, SuspendThread, SwitchToSecondary, Record, Fill,
                       OnCrash, CloseReport, ResumeThreads, ResumeThread, ReraiseSignal, Finish

\* Who takes a step is busy, or receives an exception of one who is.
LEMMA StepBusy ==
  ASSUME TypeInv, NEW t \in Thread, Step(t)
  PROVE  /\ ~Receive(t) => Busy(t)
         /\ Receive(t) => \E u \in inbox : Busy(u) /\ u \in Thread
  <1>1. TypeOK /\ StageInv /\ t \notin gone
    BY StepFaults DEF TypeInv, Runs
  <1>2. CASE Receive(t)
    BY <1>1, <1>2, ReceiveWent DEF Busy, TypeOK
  <1>3. CASE Finish(t)
    BY <1>1, <1>3, FinishWent DEF Busy, Finish, Receive, At
  <1>4. CASE ReraiseSignal(t)
    BY <1>1, <1>4 DEF Busy, ReraiseSignal, Receive, At
  <1>5. CASE ~Receive(t) /\ ~Finish(t) /\ ~ReraiseSignal(t)
    BY <1>1, <1>5, StepWent DEF Busy
  <1>. QED BY <1>2, <1>3, <1>4, <1>5

\* The one crash is handed on from thread to thread.
LEMMA SingleStep ==
  ASSUME TypeInv, SingleInv, NEW t \in Thread, Step(t)
  PROVE  SingleInv'
  <1>1. TypeOK /\ StageInv /\ faults' = faults /\ t \notin gone /\ gone \subseteq gone'
    BY StepFaults, StepGone DEF TypeInv, Runs
  <1>2. faults # <<>>
    BY StepBusy DEF SingleInv
  <1>3. ASSUME Len(faults) = 1
        PROVE  /\ \E r \in Thread : \A u \in Thread : Busy(u)' => u = r
               /\ \A u \in inbox' : at'[u].pc = "trapped"
    <2>1. /\ \A u, w \in Thread : Busy(u) /\ Busy(w) => u = w
          /\ \A u \in inbox : at[u].pc = "trapped" /\ u \in Thread /\ Busy(u)
      BY <1>1, <1>3 DEF SingleInv, TypeOK, Busy
    <2>2. CASE Receive(t)
      <3>1. PICK u \in inbox : inbox' = inbox \ {u}
        BY <1>1, <2>2, ReceiveWent
      <3>2. \A w \in Thread \ {t} : at'[w] = at[w]
        BY <1>1, <2>2, ReceiveWent
      <3>3. inbox' = {} /\ \A w \in Thread : Busy(w) => w = u
        BY <2>1, <3>1
      <3>4. \A w \in Thread : Busy(w)' => w = t
        <4>1. ASSUME NEW w \in Thread, w # t, Busy(w)'
              PROVE  FALSE
          <5>1. at'[w] = at[w] /\ w \notin gone /\ at[w].pc \notin {"app", "receiving", "trapped"}
            BY <1>1, <3>2, <3>3, <4>1 DEF Busy
          <5>2. w = u
            BY <3>3, <5>1 DEF Busy
          <5>. QED BY <2>1, <5>1, <5>2
        <4>. QED BY <4>1
      <3>. QED BY <3>3, <3>4
    <2>3. CASE Finish(t)
      <3>1. at[t].pc = "finish" /\ inbox' = inbox
        BY <2>3 DEF Finish, At
      <3>2. PICK stopped \in Thread : /\ \A u \in Thread \ {stopped} : at'[u] = at[u]
                                      /\ stopped = t \/ t \in gone'
        BY <1>1, <2>3, FinishWent
      <3>3. Busy(t) /\ inbox = {}
        BY <1>1, <2>1, <3>1 DEF Busy
      <3>4. \A u \in Thread : Busy(u)' => u = stopped
        BY <1>1, <2>1, <3>1, <3>2, <3>3 DEF Busy
      <3>. QED BY <3>1, <3>3, <3>4
    <2>4. CASE ReraiseSignal(t)
      <3>1. UNCHANGED <<at, inbox, gone>>
        BY <2>4 DEF ReraiseSignal
      <3>2. Busy(t)
        BY <2>4, StepBusy DEF ReraiseSignal, Receive, At
      <3>. QED BY <2>1, <3>1, <3>2 DEF Busy
    <2>5. CASE ~Receive(t) /\ ~Finish(t) /\ ~ReraiseSignal(t)
      <3>1. Went(t, at'[t].pc) /\ at[t].pc \notin {"app", "receiving", "trapped"} /\ inbox' = inbox
        BY <2>5, StepWent
      <3>2. Busy(t) /\ inbox = {}
        BY <1>1, <2>1, <3>1 DEF Busy
      <3>3. \A u \in Thread : Busy(u)' => u = t
        BY <1>1, <2>1, <3>1, <3>2 DEF Busy, Went
      <3>. QED BY <3>1, <3>2, <3>3
    <2>. QED BY <2>2, <2>3, <2>4, <2>5
  <1>. QED BY <1>1, <1>2, <1>3 DEF SingleInv

\* The first fault makes one thread busy, and a fault of its handler the same.
LEMMA SingleNext ==
  ASSUME TypeInv, SingleInv, [Next]_vars
  PROVE  SingleInv'
  <1>1. TypeOK /\ StageInv
    BY DEF TypeInv
  <1>2. ASSUME NEW t \in Thread, NEW kind \in All, Fault(t, kind)
        PROVE  SingleInv'
    <2>1. faults \in Seq(All) /\ faults' = Append(faults, kind) /\ UNCHANGED gone /\ Raise(t, kind)
      BY <1>1, <1>2 DEF TypeOK, Fault
    <2>2. faults' # <<>> /\ (Len(faults') = 1 => faults = <<>>)
      BY <2>1
    <2>3. /\ \A u \in Thread \ {t} : at'[u] = at[u]
          /\ inbox' = inbox \/ (inbox' = inbox \cup {t} /\ at'[t].pc = "trapped")
      BY <1>1, <2>1, RaiseWent
    <2>4. ASSUME faults = <<>>
          PROVE  (\A u \in Thread : Busy(u)' => u = t) /\ \A u \in inbox' : at'[u].pc = "trapped"
      <3>1. (\A u \in Thread : ~Busy(u)) /\ inbox = {}
        BY <1>1, <2>4 DEF SingleInv, Busy, TypeOK
      <3>. QED BY <2>1, <2>3, <3>1 DEF Busy
    <2>. QED BY <2>2, <2>4 DEF SingleInv
  <1>3. ASSUME NEW t \in Thread, NEW kind \in AsyncSafe, HandlerFault(t, kind)
        PROVE  SingleInv'
    <2>1. /\ UNCHANGED <<faults, gone>> /\ Raise(t, kind) /\ kind \in All
          /\ at[t].pc = "writing" /\ t \notin gone
      BY <1>3 DEF HandlerFault, At, Runs, All
    <2>2. /\ \A u \in Thread \ {t} : at'[u] = at[u]
          /\ inbox' = inbox \/ (inbox' = inbox \cup {t} /\ at'[t].pc = "trapped")
      BY <1>1, <2>1, RaiseWent
    <2>3. Busy(t)
      BY <2>1 DEF Busy
    <2>4. ASSUME Len(faults) = 1
          PROVE  (\A u \in Thread : Busy(u)' => u = t) /\ \A u \in inbox' : at'[u].pc = "trapped"
      <3>1. (\A u \in Thread : Busy(u) => u = t) /\ inbox = {}
        BY <1>1, <2>1, <2>3, <2>4 DEF SingleInv, Busy, TypeOK
      <3>. QED BY <2>1, <2>2, <3>1 DEF Busy
    <2>. QED BY <2>1, <2>3, <2>4 DEF SingleInv
  <1>4. CASE Kill \/ UNCHANGED vars
    BY <1>4 DEF Kill, vars, SingleInv, Busy
  <1>. QED BY <1>2, <1>3, <1>4, SingleStep DEF Next, Done

-----------------------------------------------------------------------------
(***************************************************************************)
(* The first report.                                                       *)
(***************************************************************************)

\* The context has been filled for the crash t handles, and not reported yet.
Filled(t) ==
  \/ at[t].pc = "report"
  \/ at[t].kind = "nsexception" /\ at[t].pc \in {"suspend", "suspending"}

NoReports == \A f \in {"standard", "minimal"} : reports[f] = Absent

\* It is of that crash still, until there is a report.
FillInv ==
  ~ExceptionAmongOthers /\ NoReports =>
    \A t \in Thread \ gone : Filled(t) => context.type = at[t].kind /\ context.thread = at[t].of

\* A handler crashes only when it writes a report.
HandlerInv == inHandler # "none" => ~NoReports

\* What OneCrashPerReport says of the first report.
FirstReportOfOneCrash ==
  ~ExceptionAmongOthers => \A f \in DOMAIN reports : Only(f) => Matches(f)

\* The inductive invariant.
SentryInv ==
  TypeInv /\ (Early => Exclusion) /\ SingleInv /\ HandlerInv /\ FillInv /\ FirstReportOfOneCrash

\* What TLC checks is about runs of these two sorts.
LEMMA NotAmong ==
  ASSUME TypeOK, ~ExceptionAmongOthers
  PROVE  NoException \/ faults = <<>> \/ Len(faults) = 1
  <1>1. faults \in Seq(All) /\ Len(faults) \in Nat
    BY DEF TypeOK
  <1>2. CASE Len(faults) = 0
    BY <1>1, <1>2
  <1>3. CASE Len(faults) > 1
    BY <1>3 DEF ExceptionAmongOthers, NoException
  <1>. QED BY <1>1, <1>2, <1>3

\* While one thread has filled the context no other does anything to it.
LEMMA FilledAlone ==
  ASSUME SentryInv, ~ExceptionAmongOthers, NoReports, NEW t \in Thread, Step(t), Begin(t) \/ Fill(t),
         NEW u \in Thread \ gone, Filled(u)
  PROVE  u = t
  <1>1. TypeInv /\ TypeOK /\ SingleInv /\ t \notin gone /\ suspended[t] = 0
    BY StepFaults DEF SentryInv, TypeInv, Runs
  <1>2. Busy(t) /\ Busy(u)
    <2>1. at[t].pc \in {"begin", "fill"} /\ at[u].pc \in {"report", "suspend", "suspending"}
      BY DEF Begin, Fill, At, Filled
    <2>. QED BY <1>1, <2>1 DEF Busy
  <1>3. CASE NoException
    <2>1. KindInv /\ CountInv /\ AloneInv
      <3>1. Early
        BY <1>3 DEF SentryInv, HandlerInv, Early, NoReports, SomeReport, Complete
      <3>. QED BY <3>1 DEF SentryInv, Exclusion
    <2>2. Alone(u) /\ Owner(u)
      BY <2>1 DEF Filled, KindInv, Alone, AloneInv
    <2>3. u # t => suspended[t] > 0
      BY <1>1, <2>1, <2>2, Excludes
    <2>. QED BY <1>1, <2>3
  <1>4. CASE faults = <<>>
    BY <1>1, <1>2, <1>4 DEF SingleInv
  <1>5. CASE Len(faults) = 1
    BY <1>1, <1>2, <1>5 DEF SingleInv
  <1>. QED BY <1>1, <1>3, <1>4, <1>5, NotAmong

\* A step that fills the context does it for its own crash, and no other goes
\* on with a crash it has not been filled for.
LEMMA FilledStep ==
  ASSUME TypeInv, NEW t \in Thread, Step(t), NEW u \in Thread, Filled(u)', ~(u = t /\ Fill(t))
  PROVE  Filled(u) /\ at'[u].kind = at[u].kind /\ at'[u].of = at[u].of
  <1>1. TypeOK /\ StageInv /\ at[t].kind \in {"mach", "signal", "cpp", "nsexception"}
        /\ at[t].pc \in StagesOf(at[t].kind)
    BY DEF TypeInv, TypeOK, FrameType, StageInv, All, AsyncSafe
  <1>2. CASE at'[u] = at[u]
    BY <1>2 DEF Filled
  <1>3. CASE Receive(t)
    BY <1>1, <1>2, <1>3, ReceiveWent DEF Filled
  <1>4. CASE Finish(t)
    BY <1>1, <1>2, <1>4, FinishWent DEF Filled
  <1>5. CASE ReraiseSignal(t)
    BY <1>2, <1>5 DEF ReraiseSignal
  <1>6. CASE u = t /\ ~Receive(t) /\ ~Finish(t) /\ ~ReraiseSignal(t)
    <2>1. at'[t].kind = at[t].kind /\ at'[t].of = at[t].of
      BY <1>6, StepWent DEF Went
    <2>2. \/ at'[t].pc = "report"
          \/ at[t].kind = "nsexception" /\ at'[t].pc \in {"suspend", "suspending"}
      BY <1>6, <2>1 DEF Filled
    <2>3. CASE Enter(t) \/ Record(t) \/ Recorded(t) \/ OnCrash(t)
      BY <1>1, <2>2, <2>3, EnterWent, RecordWent, RecordedWent, OnCrashWent
    <2>4. CASE CloseReport(t)
      BY <1>1, <2>2, <2>4, GotoWent DEF CloseReport, Stages, Went
    <2>5. CASE ListThreads(t)
      <3>1. at[t].pc = "suspend" /\ at'[t].pc \in {"suspending", Following(at[t].kind, "suspend")}
        BY <1>1, <2>5, ListWent
      <3>2. at[t].kind = "nsexception"
        BY <1>1, <2>2, <3>1, FollowingTable
      <3>. QED BY <1>6, <2>1, <3>1, <3>2 DEF Filled
    <2>6. CASE SuspendThread(t)
      <3>1. at[t].pc = "suspending" /\ at'[t].pc \in {"suspending", Following(at[t].kind, "suspend")}
        BY <1>1, <2>6, SuspendWent DEF Went
      <3>2. at[t].kind = "nsexception"
        BY <1>1, <2>2, <3>1, FollowingTable
      <3>. QED BY <1>6, <2>1, <3>1, <3>2 DEF Filled
    <2>7. CASE Begin(t)
      <3>1. at'[t].pc = Following(at[t].kind, "begin")
        BY <1>1, <2>7, StageWent DEF Begin, At, Went
      <3>. QED BY <1>1, <2>2, <3>1, FollowingTable
    <2>8. CASE SwitchToSecondary(t)
      <3>1. at'[t].pc = Following(at[t].kind, "secondary") /\ at[t].pc = "secondary"
        BY <1>1, <2>8, StageWent DEF SwitchToSecondary, At, Went
      <3>2. at[t].kind = "mach"
        BY <1>1, <3>1, StageSets
      <3>. QED BY <2>2, <3>1, <3>2, FollowingTable
    <2>9. CASE Recrash(t)
      <3>1. at'[t].pc = Following(at[t].kind, "recrash")
        BY <1>1, <2>9, StageWent DEF Recrash, At, Went
      <3>. QED BY <1>1, <2>2, <3>1, FollowingTable
    <2>10. CASE UninstallHandlers(t)
      <3>1. at'[t].pc = Following(at[t].kind, "written")
        BY <1>1, <2>10, StageWent DEF UninstallHandlers, At, Went
      <3>. QED BY <1>1, <2>2, <3>1, FollowingTable
    <2>11. CASE ResumeThreads(t) \/ ResumeThread(t)
      <3>1. at'[t].pc \in {"resuming", Following(at[t].kind, "resume")}
        BY <1>1, <2>11, ResumeListWent, ResumeWent DEF Went
      <3>. QED BY <1>1, <2>2, <3>1, FollowingTable
    <2>. QED BY <1>6, <2>3, <2>4, <2>5, <2>6, <2>7, <2>8, <2>9, <2>10, <2>11 DEF Step
  <1>7. CASE u # t /\ ~Receive(t) /\ ~Finish(t) /\ ~ReraiseSignal(t)
    BY <1>2, <1>7, StepWent DEF Went
  <1>. QED BY <1>3, <1>4, <1>5, <1>6, <1>7

\* No report goes away.
LEMMA ReportsStay ==
  ASSUME TypeInv, NEW t \in Thread, Step(t)
  PROVE  NoReports' => NoReports
  <1>1. CASE OnCrash(t)
    BY <1>1, OnCrashOpens DEF NoReports
  <1>2. CASE CloseReport(t)
    <2>1. \A f \in {"standard", "minimal"} : reports[f] # Absent => reports'[f] # Absent
      BY <1>2, CloseReportCompletes
    <2>. QED BY <2>1 DEF NoReports
  <1>3. CASE UNCHANGED reports
    BY <1>3 DEF NoReports
  <1>. QED BY <1>1, <1>2, <1>3, ReportsKept

\* What is filled stays of the crash it was filled for.
LEMMA FillStep ==
  ASSUME SentryInv, NEW t \in Thread, Step(t)
  PROVE  FillInv'
  <1>1. TypeInv /\ TypeOK /\ StageInv /\ FillInv /\ faults' = faults /\ gone \subseteq gone' /\ (NoReports' => NoReports)
    BY StepFaults, StepGone, ReportsStay DEF SentryInv, TypeInv
  <1>2. SUFFICES ASSUME ~ExceptionAmongOthers, NoReports, NEW u \in Thread \ gone', Filled(u)'
                 PROVE  context'.type = at'[u].kind /\ context'.thread = at'[u].of
    BY <1>1 DEF FillInv, ExceptionAmongOthers
  <1>3. CASE u = t /\ Fill(t)
    <2>1. context' = [context EXCEPT !.type = at[t].kind, !.thread = at[t].of]
      BY <1>3 DEF Fill
    <2>2. context \in ContextType
      BY <1>1 DEF TypeOK
    <2>3. Went(t, Following(at[t].kind, "fill"))
      BY <1>1, <1>3, StageWent DEF Fill, At
    <2>. QED BY <1>3, <2>1, <2>2, <2>3 DEF ContextType, Went
  <1>4. CASE ~(u = t /\ Fill(t))
    <2>1. Filled(u) /\ at'[u].kind = at[u].kind /\ at'[u].of = at[u].of
      BY <1>1, <1>2, <1>4, FilledStep
    <2>2. context.type = at[u].kind /\ context.thread = at[u].of
      BY <1>1, <1>2, <2>1 DEF FillInv
    <2>3. ~Begin(t) /\ ~Fill(t)
      <3>1. ASSUME Begin(t) \/ Fill(t)
            PROVE  u = t /\ Begin(t)
        BY <1>1, <1>2, <1>4, <2>1, <3>1, FilledAlone
      <3>2. ~Begin(t) \/ u # t
        BY <2>1 DEF Begin, At, Filled
      <3>. QED BY <3>1, <3>2
    <2>4. context'.type = context.type /\ context'.thread = context.thread
      <3>1. CASE Recrash(t)
        BY <1>1, <3>1 DEF Recrash, TypeOK, ContextType
      <3>2. CASE ~Recrash(t)
        BY <2>3, <3>2 DEF Step, Receive, Enter, ListThreads, SuspendThread, SwitchToSecondary, Record,
                          OnCrash, CloseReport, UninstallHandlers, ResumeThreads, ResumeThread, Recorded, ReraiseSignal, Finish
      <3>. QED BY <3>1, <3>2
    <2>. QED BY <2>1, <2>2, <2>4
  <1>. QED BY <1>3, <1>4

\* The first report is opened from a context filled for its writer's crash.
LEMMA ReportStep ==
  ASSUME SentryInv, NEW t \in Thread, Step(t)
  PROVE  FirstReportOfOneCrash'
  <1>1. /\ TypeInv /\ TypeOK /\ StageInv /\ WriterInv /\ FillInv /\ FirstReportOfOneCrash /\ faults' = faults /\ t \notin gone
        /\ DOMAIN reports = {"standard", "minimal"}
    BY StepFaults DEF SentryInv, TypeInv, TypeOK, Runs
  <1>2. DOMAIN reports' = {"standard", "minimal"}
    <2>1. TypeOK'
      BY <1>1, TypeStep
    <2>. QED BY <2>1 DEF TypeOK
  <1>3. SUFFICES ASSUME ~ExceptionAmongOthers, NEW f \in {"standard", "minimal"}, Only(f)'
                 PROVE  Matches(f)'
    BY <1>1, <1>2 DEF FirstReportOfOneCrash, ExceptionAmongOthers
  <1>4. /\ reports'[f] # Absent
        /\ \A g \in {"standard", "minimal"} : g # f => reports'[g] = Absent
    BY <1>2, <1>3 DEF Only
  <1>5. Only(f) => Matches(f)
    BY <1>1, <1>3 DEF FirstReportOfOneCrash
  <1>6. CASE UNCHANGED reports
    BY <1>3, <1>5, <1>6 DEF Only, Matches
  <1>7. CASE OnCrash(t)
    <2>. DEFINE r == [type |-> context.type, thread |-> context.thread, complete |-> FALSE,
                      by |-> at[t].kind, of |-> at[t].of]
                file == FileOf(context.recrash)
    <2>1. \/ reports[file] = Absent /\ reports' = [reports EXCEPT ![file] = r]
          \/ UNCHANGED reports
      BY <1>7 DEF OnCrash, FileOf
    <2>2. file \in {"standard", "minimal"} /\ r # Absent
      <3>1. r \in ReportType
        BY <1>1 DEF TypeOK, ContextType, ReportType, FrameType
      <3>. QED BY <3>1, AbsentAssumption DEF FileOf
    <2>3. ASSUME NoReports
          PROVE  r.type = r.by /\ r.thread = r.of
      BY <1>1, <1>3, <1>7, <2>3 DEF FillInv, Filled, OnCrash, At
    <2>. HIDE DEF r, file
    <2>4. CASE reports[file] = Absent /\ reports' = [reports EXCEPT ![file] = r]
      <3>1. f = file
        BY <1>1, <1>4, <2>2, <2>4
      <3>2. NoReports
        BY <1>1, <1>4, <2>4, <3>1 DEF NoReports
      <3>3. reports'[f] = r
        BY <1>1, <2>4, <3>1
      <3>. QED BY <2>3, <3>2, <3>3 DEF Matches
    <2>. QED BY <1>6, <2>1, <2>4
  <1>8. CASE CloseReport(t)
    <2>1. \A g \in {"standard", "minimal"} : reports'[g] = Absent => reports[g] = Absent
      BY <1>1, <1>8, CloseReportCompletes
    <2>2. reports[f] # Absent
      BY <1>1, <1>4, <1>8, ReportsKept DEF CloseReport, OnCrash, At
    <2>3. Matches(f)
      BY <1>1, <1>4, <1>5, <2>1, <2>2 DEF Only
    <2>4. /\ reports'[f].type = reports[f].type /\ reports'[f].thread = reports[f].thread
          /\ reports'[f].by = reports[f].by /\ reports'[f].of = reports[f].of
      BY <1>1, <1>8, CloseReportType
    <2>. QED BY <2>3, <2>4 DEF Matches
  <1>. QED BY <1>1, <1>6, <1>7, <1>8, ReportsKept

\* Nothing else opens or fills anything.
LEMMA SentryNext ==
  ASSUME SentryInv, [Next]_vars
  PROVE  SentryInv'
  <1>1. TypeInv /\ SingleInv /\ HandlerInv /\ FillInv /\ FirstReportOfOneCrash /\ (Early => Exclusion)
    BY DEF SentryInv
  <1>2. TypeInv' /\ SingleInv' /\ (Early => Exclusion)'
    BY <1>1, TypeNext, SingleNext, ExclusionNext
  <1>3. ASSUME NEW t \in Thread, NEW kind \in All, Fault(t, kind) \/ HandlerFault(t, kind)
        PROVE  HandlerInv' /\ FillInv' /\ FirstReportOfOneCrash'
    <2>1. TypeOK /\ Raise(t, kind) /\ UNCHANGED <<context, gone, reports>>
      BY <1>1, <1>3 DEF TypeInv, Fault, HandlerFault
    <2>2. ExceptionAmongOthers => ExceptionAmongOthers'
      <3>1. faults \in Seq(All) /\ (faults' = faults \/ faults' = Append(faults, kind))
        BY <1>3, <2>1 DEF TypeOK, Fault, HandlerFault
      <3>2. CASE faults' = Append(faults, kind)
        <4>1. /\ Len(faults') = Len(faults) + 1 /\ Len(faults) \in Nat
              /\ \A i \in DOMAIN faults : i \in DOMAIN faults' /\ faults'[i] = faults[i]
          BY <3>1, <3>2
        <4>. QED BY <4>1 DEF ExceptionAmongOthers
      <3>. QED BY <3>1, <3>2 DEF ExceptionAmongOthers
    <2>3. \A u \in Thread : Filled(u)' => Filled(u) /\ at'[u] = at[u]
      BY <2>1, RaiseWent DEF Filled
    <2>4. HandlerInv'
      <3>1. CASE Fault(t, kind)
        BY <1>1, <3>1 DEF Fault, HandlerInv, NoReports
      <3>2. CASE HandlerFault(t, kind)
        <4>1. at[t].pc = "writing" /\ at[t].file \in {"standard", "minimal"}
          BY <2>1, <3>2 DEF HandlerFault, At, TypeOK, FrameType
        <4>2. reports[at[t].file] # Absent
          BY <1>1, <4>1, AbsentAssumption DEF TypeInv, WriterInv
        <4>. QED BY <2>1, <4>1, <4>2 DEF HandlerInv, NoReports
      <3>. QED BY <1>3, <3>1, <3>2
    <2>5. FillInv'
      BY <1>1, <2>1, <2>2, <2>3 DEF FillInv, NoReports
    <2>6. FirstReportOfOneCrash'
      BY <1>1, <2>1, <2>2 DEF FirstReportOfOneCrash, Only, Matches
    <2>. QED BY <2>4, <2>5, <2>6
  <1>4. ASSUME NEW t \in Thread, Step(t)
        PROVE  HandlerInv' /\ FillInv' /\ FirstReportOfOneCrash'
    <2>1. HandlerInv'
      BY <1>1, <1>4, StepFaults, ReportsStay DEF HandlerInv
    <2>. QED BY <1>4, <2>1, FillStep, ReportStep
  <1>5. ASSUME Kill \/ UNCHANGED vars
        PROVE  HandlerInv' /\ FillInv' /\ FirstReportOfOneCrash'
    <2>1. UNCHANGED <<context, gone, reports, at, faults, inHandler>>
      BY <1>5 DEF Kill, vars
    <2>. QED BY <1>1, <2>1 DEF HandlerInv, FillInv, Filled, NoReports, FirstReportOfOneCrash, Only, Matches,
                              ExceptionAmongOthers
  <1>6. HandlerInv' /\ FillInv' /\ FirstReportOfOneCrash'
    BY <1>3, <1>4, <1>5 DEF Next, Done, All
  <1>. QED BY <1>2, <1>6 DEF SentryInv

\* The invariant, and with it the exclusion, holds in every state.
THEOREM Inductive == Spec => []SentryInv
  <1>1. Init => SentryInv
    <2>1. ASSUME Init
          PROVE  SentryInv
      <3>1. TypeInv /\ Exclusion
        BY <2>1, TypeInit, ExclusionInit DEF TypeInv
      <3>2. \A t \in Thread : ~Busy(t) /\ ~Filled(t)
        BY <2>1 DEF Init, Frame, Busy, Filled
      <3>3. SingleInv /\ FillInv /\ HandlerInv
        BY <2>1, <3>2 DEF Init, SingleInv, FillInv, HandlerInv
      <3>4. FirstReportOfOneCrash
        BY <2>1 DEF Init, FirstReportOfOneCrash, Only
      <3>. QED BY <3>1, <3>3, <3>4 DEF SentryInv
    <2>. QED BY <2>1
  <1>2. SentryInv /\ [Next]_vars => SentryInv'
    BY SentryNext
  <1>. QED BY <1>1, <1>2, SpecSteps, PTL

\* The first report describes the crash that its writer handles, however many
\* other threads crash at the same time, unless an NSException is among them:
\* until it is whole nobody is resumed, and whoever fills the context has
\* suspended all that could clear it.
THEOREM FirstReportAlwaysOfOneCrash == Spec => []FirstReportOfOneCrash
  <1>1. SentryInv => FirstReportOfOneCrash
    BY DEF SentryInv
  <1>. QED BY <1>1, Inductive, PTL

-----------------------------------------------------------------------------
(***************************************************************************)
(* A process that ends by itself leaves a report.                          *)
(***************************************************************************)

\* A new frame, where a fault takes a thread, remembers nothing.
LEMMA RaiseFields ==
  ASSUME TypeOK, NEW t \in Thread, NEW kind \in All, Raise(t, kind)
  PROVE  /\ ~at'[t].was /\ ~at'[t].recorded /\ at'[t].file = "standard"
         /\ at'[t].inTerminate <=> at'[t].pc = "record"
  <1>1. at \in [Thread -> FrameType]
    BY DEF TypeOK
  <1>2. ASSUME NEW f \in FrameType, at' = [at EXCEPT ![t] = f]
        PROVE  at'[t] = f
    BY <1>1, <1>2
  <1>3. ASSUME NEW pc \in {"trapped", "enter", "record"}, NEW k \in All
        PROVE  /\ Frame(pc, k, t) \in FrameType /\ Frame(pc, k, t).pc = pc
               /\ ~Frame(pc, k, t).was /\ ~Frame(pc, k, t).recorded /\ ~Frame(pc, k, t).inTerminate
               /\ Frame(pc, k, t).file = "standard"
    <2>1. Frame(pc, k, t) \in FrameType
      BY NewFrame DEF Stages
    <2>. QED BY <2>1 DEF Frame
  <1>4. CASE \E pc \in {"trapped", "enter"}, k \in All : at' = [at EXCEPT ![t] = Frame(pc, k, t)]
    <2>1. PICK pc \in {"trapped", "enter"}, k \in All : at' = [at EXCEPT ![t] = Frame(pc, k, t)]
      BY <1>4
    <2>2. at'[t] = Frame(pc, k, t)
      BY <1>2, <1>3, <2>1
    <2>. QED BY <1>3, <2>2
  <1>5. CASE at' = [at EXCEPT ![t] = [Frame("record", "nsexception", t) EXCEPT !.inTerminate = TRUE]]
    <2>. DEFINE g == Frame("record", "nsexception", t)
                f == [g EXCEPT !.inTerminate = TRUE]
    <2>1. g \in FrameType /\ g.pc = "record" /\ ~g.was /\ ~g.recorded /\ g.file = "standard"
      BY <1>3 DEF All
    <2>2. at' = [at EXCEPT ![t] = f]
      BY <1>5
    <2>. HIDE DEF g
    <2>3. f \in FrameType /\ f.pc = "record" /\ f.inTerminate /\ ~f.was /\ ~f.recorded /\ f.file = "standard"
      BY <2>1 DEF FrameType
    <2>. HIDE DEF f
    <2>. QED BY <1>2, <2>2, <2>3
  <1>. QED BY <1>4, <1>5 DEF Raise, All, AsyncSafe

\* What the steps of a handler remember.
LEMMA StepFields ==
  ASSUME TypeInv, NEW t \in Thread, Step(t), ~Receive(t), ~Finish(t), ~ReraiseSignal(t)
  PROVE  /\ at'[t].pc \notin {"app", "receiving", "trapped"}
         /\ at'[t].was = IF at[t].pc = "enter" THEN context.handling ELSE at[t].was
         /\ at'[t].recorded = IF at[t].pc = "record" THEN TRUE ELSE at[t].recorded
         /\ at'[t].inTerminate = IF at[t].pc = "recorded" THEN FALSE ELSE at[t].inTerminate
         /\ at[t].pc # "report" => at'[t].file = at[t].file
  <1>1. TypeOK /\ StageInv /\ at \in [Thread -> FrameType] /\ at[t] \in FrameType
        /\ at[t].kind \in All /\ at[t].pc \in StagesOf(at[t].kind) /\ context.handling \in BOOLEAN
    BY DEF TypeInv, TypeOK, FrameType, ContextType, StageInv
  <1>2. CASE Enter(t)
    <2>. DEFINE pc == CASE at[t].kind \in installed \cup {"cpp"} -> "begin"
                        [] at[t].kind = "signal" /\ "signal" \notin installed -> "reraise"
                        [] OTHER -> "finish"
    <2>1. pc \in {"begin", "reraise", "finish"}
      OBVIOUS
    <2>2. at' = [at EXCEPT ![t].was = context.handling, ![t].pc = pc] /\ at[t].pc = "enter"
      BY <1>2 DEF Enter, At
    <2>. HIDE DEF pc
    <2>3. at'[t] = [[at[t] EXCEPT !.was = context.handling] EXCEPT !.pc = pc]
      BY <1>1, <2>2
    <2>. QED BY <1>1, <2>1, <2>2, <2>3 DEF FrameType
  <1>3. ASSUME NEW stage \in {"begin", "secondary", "recrash", "fill", "written"},
               at[t].pc = stage, Goto(t, Following(at[t].kind, stage))
        PROVE  /\ at'[t].pc \notin {"app", "receiving", "trapped"} /\ at'[t].was = at[t].was
               /\ at'[t].recorded = at[t].recorded /\ at'[t].inTerminate = at[t].inTerminate
               /\ at'[t].file = at[t].file
    <2>1. /\ Following(at[t].kind, stage) \in Stages
          /\ Following(at[t].kind, stage) \notin {"app", "receiving", "trapped"}
      BY <1>1, <1>3, FollowingStage
    <2>. QED BY <1>1, <1>3, <2>1, GotoKeeps
  <1>4. CASE ListThreads(t)
    <2>. DEFINE pc == IF threadsRun THEN "suspending" ELSE Following(at[t].kind, "suspend")
                todo == Thread \ (gone \cup {t})
    <2>1. at' = [at EXCEPT ![t].todo = todo, ![t].pc = pc] /\ at[t].pc = "suspend"
      BY <1>4 DEF ListThreads, At
    <2>. HIDE DEF pc, todo
    <2>2. at'[t] = [[at[t] EXCEPT !.todo = todo] EXCEPT !.pc = pc]
      BY <1>1, <2>1
    <2>3. at'[t].pc \notin {"app", "receiving", "trapped"}
      BY <1>1, <1>4, ListWent
    <2>. QED BY <1>1, <2>1, <2>2, <2>3 DEF FrameType
  <1>5. CASE SuspendThread(t)
    <2>1. at[t].pc = "suspending"
      BY <1>5 DEF SuspendThread, At
    <2>2. CASE \E u \in at[t].todo : at' = [at EXCEPT ![t].todo = @ \ {u}]
      <3>1. PICK u \in at[t].todo : at'[t] = [at[t] EXCEPT !.todo = @ \ {u}]
        BY <1>1, <2>2
      <3>. QED BY <1>1, <2>1, <3>1 DEF FrameType
    <2>3. CASE Goto(t, Following(at[t].kind, "suspend"))
      <3>1. "suspend" \in StagesOf(at[t].kind)
        BY <1>1, <2>1, StageSets DEF All, AsyncSafe
      <3>2. /\ Following(at[t].kind, "suspend") \in Stages
            /\ Following(at[t].kind, "suspend") \notin {"app", "receiving", "trapped"}
        BY <1>1, <3>1, FollowingStage
      <3>. QED BY <1>1, <2>1, <2>3, <3>2, GotoKeeps
    <2>. QED BY <1>5, <2>2, <2>3 DEF SuspendThread
  <1>6. CASE Record(t)
    <2>. DEFINE pc == IF "nsexception" \in installed /\ ~at[t].recorded THEN "fill" ELSE "recorded"
    <2>1. at' = [at EXCEPT ![t].pc = pc, ![t].recorded = TRUE] /\ at[t].pc = "record" /\ pc \in {"fill", "recorded"}
      BY <1>6 DEF Record, At
    <2>. HIDE DEF pc
    <2>2. at'[t] = [[at[t] EXCEPT !.pc = pc] EXCEPT !.recorded = TRUE]
      BY <1>1, <2>1
    <2>. QED BY <1>1, <2>1, <2>2 DEF FrameType
  <1>7. CASE OnCrash(t)
    <2>1. at[t].pc = "report" /\ at'[t].pc \in {"writing", "written"}
      BY <1>1, <1>7, OnCrashWent
    <2>2. CASE \E file : at' = [at EXCEPT ![t].pc = "writing", ![t].file = file]
      <3>1. PICK file : at'[t] = [[at[t] EXCEPT !.pc = "writing"] EXCEPT !.file = file]
        BY <1>1, <2>2
      <3>. QED BY <1>1, <2>1, <3>1 DEF FrameType
    <2>3. CASE Goto(t, "written")
      BY <1>1, <2>1, <2>3, GotoKeeps DEF Stages
    <2>. QED BY <1>7, <2>2, <2>3 DEF OnCrash
  <1>8. CASE CloseReport(t)
    BY <1>1, <1>8, GotoKeeps DEF CloseReport, At, Stages
  <1>9. CASE Recorded(t)
    <2>1. at[t].pc = "recorded"
      BY <1>9 DEF Recorded, At
    <2>2. CASE at' = [at EXCEPT ![t].inTerminate = FALSE, ![t].pc = "enter"]
      <3>1. at'[t] = [[at[t] EXCEPT !.inTerminate = FALSE] EXCEPT !.pc = "enter"]
        BY <1>1, <2>2
      <3>. QED BY <1>1, <2>1, <3>1 DEF FrameType
    <2>3. CASE ~at[t].inTerminate /\ Goto(t, "finish")
      BY <1>1, <2>1, <2>3, GotoKeeps DEF Stages, FrameType
    <2>. QED BY <1>9, <2>2, <2>3 DEF Recorded
  <1>10. CASE Begin(t) \/ SwitchToSecondary(t) \/ Recrash(t) \/ Fill(t) \/ UninstallHandlers(t)
    BY <1>3, <1>10 DEF Begin, SwitchToSecondary, Recrash, Fill, UninstallHandlers, At
  <1>11. CASE ResumeThreads(t)
    <2>. DEFINE pc == IF threadsRun THEN Following(at[t].kind, "resume") ELSE "resuming"
                todo == Thread \ (gone \cup {t})
    <2>1. at' = [at EXCEPT ![t].todo = todo, ![t].pc = pc] /\ at[t].pc = "resume"
      BY <1>11 DEF ResumeThreads, At
    <2>. HIDE DEF pc, todo
    <2>2. at'[t] = [[at[t] EXCEPT !.todo = todo] EXCEPT !.pc = pc]
      BY <1>1, <2>1
    <2>3. at'[t].pc \notin {"app", "receiving", "trapped"}
      BY <1>1, <1>11, ResumeListWent
    <2>. QED BY <1>1, <2>1, <2>2, <2>3 DEF FrameType
  <1>12. CASE ResumeThread(t)
    <2>1. at[t].pc = "resuming"
      BY <1>12 DEF ResumeThread, At
    <2>2. CASE \E u \in at[t].todo : at' = [at EXCEPT ![t].todo = @ \ {u}]
      <3>1. PICK u \in at[t].todo : at'[t] = [at[t] EXCEPT !.todo = @ \ {u}]
        BY <1>1, <2>2
      <3>. QED BY <1>1, <2>1, <3>1 DEF FrameType
    <2>3. CASE Goto(t, Following(at[t].kind, "resume"))
      <3>1. "resume" \in StagesOf(at[t].kind)
        BY <1>1, <2>1, StageSets DEF All, AsyncSafe
      <3>2. /\ Following(at[t].kind, "resume") \in Stages
            /\ Following(at[t].kind, "resume") \notin {"app", "receiving", "trapped"}
        BY <1>1, <3>1, FollowingStage
      <3>. QED BY <1>1, <2>1, <2>3, <3>2, GotoKeeps
    <2>. QED BY <1>12, <2>2, <2>3 DEF ResumeThread
  <1>. QED BY <1>2, <1>4, <1>5, <1>6, <1>7, <1>8, <1>9, <1>10, <1>11, <1>12 DEF Step

-----------------------------------------------------------------------------
\* A single crash: its thread, or the one that has received it.

\* t handles a crash.
InHandler(t) == t \notin gone /\ at[t].pc \notin {"app", "receiving", "trapped"}

\* It has begun to, and has not written its report yet.
Begun(t) == at[t].pc \in {"suspend", "suspending", "secondary", "recrash", "fill", "report", "writing"}

\* What it finds: no crash that is being handled, until it uninstalls all, and
\* its handler; what it has to, unless it came too late; an NSException that
\* passes twice is recorded once; and there is a report when it is done.
FirstStage(t) ==
  /\ at[t].pc = "enter" =>
       /\ context.handling => at[t].kind = "signal" /\ "signal" \notin installed
       /\ at[t].kind \in {"signal", "nsexception"} \/ "signal" \in installed
       /\ at[t].kind = "nsexception" /\ at[t].recorded => Complete("standard") \/ "nsexception" \notin installed
  /\ at[t].pc \in {"begin", "recrash", "suspend", "suspending", "secondary", "record", "fill"} => ~at[t].was
  /\ at[t].kind # "nsexception" /\ (Begun(t) \/ at[t].pc \in {"begin", "written"}) => "signal" \in installed
  /\ at[t].kind # "nsexception" /\ (Begun(t) \/ at[t].pc = "written") => context.handling
  /\ at[t].pc \in {"resume", "resuming"} /\ at[t].kind # "nsexception" => "signal" \notin installed
  /\ at[t].pc = "finish" /\ context.handling => "signal" \notin installed
  /\ at[t].inTerminate => /\ ~context.handling /\ at[t].kind = "nsexception"
                          /\ at[t].pc \notin {"enter", "begin", "recrash", "finish"}
  /\ at[t].pc = "writing" => at[t].file = "standard"
  /\ at[t].pc \in {"written", "resume", "resuming", "reraise"} => Complete("standard")
  /\ at[t].pc = "record" /\ at[t].inTerminate => ~at[t].recorded
  /\ at[t].kind = "nsexception" /\ (at[t].pc \in {"begin", "recrash"} \/ (at[t].pc = "record" /\ ~at[t].inTerminate)) =>
       Complete("standard") \/ ("nsexception" \in installed /\ ~at[t].recorded)
  /\ at[t].pc = "recorded" => Complete("standard") \/ (at[t].inTerminate /\ "nsexception" \notin installed)

\* The reports, and the signal handler until there is one.
FirstReport ==
  /\ ~context.recrash /\ reports["minimal"] = Absent
  /\ ~Complete("standard") => "signal" \in installed /\ alive # "dead"

\* Nobody but a writer leaves a report incomplete.
Opened(f) == reports[f] # Absent /\ ~Complete(f)

FirstInv ==
  Len(faults) = 1 /\ inHandler = "none" =>
    /\ FirstReport
    /\ Opened("standard") => \E t \in Thread \ gone : at[t].pc = "writing"
    /\ inbox # {} => ~context.handling /\ "signal" \in installed
    /\ \A t \in Thread : InHandler(t) => FirstStage(t)

\* One step of that thread.
LEMMA FirstStageStep ==
  ASSUME TypeInv, NEW t \in Thread, Step(t), ~Receive(t), ~Finish(t), FirstStage(t), FirstReport,
         Opened("standard") => at[t].pc = "writing"
  PROVE  FirstStage(t)' /\ FirstReport' /\ (Opened("standard")' => at'[t].pc = "writing")
  <1>1. /\ TypeOK /\ StageInv /\ at[t].kind \in {"mach", "signal", "cpp", "nsexception"}
        /\ at[t].pc \in StagesOf(at[t].kind) /\ at[t].was \in BOOLEAN /\ at[t].recorded \in BOOLEAN
        /\ at[t].inTerminate \in BOOLEAN /\ context.handling \in BOOLEAN /\ context.recrash \in BOOLEAN
        /\ context \in ContextType
    BY DEF TypeInv, TypeOK, FrameType, ContextType, StageInv, All, AsyncSafe
  <1>2. ASSUME ~ReraiseSignal(t)
        PROVE  /\ at'[t].kind = at[t].kind
               /\ at'[t].was = IF at[t].pc = "enter" THEN context.handling ELSE at[t].was
               /\ at'[t].recorded = IF at[t].pc = "record" THEN TRUE ELSE at[t].recorded
               /\ at'[t].inTerminate = IF at[t].pc = "recorded" THEN FALSE ELSE at[t].inTerminate
               /\ at[t].pc # "report" => at'[t].file = at[t].file
    BY <1>2, StepFields, StepWent DEF Went
  <1>3. ~OnCrash(t) /\ ~CloseReport(t) => UNCHANGED reports
    BY ReportsKept
  <1>4. ASSUME UNCHANGED <<installed, alive, context, reports>>
        PROVE  /\ FirstReport' /\ Complete("standard")' = Complete("standard")
               /\ Opened("standard")' = Opened("standard")
    BY <1>4 DEF FirstReport, Complete, Opened
  <1>5. CASE Enter(t)
    <2>1. /\ at[t].pc = "enter" /\ UNCHANGED <<installed, alive, context, reports>>
          /\ at'[t].pc \in {"begin", "reraise", "finish"}
          /\ at'[t].pc = "begin" => at[t].kind \in installed \cup {"cpp"}
          /\ at'[t].pc = "reraise" => at[t].kind = "signal" /\ "signal" \notin installed
          /\ at'[t].pc = "finish" => at[t].kind # "signal"
      <3>1. at'[t].pc = CASE at[t].kind \in installed \cup {"cpp"} -> "begin"
                          [] at[t].kind = "signal" /\ "signal" \notin installed -> "reraise"
                          [] OTHER -> "finish"
        BY <1>1, <1>5 DEF Enter, TypeOK, FrameType
      <3>. QED BY <1>1, <1>5, <3>1 DEF Enter, At
    <2>2. ~ReraiseSignal(t)
      BY <2>1 DEF ReraiseSignal, At
    <2>. QED BY <1>1, <1>2, <1>4, <2>1, <2>2 DEF FirstStage, Begun, FirstReport
  <1>6. CASE Begin(t)
    <2>1. /\ at[t].pc = "begin" /\ context' = [Cleared EXCEPT !.handling = TRUE]
          /\ UNCHANGED <<installed, alive, reports>> /\ at'[t].pc = Following(at[t].kind, "begin")
      BY <1>1, <1>6, StageWent DEF Begin, At, Went
    <2>2. context'.handling /\ ~context'.recrash
      BY <2>1 DEF Cleared
    <2>3. ~ReraiseSignal(t)
      BY <2>1 DEF ReraiseSignal, At
    <2>4. IF at[t].kind \in {"mach", "signal"} THEN at'[t].pc = "suspend" ELSE at'[t].pc = "recrash"
      BY <1>1, <2>1, FollowingTable
    <2>5. FirstReport' /\ Complete("standard")' = Complete("standard") /\ ~Opened("standard") /\ ~Opened("standard")'
      BY <2>1, <2>2 DEF FirstReport, Complete, Opened
    <2>. QED BY <1>1, <1>2, <2>1, <2>2, <2>3, <2>4, <2>5 DEF FirstStage, Begun, FirstReport
  <1>7. CASE ListThreads(t) \/ SuspendThread(t)
    <2>1. /\ at[t].pc \in {"suspend", "suspending"} /\ at'[t].pc \in {"suspending", Following(at[t].kind, "suspend")}
          /\ UNCHANGED <<installed, alive, context, reports>>
      BY <1>1, <1>7, ListWent, SuspendWent DEF ListThreads, SuspendThread, Went
    <2>2. ~ReraiseSignal(t)
      BY <2>1 DEF ReraiseSignal, At
    <2>3. /\ at'[t].pc \in {"suspending", "secondary", "recrash", "fill", "report"}
          /\ at'[t].pc = "recrash" => at[t].kind = "signal"
      BY <1>1, <2>1, FollowingTable
    <2>. QED BY <1>1, <1>2, <1>4, <2>1, <2>2, <2>3 DEF FirstStage, Begun, FirstReport
  <1>8. CASE SwitchToSecondary(t)
    <2>1. /\ at[t].pc = "secondary" /\ UNCHANGED <<installed, alive, context, reports>>
          /\ at'[t].pc = Following(at[t].kind, "secondary")
      BY <1>1, <1>8, StageWent DEF SwitchToSecondary, At, Went
    <2>2. at[t].kind = "mach" /\ at'[t].pc = "recrash"
      BY <1>1, <2>1, FollowingTable, StageSets
    <2>3. ~ReraiseSignal(t)
      BY <2>1 DEF ReraiseSignal, At
    <2>. QED BY <1>1, <1>2, <1>4, <2>1, <2>2, <2>3 DEF FirstStage, Begun, FirstReport
  <1>9. CASE Recrash(t)
    <2>1. at[t].pc = "recrash" /\ ~at[t].was
      BY <1>9 DEF Recrash, At, FirstStage
    <2>2. /\ UNCHANGED <<installed, alive, context, reports>>
          /\ at'[t].pc = Following(at[t].kind, "recrash")
      BY <1>1, <1>9, <2>1, StageWent DEF Recrash, Went
    <2>3. /\ at[t].kind \in {"mach", "signal"} => at'[t].pc = "fill"
          /\ at[t].kind = "cpp" => at'[t].pc = "suspend"
          /\ at[t].kind = "nsexception" => at'[t].pc = "record"
      BY <1>1, <2>2, FollowingTable
    <2>4. ~ReraiseSignal(t)
      BY <2>1 DEF ReraiseSignal, At
    <2>. QED BY <1>1, <1>2, <1>4, <2>1, <2>2, <2>3, <2>4 DEF FirstStage, Begun, FirstReport
  <1>10. CASE Record(t)
    <2>1. /\ at[t].pc = "record" /\ UNCHANGED <<installed, alive, context, reports>> /\ at[t].kind = "nsexception"
          /\ at'[t].pc = IF "nsexception" \in installed /\ ~at[t].recorded THEN "fill" ELSE "recorded"
      <3>1. at'[t].pc = IF "nsexception" \in installed /\ ~at[t].recorded THEN "fill" ELSE "recorded"
        BY <1>1, <1>10 DEF Record, TypeOK, FrameType
      <3>. QED BY <1>1, <1>10, <3>1, RecordWent DEF Record
    <2>2. ~ReraiseSignal(t)
      BY <2>1 DEF ReraiseSignal, At
    <2>. QED BY <1>1, <1>2, <1>4, <2>1, <2>2 DEF FirstStage, Begun, FirstReport
  <1>11. CASE Fill(t)
    <2>1. /\ at[t].pc = "fill" /\ UNCHANGED <<installed, alive, reports>>
          /\ at'[t].pc = Following(at[t].kind, "fill")
      BY <1>1, <1>11, StageWent DEF Fill, At, Went
    <2>2. context'.handling = context.handling /\ context'.recrash = context.recrash
      BY <1>1, <1>11 DEF Fill, ContextType
    <2>3. /\ at[t].kind = "nsexception" => at'[t].pc = "suspend"
          /\ at[t].kind # "nsexception" => at'[t].pc = "report"
      BY <1>1, <2>1, FollowingTable
    <2>4. ~ReraiseSignal(t)
      BY <2>1 DEF ReraiseSignal, At
    <2>5. FirstReport' /\ Complete("standard")' = Complete("standard") /\ ~Opened("standard") /\ ~Opened("standard")'
      BY <2>1, <2>2 DEF FirstReport, Complete, Opened
    <2>. QED BY <1>1, <1>2, <2>1, <2>2, <2>3, <2>4, <2>5 DEF FirstStage, Begun, FirstReport
  <1>12. CASE OnCrash(t)
    <2>1. /\ at[t].pc = "report" /\ UNCHANGED <<installed, alive, context>> /\ FileOf(context.recrash) = "standard"
      BY <1>1, <1>12 DEF OnCrash, At, FirstReport, FileOf
    <2>2. /\ Complete("standard")' <=> Complete("standard")
          /\ reports'["minimal"] = reports["minimal"]
          /\ \/ reports["standard"] # Absent /\ at'[t].pc = "written"
             \/ at'[t].pc = "writing" /\ at'[t].file = "standard"
      BY <1>12, <2>1, OnCrashOpens
    <2>3. at'[t].pc = "written" => Complete("standard")
      BY <2>1, <2>2 DEF Opened
    <2>4. ~ReraiseSignal(t)
      BY <2>1 DEF ReraiseSignal, At
    <2>5. FirstReport' /\ (Opened("standard")' => at'[t].pc = "writing")
      BY <2>1, <2>2, <2>3 DEF FirstReport, Opened
    <2>. QED BY <1>1, <1>2, <2>1, <2>2, <2>3, <2>4, <2>5 DEF FirstStage, Begun, FirstReport
  <1>13. CASE CloseReport(t)
    <2>1. /\ at[t].pc = "writing" /\ UNCHANGED <<installed, alive, context>> /\ at[t].file = "standard"
          /\ at'[t].pc = "written"
      BY <1>13, CloseReportCompletes DEF CloseReport, At, FirstStage
    <2>2. Complete("standard")' /\ reports'["minimal"] = reports["minimal"]
      BY <1>13, <2>1, CloseReportCompletes
    <2>3. ~ReraiseSignal(t)
      BY <2>1 DEF ReraiseSignal, At
    <2>4. FirstReport' /\ ~Opened("standard")'
      BY <2>1, <2>2 DEF FirstReport, Opened
    <2>. QED BY <1>1, <1>2, <2>1, <2>2, <2>3, <2>4 DEF FirstStage, Begun, FirstReport
  <1>14. CASE UninstallHandlers(t)
    <2>1. /\ at[t].pc = "written" /\ UNCHANGED <<alive, context, reports>> /\ Complete("standard")
          /\ at'[t].pc = Following(at[t].kind, "written")
          /\ IF at[t].kind = "nsexception" THEN UNCHANGED installed ELSE installed' = installed \ TypesOf(at[t].kind)
      BY <1>1, <1>14, StageWent DEF UninstallHandlers, At, Went, FirstStage, Uninstall
    <2>2. at'[t].pc = "resume" /\ "signal" \in TypesOf(at[t].kind)
      BY <1>1, <2>1, FollowingTable DEF TypesOf, All, AsyncSafe
    <2>3. ~ReraiseSignal(t)
      BY <2>1 DEF ReraiseSignal, At
    <2>4. FirstReport' /\ Complete("standard")' /\ ~Opened("standard")'
      BY <2>1 DEF FirstReport, Opened, Complete
    <2>. QED BY <1>1, <1>2, <2>1, <2>2, <2>3, <2>4 DEF FirstStage, Begun, FirstReport
  <1>15. CASE ResumeThreads(t) \/ ResumeThread(t)
    <2>1. /\ at[t].pc \in {"resume", "resuming"} /\ UNCHANGED <<installed, alive, context, reports>>
          /\ at'[t].pc \in {"resuming", Following(at[t].kind, "resume")}
      BY <1>1, <1>15, ResumeListWent, ResumeWent DEF ResumeThreads, ResumeThread, Went
    <2>2. \/ at'[t].pc = "resuming"
          \/ at[t].kind \in {"mach", "cpp"} /\ at'[t].pc = "finish"
          \/ at[t].kind = "signal" /\ at'[t].pc = "reraise"
          \/ at[t].kind = "nsexception" /\ at'[t].pc = "recorded"
      BY <1>1, <2>1, FollowingTable
    <2>3. ~ReraiseSignal(t)
      BY <2>1 DEF ReraiseSignal, At
    <2>. QED BY <1>1, <1>2, <1>4, <2>1, <2>2, <2>3 DEF FirstStage, Begun, FirstReport
  <1>16. CASE Recorded(t)
    <2>1. /\ at[t].pc = "recorded" /\ at[t].kind = "nsexception" /\ UNCHANGED <<alive, context, reports>>
          /\ Complete("standard") \/ (at[t].inTerminate /\ "nsexception" \notin installed)
      BY <1>1, <1>16, RecordedWent DEF Recorded, FirstStage
    <2>2. ~ReraiseSignal(t)
      BY <2>1 DEF ReraiseSignal, At
    <2>3. Complete("standard")' = Complete("standard") /\ Opened("standard")' = Opened("standard")
      BY <2>1 DEF Complete, Opened
    <2>4. CASE at[t].inTerminate
      <3>1. UNCHANGED installed /\ at'[t].pc = "enter"
        BY <1>1, <1>16, <2>4 DEF Recorded, TypeOK, FrameType
      <3>. QED BY <1>1, <1>2, <1>4, <2>1, <2>2, <2>3, <2>4, <3>1 DEF FirstStage, Begun, FirstReport
    <2>5. CASE ~at[t].inTerminate
      <3>1. installed' = installed \ All /\ at'[t].pc = "finish" /\ Complete("standard")
        BY <1>1, <1>16, <2>1, <2>5, GotoKeeps DEF Recorded, Uninstall, Stages
      <3>2. "signal" \notin installed' /\ FirstReport' /\ ~Opened("standard")'
        BY <2>1, <2>3, <3>1 DEF FirstReport, Opened, All, AsyncSafe
      <3>. QED BY <1>1, <1>2, <2>1, <2>2, <2>3, <2>5, <3>1, <3>2 DEF FirstStage, Begun, FirstReport
    <2>. QED BY <2>4, <2>5
  <1>17. CASE ReraiseSignal(t)
    <2>1. at[t].pc = "reraise" /\ Complete("standard") /\ UNCHANGED <<installed, context, reports, at>>
      BY <1>17 DEF ReraiseSignal, At, FirstStage
    <2>2. Complete("standard")' /\ FirstReport' /\ ~Opened("standard")'
      BY <2>1 DEF FirstReport, Complete, Opened
    <2>. QED BY <2>1, <2>2 DEF FirstStage, Begun
  <1>. QED BY <1>5, <1>6, <1>7, <1>8, <1>9, <1>10, <1>11, <1>12, <1>13, <1>14, <1>15, <1>16, <1>17 DEF Step

\* Frames of a received exception, and of the signal after one.
LEMMA ReceiveFields ==
  ASSUME TypeInv, NEW h \in Thread, Receive(h)
  PROVE  \E u \in inbox : /\ inbox' = inbox \ {u} /\ at'[h].of = u
                          /\ at'[h].pc = "enter" /\ at'[h].kind = "mach" /\ ~at'[h].inTerminate /\ ~at'[h].was
  <1>1. PICK u \in inbox : inbox' = inbox \ {u} /\ at' = [at EXCEPT ![h] = Frame("enter", "mach", u)]
    BY DEF Receive
  <1>2. at'[h] = Frame("enter", "mach", u)
    BY <1>1 DEF TypeInv, TypeOK
  <1>. QED BY <1>1, <1>2 DEF Frame

\* Who is done goes on to raise SIGABRT in the thread that crashed, which enters
\* the signal handler and handles no crash yet.
LEMMA FinishFields ==
  ASSUME TypeInv, NEW t \in Thread, Finish(t)
  PROVE  \E stopped \in Thread :
           /\ stopped = IF at[t].kind = "mach" THEN at[t].of ELSE t
           /\ \A u \in Thread \ {stopped} : at'[u] = at[u]
           /\ at'[stopped].pc = "enter" /\ at'[stopped].kind = "signal" /\ at'[stopped].of = stopped
           /\ ~at'[stopped].inTerminate /\ ~at'[stopped].was
  <1>. DEFINE stopped == IF at[t].kind = "mach" THEN at[t].of ELSE t
  <1>1. at \in [Thread -> FrameType] /\ stopped \in Thread
    BY DEF TypeInv, TypeOK, FrameType
  <1>2. at' = [at EXCEPT ![stopped] = Frame("enter", "signal", stopped)]
    BY DEF Finish
  <1>3. stopped = IF at[t].kind = "mach" THEN at[t].of ELSE t
    OBVIOUS
  <1>. HIDE DEF stopped
  <1>4. at'[stopped] = Frame("enter", "signal", stopped) /\ \A u \in Thread \ {stopped} : at'[u] = at[u]
    BY <1>1, <1>2
  <1>. QED BY <1>1, <1>3, <1>4 DEF Frame

\* Who takes a step in a single crash is the only one in a handler, and hands
\* it on to one at most.
LEMMA OnlyHandler ==
  ASSUME TypeInv, SingleInv, Len(faults) = 1, NEW t \in Thread, Step(t)
  PROVE  /\ inbox' = {}
         /\ ~Receive(t) => inbox = {} /\ InHandler(t) /\ \A u \in Thread : InHandler(u) => u = t
         /\ Receive(t) => \A u \in Thread : ~InHandler(u)
         /\ ~Finish(t) => \A u \in Thread : InHandler(u)' => u = t
         /\ \A u \in Thread \ {t} : InHandler(u)' => Finish(t) /\ at[t].kind = "mach" /\ u = at[t].of
         /\ Finish(t) => \A u \in Thread : InHandler(u)' => u = IF at[t].kind = "mach" THEN at[t].of ELSE t
  <1>1. /\ TypeOK /\ StageInv /\ t \notin gone /\ gone \subseteq gone'
        /\ \A u, w \in Thread : Busy(u) /\ Busy(w) => u = w
        /\ \A u \in inbox : at[u].pc = "trapped" /\ u \in Thread /\ Busy(u)
    BY StepFaults, StepGone DEF TypeInv, SingleInv, Runs, TypeOK, Busy
  <1>2. \A u \in Thread : InHandler(u) => Busy(u)
    BY DEF InHandler, Busy
  <1>3. CASE Receive(t)
    <2>1. PICK u \in inbox : inbox' = inbox \ {u}
      BY <1>3, ReceiveFields
    <2>2. inbox' = {} /\ \A w \in Thread : ~InHandler(w)
      BY <1>1, <1>2, <2>1 DEF InHandler
    <2>3. /\ \A w \in Thread \ {t} : at'[w] = at[w] 
          /\ at[t].pc = "receiving"
      BY <1>1, <1>3, ReceiveWent
    <2>4. \A w \in Thread : InHandler(w)' => w = t
      BY <1>1, <2>2, <2>3 DEF InHandler
    <2>5. ~Finish(t)
      BY <2>3 DEF Finish, At
    <2>. QED BY <1>3, <2>2, <2>4, <2>5
  <1>4. CASE ~Receive(t)
    <2>1. InHandler(t) /\ inbox' = inbox /\ inbox = {}
      <3>1. inbox' = inbox /\ at[t].pc \notin {"app", "receiving", "trapped"}
        <4>1. CASE Finish(t) \/ ReraiseSignal(t)
          BY <4>1 DEF Finish, ReraiseSignal, At
        <4>. QED BY <1>4, <4>1, StepWent
      <3>. QED BY <1>1, <3>1 DEF InHandler, Busy
    <2>2. \A u \in Thread : InHandler(u) => u = t
      BY <1>1, <1>2, <2>1
    <2>3. CASE Finish(t)
      <3>1. PICK stopped \in Thread : /\ stopped = IF at[t].kind = "mach" THEN at[t].of ELSE t
                                      /\ \A u \in Thread \ {stopped} : at'[u] = at[u]
        BY <2>3, FinishFields
      <3>2. ASSUME NEW u \in Thread, InHandler(u)', u # stopped
            PROVE  FALSE
        <4>1. InHandler(u) /\ u = t
          BY <1>1, <2>2, <3>1, <3>2 DEF InHandler
        <4>2. at[t].kind = "mach" /\ gone' = gone \cup {t}
          BY <2>3, <3>1, <3>2, <4>1 DEF Finish
        <4>. QED BY <3>2, <4>1, <4>2 DEF InHandler
      <3>. QED BY <1>4, <2>1, <2>2, <2>3, <3>1, <3>2
    <2>4. CASE ~Finish(t)
      <3>1. \A u \in Thread \ {t} : at'[u] = at[u]
        <4>1. CASE ReraiseSignal(t)
          BY <4>1 DEF ReraiseSignal
        <4>. QED BY <1>4, <2>4, <4>1, StepWent DEF Went
      <3>2. \A u \in Thread : InHandler(u)' => u = t
        BY <1>1, <2>2, <3>1 DEF InHandler
      <3>. QED BY <1>4, <2>1, <2>2, <2>4, <3>2
    <2>. QED BY <2>3, <2>4
  <1>. QED BY <1>3, <1>4

\* Before the first crash.
QuietInv ==
  faults = <<>> =>
    /\ alive # "dead" /\ inHandler = "none" /\ "signal" \in installed
    /\ ~context.handling /\ ~context.recrash /\ \A f \in {"standard", "minimal"} : reports[f] = Absent

\* Nothing happens then.
LEMMA QuietNext ==
  ASSUME TypeInv, SingleInv, QuietInv, [Next]_vars
  PROVE  QuietInv'
  <1>1. ASSUME NEW t \in Thread, NEW kind \in All, Fault(t, kind)
        PROVE  QuietInv'
    <2>1. faults \in Seq(All) /\ faults' = Append(faults, kind)
      BY <1>1 DEF TypeInv, TypeOK, Fault
    <2>2. faults' # <<>>
      BY <2>1
    <2>. QED BY <2>2 DEF QuietInv
  <1>2. ASSUME NEW t \in Thread, NEW kind \in AsyncSafe, HandlerFault(t, kind)
        PROVE  QuietInv'
    <2>1. Busy(t) /\ faults' = faults
      BY <1>2 DEF HandlerFault, At, Runs, Busy
    <2>. QED BY <2>1 DEF SingleInv, QuietInv
  <1>3. ASSUME NEW t \in Thread, Step(t)
        PROVE  QuietInv'
    <2>1. faults' = faults /\ faults # <<>>
      BY <1>3, StepFaults, StepBusy DEF SingleInv
    <2>. QED BY <2>1 DEF QuietInv
  <1>4. CASE Kill \/ UNCHANGED vars
    BY <1>4 DEF Kill, vars, QuietInv
  <1>. QED BY <1>1, <1>2, <1>3, <1>4 DEF Next, Done

\* The single crash from the fault to the end.
LEMMA FirstNext ==
  ASSUME TypeInv, SingleInv, QuietInv, FirstInv, [Next]_vars
  PROVE  FirstInv'
  <1>. SUFFICES ASSUME Len(faults') = 1, inHandler' = "none"
                PROVE  /\ FirstReport'
                       /\ Opened("standard")' => \E t \in Thread \ gone' : at'[t].pc = "writing"
                       /\ inbox' # {} => ~context'.handling /\ "signal" \in installed'
                       /\ \A t \in Thread : InHandler(t)' => FirstStage(t)'
    BY DEF FirstInv
  <1>. DEFINE Goal == /\ FirstReport'
                      /\ Opened("standard")' => \E t \in Thread \ gone' : at'[t].pc = "writing"
                      /\ inbox' # {} => ~context'.handling /\ "signal" \in installed'
                      /\ \A t \in Thread : InHandler(t)' => FirstStage(t)'
  <1>1. ASSUME NEW t \in Thread, NEW kind \in All, Fault(t, kind)
        PROVE  Goal
    <2>1. faults \in Seq(All) /\ faults' = Append(faults, kind) /\ TypeOK /\ Raise(t, kind)
      BY <1>1 DEF TypeInv, TypeOK, Fault
    <2>2. faults = <<>>
      BY <2>1
    <2>3. /\ UNCHANGED <<alive, installed, context, reports, gone>> /\ \A u \in Thread : ~Busy(u)
          /\ alive # "dead" /\ "signal" \in installed /\ ~context.handling /\ ~context.recrash
          /\ \A f \in {"standard", "minimal"} : reports[f] = Absent
      BY <1>1, <2>2 DEF Fault, SingleInv, QuietInv
    <2>4. FirstReport' /\ ~Opened("standard")'
      BY <2>3 DEF FirstReport, Opened
    <2>5. /\ \A u \in Thread \ {t} : at'[u] = at[u]
          /\ at'[t].pc \in {"trapped", "enter", "record"} /\ ~at'[t].recorded
          /\ (at'[t].inTerminate <=> at'[t].pc = "record")
          /\ (at'[t].pc = "record" => at'[t].kind = "nsexception") /\ ~at'[t].was
      BY <2>1, RaiseWent, RaiseFields
    <2>6. \A u \in Thread : InHandler(u)' => u = t
      BY <2>3, <2>5 DEF InHandler, Busy
    <2>7. InHandler(t)' => FirstStage(t)'
      BY <2>3, <2>5 DEF InHandler, FirstStage, Begun
    <2>. QED BY <2>3, <2>4, <2>6, <2>7
  <1>2. ASSUME NEW t \in Thread, NEW kind \in AsyncSafe, HandlerFault(t, kind)
        PROVE  FALSE
    BY <1>2 DEF HandlerFault, TypeInv, TypeOK, FrameType, All, AsyncSafe
  <1>3. ASSUME NEW t \in Thread, Step(t)
        PROVE  Goal
    <2>1. /\ Len(faults) = 1 /\ inHandler = "none" /\ t \notin gone /\ gone \subseteq gone' /\ TypeOK /\ StageInv
      <3>1. inHandler' = inHandler
        BY <1>3 DEF Step, Receive, Enter, Begin, ListThreads, SuspendThread, SwitchToSecondary, Recrash, Record, Fill,
           OnCrash, CloseReport, UninstallHandlers, ResumeThreads, ResumeThread, Recorded, ReraiseSignal, Finish
      <3>. QED BY <1>3, <3>1, StepFaults, StepGone DEF Runs, TypeInv
    <2>2. /\ FirstReport
          /\ Opened("standard") => \E u \in Thread \ gone : at[u].pc = "writing"
          /\ inbox # {} => ~context.handling /\ "signal" \in installed
          /\ \A u \in Thread : InHandler(u) => FirstStage(u)
      BY <2>1 DEF FirstInv
    <2>3. inbox' = {}
      BY <1>3, <2>1, OnlyHandler
    <2>4. CASE Receive(t)
      <3>1. UNCHANGED <<alive, installed, context, reports, gone>> /\ inbox # {}
        BY <2>4 DEF Receive
      <3>2. /\ \A u \in Thread : ~InHandler(u)
            /\ \A u \in Thread : InHandler(u)' => u = t
        BY <1>3, <2>1, <2>4, OnlyHandler DEF Receive, Finish, At
      <3>3. ~Opened("standard")
        BY <2>2, <3>2 DEF InHandler
      <3>4. at'[t].pc = "enter" /\ at'[t].kind = "mach" /\ ~at'[t].inTerminate
        BY <2>4, ReceiveFields
      <3>5. FirstStage(t)'
        BY <2>2, <3>1, <3>4 DEF FirstStage, Begun
      <3>6. FirstReport' /\ ~Opened("standard")'
        BY <2>2, <3>1, <3>3 DEF FirstReport, Opened, Complete
      <3>. QED BY <2>3, <3>2, <3>5, <3>6
    <2>5. CASE Finish(t)
      <3>1. UNCHANGED <<alive, installed, context, reports>> /\ at[t].pc = "finish"
        BY <2>5 DEF Finish, At
      <3>2. /\ InHandler(t) /\ \A u \in Thread : InHandler(u) => u = t
            /\ \A u \in Thread : InHandler(u)' => u = IF at[t].kind = "mach" THEN at[t].of ELSE t
        BY <1>3, <2>1, <2>5, <3>1, OnlyHandler DEF Receive, At
      <3>3. ~Opened("standard")
        <4>1. ASSUME NEW u \in Thread \ gone, at[u].pc = "writing"
              PROVE  FALSE
          BY <3>1, <3>2, <4>1 DEF InHandler
        <4>. QED BY <2>2, <4>1
      <3>4. PICK stopped \in Thread :
              /\ stopped = IF at[t].kind = "mach" THEN at[t].of ELSE t
              /\ at'[stopped].pc = "enter" /\ at'[stopped].kind = "signal" /\ ~at'[stopped].inTerminate
        BY <2>5, FinishFields
      <3>5. FirstStage(stopped)'
        BY <2>2, <3>1, <3>2, <3>4 DEF FirstStage, Begun
      <3>6. FirstReport' /\ ~Opened("standard")'
        BY <2>2, <3>1, <3>3 DEF FirstReport, Opened, Complete
      <3>. QED BY <2>3, <3>2, <3>4, <3>5, <3>6
    <2>6. CASE ~Receive(t) /\ ~Finish(t)
      <3>1. /\ InHandler(t) /\ \A u \in Thread : InHandler(u) => u = t
            /\ \A u \in Thread : InHandler(u)' => u = t
        BY <1>3, <2>1, <2>6, OnlyHandler
      <3>2. FirstStage(t) /\ (Opened("standard") => at[t].pc = "writing")
        BY <2>2, <3>1 DEF InHandler
      <3>3. FirstStage(t)' /\ FirstReport' /\ (Opened("standard")' => at'[t].pc = "writing")
        BY <1>3, <2>2, <2>6, <3>2, FirstStageStep
      <3>4. Opened("standard")' => t \notin gone'
        <4>1. CASE UNCHANGED gone
          BY <2>1, <4>1
        <4>2. CASE Recrash(t) \/ UninstallHandlers(t) \/ Recorded(t)
          BY <2>1, <4>2, Uninstalled DEF Recrash, UninstallHandlers, Recorded
        <4>. QED BY <1>3, <2>6, <4>1, <4>2
                 DEF Step, Enter, Begin, ListThreads, SuspendThread, SwitchToSecondary, Record, Fill,
                     OnCrash, CloseReport, ResumeThreads, ResumeThread, ReraiseSignal
      <3>. QED BY <2>3, <3>1, <3>3, <3>4
    <2>. QED BY <2>4, <2>5, <2>6
  <1>4. ASSUME Kill \/ UNCHANGED vars
        PROVE  Goal
    <2>1. UNCHANGED <<installed, context, reports, gone, at, inbox, faults, inHandler>> /\ (alive' = alive \/ alive' = "killed")
      BY <1>4 DEF Kill, vars
    <2>2. /\ FirstReport
          /\ Opened("standard") => \E u \in Thread \ gone : at[u].pc = "writing"
          /\ inbox # {} => ~context.handling /\ "signal" \in installed
          /\ \A u \in Thread : InHandler(u) => FirstStage(u)
      BY <2>1 DEF FirstInv
    <2>. QED BY <2>1, <2>2 DEF FirstReport, Opened, Complete, InHandler, FirstStage, Begun
  <1>. QED BY <1>1, <1>2, <1>3, <1>4 DEF Next, Done

\* The handlers of signals and Mach exceptions are uninstalled together, and
\* with the second its threads.
InstalledInv ==
  /\ "mach" \in installed => "signal" \in installed
  /\ "mach" \notin installed /\ "signal" \in installed => Handlers \subseteq gone

\* Uninstalling takes both.
LEMMA UninstallBoth ==
  ASSUME InstalledInv, NEW t \in Thread, NEW types \in {AsyncSafe, All}, Uninstall(types, t)
  PROVE  InstalledInv'
  <1>1. {"mach", "signal"} \subseteq types /\ installed' = installed \ types
    BY DEF Uninstall, All, AsyncSafe
  <1>. QED BY <1>1 DEF InstalledInv

\* Only uninstalling changes what is installed, and no thread that has ended
\* comes back.
LEMMA InstalledNext ==
  ASSUME TypeInv, InstalledInv, [Next]_vars
  PROVE  InstalledInv'
  <1>1. ASSUME NEW t \in Thread, Step(t)
        PROVE  InstalledInv'
    <2>1. CASE Recrash(t) \/ UninstallHandlers(t) \/ Recorded(t)
      <3>1. TypesOf(at[t].kind) \in {AsyncSafe, All}
        BY DEF TypesOf
      <3>2. \/ \E types \in {AsyncSafe, All} : Uninstall(types, t)
            \/ UNCHANGED <<installed, gone>>
        BY <2>1, <3>1 DEF Recrash, UninstallHandlers, Recorded
      <3>. QED BY <3>2, UninstallBoth DEF InstalledInv
    <2>2. CASE ~(Recrash(t) \/ UninstallHandlers(t) \/ Recorded(t))
      <3>1. UNCHANGED installed
        BY <1>1, <2>2 DEF Step, Receive, Enter, Begin, ListThreads, SuspendThread, SwitchToSecondary, Record, Fill,
                          OnCrash, CloseReport, ResumeThreads, ResumeThread, ReraiseSignal, Finish
      <3>2. gone \subseteq gone'
        BY <1>1, StepGone
      <3>. QED BY <3>1, <3>2 DEF InstalledInv
    <2>. QED BY <2>1, <2>2
  <1>2. CASE UNCHANGED <<installed, gone>>
    BY <1>2 DEF InstalledInv
  <1>. QED BY <1>1, <1>2 DEF Next, Done, Fault, HandlerFault, Kill, vars

-----------------------------------------------------------------------------
\* A crash of the handler of a single crash: it finds all handlers installed,
\* is recognized as one, and goes to the minimal report.

SecondStage(t) ==
  /\ Begun(t) \/ at[t].pc \in {"enter", "begin"}
  /\ at[t].kind \in {"mach", "signal"}
  /\ at[t].pc \in {"enter", "begin", "suspend", "suspending", "secondary", "recrash"} => "signal" \in installed
  /\ at[t].pc \in {"begin", "suspend", "suspending", "secondary", "recrash"} => at[t].was
  /\ at[t].pc \in {"fill", "report"} => context.recrash
  /\ at[t].pc = "writing" => at[t].file = "minimal"

SecondInv ==
  Len(faults) = 1 /\ inHandler \notin {"none", "nsexception"} /\ ~Complete("minimal") =>
    /\ alive # "dead" /\ context.handling
    /\ reports["minimal"] # Absent => \E t \in Thread \ gone : at[t].pc = "writing"
    /\ inbox # {} => "signal" \in installed
    /\ \A t \in Thread : InHandler(t) => SecondStage(t)

\* One step of its thread.
LEMMA SecondStageStep ==
  ASSUME TypeInv, InstalledInv, NEW t \in Thread, Step(t), ~Receive(t), SecondStage(t),
         context.handling, Opened("minimal") => at[t].pc = "writing", ~Complete("minimal")'
  PROVE  /\ SecondStage(t)' /\ context'.handling /\ (Opened("minimal")' => at'[t].pc = "writing") /\ UNCHANGED alive
         /\ ~Finish(t)
  <1>1. /\ TypeOK /\ StageInv /\ at[t].kind \in {"mach", "signal"} /\ t \notin gone
        /\ at[t].pc \in StagesOf(at[t].kind) /\ at[t].was \in BOOLEAN /\ context \in ContextType
        /\ Begun(t) \/ at[t].pc \in {"enter", "begin"}
    BY StepFaults DEF TypeInv, TypeOK, FrameType, StageInv, SecondStage, Runs
  <1>2. ~Finish(t) /\ ~ReraiseSignal(t)
    BY <1>1 DEF Finish, ReraiseSignal, At, Begun
  <1>3. /\ at'[t].kind = at[t].kind
        /\ at'[t].was = IF at[t].pc = "enter" THEN context.handling ELSE at[t].was
        /\ at[t].pc # "report" => at'[t].file = at[t].file
    BY <1>2, StepFields, StepWent DEF Went
  <1>4. ~OnCrash(t) /\ ~CloseReport(t) => UNCHANGED reports
    BY ReportsKept
  <1>5. CASE Enter(t)
    <2>1. /\ at[t].pc = "enter" /\ UNCHANGED <<installed, alive, context, reports>>
          /\ at'[t].pc = CASE at[t].kind \in installed \cup {"cpp"} -> "begin"
                            [] at[t].kind = "signal" /\ "signal" \notin installed -> "reraise"
                            [] OTHER -> "finish"
      BY <1>1, <1>5 DEF Enter, At, TypeOK, FrameType
    <2>2. "signal" \in installed
      BY <2>1 DEF SecondStage
    <2>3. at[t].kind = "mach" => t \in Handlers
      BY <1>1, <2>1 DEF StageInv, Thread
    <2>4. at[t].kind \in installed
      BY <1>1, <2>2, <2>3 DEF InstalledInv
    <2>5. at'[t].pc = "begin" /\ (Opened("minimal")' <=> Opened("minimal"))
      BY <2>1, <2>4 DEF Opened, Complete
    <2>. QED BY <1>1, <1>2, <1>3, <2>1, <2>2, <2>5 DEF SecondStage, Begun
  <1>6. CASE Begin(t)
    <2>1. /\ at[t].pc = "begin" /\ context' = [Cleared EXCEPT !.handling = TRUE]
          /\ UNCHANGED <<installed, alive, reports>> /\ at'[t].pc = Following(at[t].kind, "begin")
      BY <1>1, <1>6, StageWent DEF Begin, At, Went
    <2>2. context'.handling /\ at'[t].pc = "suspend" /\ (Opened("minimal")' <=> Opened("minimal"))
      BY <1>1, <2>1, FollowingTable DEF Cleared, Opened, Complete
    <2>. QED BY <1>1, <1>2, <1>3, <2>1, <2>2 DEF SecondStage, Begun
  <1>7. CASE ListThreads(t) \/ SuspendThread(t)
    <2>1. /\ at[t].pc \in {"suspend", "suspending"} /\ at'[t].pc \in {"suspending", Following(at[t].kind, "suspend")}
          /\ UNCHANGED <<installed, alive, context, reports>>
      BY <1>1, <1>7, ListWent, SuspendWent DEF ListThreads, SuspendThread, Went
    <2>2. at'[t].pc \in {"suspending", "secondary", "recrash"} /\ (Opened("minimal")' <=> Opened("minimal"))
      BY <1>1, <2>1, FollowingTable DEF Opened, Complete
    <2>. QED BY <1>1, <1>2, <1>3, <2>1, <2>2 DEF SecondStage, Begun
  <1>8. CASE SwitchToSecondary(t)
    <2>1. /\ at[t].pc = "secondary" /\ UNCHANGED <<installed, alive, context, reports>>
          /\ at'[t].pc = Following(at[t].kind, "secondary")
      BY <1>1, <1>8, StageWent DEF SwitchToSecondary, At, Went
    <2>2. at'[t].pc = "recrash" /\ (Opened("minimal")' <=> Opened("minimal"))
      BY <1>1, <2>1, FollowingTable, StageSets DEF Opened, Complete
    <2>. QED BY <1>1, <1>2, <1>3, <2>1, <2>2 DEF SecondStage, Begun
  <1>9. CASE Recrash(t)
    <2>1. /\ at[t].pc = "recrash" /\ at[t].was /\ context' = [context EXCEPT !.recrash = TRUE]
          /\ at'[t].pc = Following(at[t].kind, "recrash") /\ UNCHANGED <<alive, reports>>
      BY <1>1, <1>9, StageWent DEF Recrash, At, Went, SecondStage
    <2>2. context'.recrash /\ context'.handling /\ at'[t].pc = "fill" /\ (Opened("minimal")' <=> Opened("minimal"))
      BY <1>1, <2>1, FollowingTable DEF Opened, Complete, ContextType
    <2>. QED BY <1>1, <1>2, <1>3, <2>1, <2>2 DEF SecondStage, Begun
  <1>10. CASE Fill(t)
    <2>1. /\ at[t].pc = "fill" /\ UNCHANGED <<installed, alive, reports>>
          /\ at'[t].pc = Following(at[t].kind, "fill")
      BY <1>1, <1>10, StageWent DEF Fill, At, Went
    <2>2. context'.handling = context.handling /\ context'.recrash = context.recrash
      BY <1>1, <1>10 DEF Fill, ContextType
    <2>3. at'[t].pc = "report" /\ (Opened("minimal")' <=> Opened("minimal"))
      BY <1>1, <2>1, FollowingTable DEF Opened, Complete
    <2>. QED BY <1>1, <1>2, <1>3, <2>1, <2>2, <2>3 DEF SecondStage, Begun
  <1>11. CASE OnCrash(t)
    <2>1. /\ at[t].pc = "report" /\ UNCHANGED <<installed, alive, context>> /\ FileOf(context.recrash) = "minimal"
      BY <1>11 DEF OnCrash, At, SecondStage, FileOf
    <2>2. /\ Complete("minimal")' <=> Complete("minimal")
          /\ \/ reports["minimal"] # Absent /\ at'[t].pc = "written"
             \/ at'[t].pc = "writing" /\ at'[t].file = "minimal"
      BY <1>11, <2>1, OnCrashOpens
    <2>3. at'[t].pc = "writing" /\ at'[t].file = "minimal"
      BY <2>1, <2>2 DEF Opened
    <2>. QED BY <1>1, <1>2, <1>3, <2>1, <2>3 DEF SecondStage, Begun
  <1>12. CASE CloseReport(t)
    <2>1. at[t].file = "minimal"
      BY <1>12 DEF CloseReport, At, SecondStage
    <2>. QED BY <1>12, <2>1, CloseReportCompletes
  <1>13. ~Record(t) /\ ~UninstallHandlers(t) /\ ~ResumeThreads(t) /\ ~ResumeThread(t) /\ ~Recorded(t)
    BY <1>1 DEF Begun, Record, UninstallHandlers, ResumeThreads, ResumeThread, Recorded, At
  <1>. QED BY <1>2, <1>5, <1>6, <1>7, <1>8, <1>9, <1>10, <1>11, <1>12, <1>13 DEF Step

\* Its thread from there to the report.
LEMMA SecondNext ==
  ASSUME TypeInv, SingleInv, InstalledInv, QuietInv, FirstInv, SecondInv, [Next]_vars
  PROVE  SecondInv'
  <1>. DEFINE Goal == /\ alive' # "dead" /\ context'.handling
                      /\ reports'["minimal"] # Absent => \E t \in Thread \ gone' : at'[t].pc = "writing"
                      /\ inbox' # {} => "signal" \in installed'
                      /\ \A t \in Thread : InHandler(t)' => SecondStage(t)'
  <1>. SUFFICES ASSUME Len(faults') = 1, inHandler' \notin {"none", "nsexception"}, ~Complete("minimal")'
                PROVE  Goal
    BY DEF SecondInv
  <1>1. ASSUME NEW t \in Thread, NEW kind \in All, Fault(t, kind)
        PROVE  FALSE
    <2>1. faults \in Seq(All) /\ faults' = Append(faults, kind) /\ inHandler' = inHandler
      BY <1>1 DEF TypeInv, TypeOK, Fault
    <2>2. faults = <<>>
      BY <2>1
    <2>. QED BY <2>1, <2>2 DEF QuietInv
  <1>2. ASSUME NEW t \in Thread, NEW kind \in AsyncSafe, HandlerFault(t, kind)
        PROVE  Goal
    <2>1. /\ TypeOK /\ Raise(t, kind) /\ kind \in All /\ UNCHANGED <<alive, installed, context, reports, gone, faults>>
          /\ at[t].pc = "writing" /\ t \notin gone /\ inHandler = "none" /\ at[t].kind # "nsexception" /\ alive = "running"
      BY <1>2 DEF TypeInv, HandlerFault, At, Runs, All
    <2>2. /\ FirstReport /\ FirstStage(t)
          /\ \A u, w \in Thread : Busy(u) /\ Busy(w) => u = w
      BY <2>1 DEF FirstInv, SingleInv, InHandler
    <2>3. "signal" \in installed /\ context.handling /\ reports["minimal"] = Absent
      BY <2>1, <2>2 DEF FirstReport, FirstStage, Begun
    <2>4. /\ \A u \in Thread \ {t} : at'[u] = at[u]
          /\ \/ at'[t].pc = "trapped"
             \/ at'[t].pc = "enter" /\ at'[t].kind = "signal"
      BY <2>1, RaiseWent DEF AsyncSafe
    <2>5. \A u \in Thread : InHandler(u)' => u = t
      BY <2>1, <2>2, <2>4 DEF InHandler, Busy
    <2>6. InHandler(t)' => SecondStage(t)'
      BY <2>1, <2>3, <2>4 DEF InHandler, SecondStage, Begun
    <2>. QED BY <2>1, <2>3, <2>5, <2>6
  <1>3. ASSUME NEW t \in Thread, Step(t)
        PROVE  Goal
    <2>1. /\ Len(faults) = 1 /\ inHandler \notin {"none", "nsexception"} /\ t \notin gone /\ ~Complete("minimal")
          /\ alive = "running"
      <3>1. inHandler' = inHandler
        BY <1>3 DEF Step, Receive, Enter, Begin, ListThreads, SuspendThread, SwitchToSecondary, Recrash, Record, Fill,
           OnCrash, CloseReport, UninstallHandlers, ResumeThreads, ResumeThread, Recorded, ReraiseSignal, Finish
      <3>. QED BY <1>3, <3>1, StepFaults, ReportsKept DEF Runs
    <2>2. /\ context.handling
          /\ reports["minimal"] # Absent => \E u \in Thread \ gone : at[u].pc = "writing"
          /\ inbox # {} => "signal" \in installed
          /\ \A u \in Thread : InHandler(u) => SecondStage(u)
      BY <2>1 DEF SecondInv
    <2>3. inbox' = {}
      BY <1>3, <2>1, OnlyHandler
    <2>4. CASE Receive(t)
      <3>1. UNCHANGED <<alive, installed, context, reports, gone>> /\ inbox # {}
        BY <2>4 DEF Receive
      <3>2. /\ \A u \in Thread : ~InHandler(u)
            /\ \A u \in Thread : InHandler(u)' => u = t
        BY <1>3, <2>1, <2>4, OnlyHandler DEF Receive, Finish, At
      <3>3. reports["minimal"] = Absent
        BY <2>2, <3>2 DEF InHandler
      <3>4. at'[t].pc = "enter" /\ at'[t].kind = "mach"
        BY <2>4, ReceiveFields
      <3>5. SecondStage(t)'
        BY <2>2, <3>1, <3>4 DEF SecondStage, Begun
      <3>. QED BY <2>1, <2>2, <2>3, <3>1, <3>2, <3>3, <3>5
    <2>5. CASE ~Receive(t)
      <3>1. /\ InHandler(t) /\ \A u \in Thread : InHandler(u) => u = t
        BY <1>3, <2>1, <2>5, OnlyHandler
      <3>2. SecondStage(t) /\ (Opened("minimal") => at[t].pc = "writing")
        BY <2>2, <3>1 DEF InHandler, Opened
      <3>3. /\ SecondStage(t)' /\ context'.handling /\ (Opened("minimal")' => at'[t].pc = "writing") /\ UNCHANGED alive
            /\ ~Finish(t)
        BY <1>3, <2>2, <2>5, <3>2, SecondStageStep
      <3>4. \A u \in Thread : InHandler(u)' => u = t
        BY <1>3, <2>1, <3>3, OnlyHandler
      <3>5. t \notin gone'
        <4>1. CASE UNCHANGED gone
          BY <2>1, <4>1
        <4>2. CASE Recrash(t) \/ UninstallHandlers(t) \/ Recorded(t)
          BY <2>1, <4>2, Uninstalled DEF Recrash, UninstallHandlers, Recorded, TypeInv
        <4>. QED BY <1>3, <2>5, <3>3, <4>1, <4>2
                 DEF Step, Enter, Begin, ListThreads, SuspendThread, SwitchToSecondary, Record, Fill,
                     OnCrash, CloseReport, ResumeThreads, ResumeThread, ReraiseSignal
      <3>6. reports'["minimal"] # Absent => at'[t].pc = "writing"
        BY <3>3 DEF Opened
      <3>. QED BY <2>1, <2>3, <3>3, <3>4, <3>5, <3>6
    <2>. QED BY <2>4, <2>5
  <1>4. ASSUME Kill \/ UNCHANGED vars
        PROVE  Goal
    <2>1. UNCHANGED <<installed, context, reports, gone, at, inbox, faults, inHandler>> /\ (alive' = alive \/ alive' = "killed")
      BY <1>4 DEF Kill, vars
    <2>2. ~Complete("minimal")
      BY <2>1 DEF Complete
    <2>3. /\ alive # "dead" /\ context.handling
          /\ reports["minimal"] # Absent => \E u \in Thread \ gone : at[u].pc = "writing"
          /\ inbox # {} => "signal" \in installed
          /\ \A u \in Thread : InHandler(u) => SecondStage(u)
      BY <2>1, <2>2 DEF SecondInv
    <2>. QED BY <2>1, <2>3 DEF InHandler, SecondStage, Begun
  <1>. QED BY <1>1, <1>2, <1>3, <1>4 DEF Next, Done

-----------------------------------------------------------------------------
\* Two crashes, neither of them an NSException: whoever handles one does it for
\* a thread of its own, and one of the two writes its report.

\* t handles the crash of a thread, which ends when its handler has finished.
Handles(t) == at[t].pc \notin {"app", "receiving", "trapped"} /\ ~(at[t].pc = "finish" /\ t \in gone)

\* As long as no handler has crashed, every crash has one handler at a time.
ChainInv ==
  inHandler = "none" =>
    /\ \A t \in Thread : Handles(t) => at[t].of \in App /\ at[at[t].of].pc # "app" /\ at[t].of \notin inbox
    /\ \A t, u \in Thread : Handles(t) /\ Handles(u) /\ at[t].of = at[u].of => t = u
    /\ \A t \in inbox : t \in App /\ at[t].pc = "trapped"
    /\ \A t \in App : at[t].of = t
    /\ \A h \in Handlers : at[h].kind = "mach"

\* Only a fault of a handler changes which kind of handler has crashed.
LEMMA HandlerKept ==
  ASSUME [Next]_vars, \A t \in Thread, kind \in All : ~HandlerFault(t, kind)
  PROVE  UNCHANGED inHandler
  <1>1. ASSUME NEW t \in Thread, Step(t)
        PROVE  UNCHANGED inHandler
    <2>1. CASE Receive(t) \/ Enter(t) \/ Begin(t) \/ ListThreads(t) \/ SuspendThread(t) \/ SwitchToSecondary(t)
               \/ Recrash(t) \/ Record(t) \/ Fill(t)
      BY <2>1 DEF Receive, Enter, Begin, ListThreads, SuspendThread, SwitchToSecondary, Recrash, Record, Fill
    <2>2. CASE OnCrash(t) \/ CloseReport(t) \/ UninstallHandlers(t) \/ ResumeThreads(t) \/ ResumeThread(t) \/ Recorded(t)
               \/ ReraiseSignal(t) \/ Finish(t)
      BY <2>2 DEF OnCrash, CloseReport, UninstallHandlers, ResumeThreads, ResumeThread, Recorded, ReraiseSignal, Finish
    <2>. QED BY <1>1, <2>1, <2>2 DEF Step
  <1>2. ASSUME NEW t \in Thread, NEW kind \in All, Fault(t, kind)
        PROVE  UNCHANGED inHandler
    BY <1>2 DEF Fault
  <1>3. CASE Kill \/ Done \/ UNCHANGED vars
    BY <1>3 DEF Kill, Done, vars
  <1>. QED BY <1>1, <1>2, <1>3 DEF Next, All

\* Nobody becomes another's handler but with the crash of that.
LEMMA ChainKept ==
  ASSUME TypeInv, NEW t \in Thread, ChainInv, inHandler = "none", Handles(t), UNCHANGED inbox, gone \subseteq gone',
         \A u \in Thread \ {t} : at'[u] = at[u],
         at'[t].pc \notin {"app", "receiving", "trapped"}, at'[t].of = at[t].of, at'[t].kind = at[t].kind
  PROVE  ChainInv'
  <1>1. /\ \A u \in Thread : Handles(u) => at[u].of \in App /\ at[at[u].of].pc # "app" /\ at[u].of \notin inbox
        /\ \A u, w \in Thread : Handles(u) /\ Handles(w) /\ at[u].of = at[w].of => u = w
        /\ \A u \in inbox : u \in App /\ at[u].pc = "trapped"
        /\ \A u \in App : at[u].of = u
        /\ \A h \in Handlers : at[h].kind = "mach"
    BY DEF ChainInv
  <1>2. App \subseteq Thread /\ Handlers \subseteq Thread
    BY DEF Thread
  <1>3. \A u \in Thread : (Handles(u)' => Handles(u)) /\ at'[u].of = at[u].of
    BY DEF Handles
  <1>4. \A u \in Thread : Handles(u)' => at'[u].of \in App /\ at'[at'[u].of].pc # "app" /\ at'[u].of \notin inbox'
    BY <1>1, <1>2, <1>3
  <1>5. \A u, w \in Thread : Handles(u)' /\ Handles(w)' /\ at'[u].of = at'[w].of => u = w
    BY <1>1, <1>3
  <1>6. \A u \in inbox' : u \in App /\ at'[u].pc = "trapped"
    BY <1>1, <1>2 DEF Handles
  <1>7. (\A u \in App : at'[u].of = u) /\ \A h \in Handlers : at'[h].kind = "mach"
    BY <1>1, <1>2
  <1>. QED BY <1>4, <1>5, <1>6, <1>7 DEF ChainInv

\* Each action hands a crash to one handler at most, as long as no handler
\* crashes.
LEMMA ChainNext ==
  ASSUME TypeInv, ChainInv, [Next]_vars
  PROVE  ChainInv'
  <1>. SUFFICES ASSUME inHandler' = "none"
                PROVE  ChainInv'
    BY DEF ChainInv
  <1>0. TypeOK /\ StageInv /\ App \subseteq Thread /\ Handlers \subseteq Thread /\ App \cap Handlers = {}
    BY SentryAssumption DEF TypeInv, Thread
  <1>1. ASSUME NEW t \in Thread, NEW kind \in All, HandlerFault(t, kind)
        PROVE  FALSE
    BY <1>1 DEF HandlerFault, TypeInv, TypeOK, FrameType, All, AsyncSafe
  <1>2. inHandler = "none"
    BY <1>1, HandlerKept
  <1>3. /\ \A u \in Thread : Handles(u) => at[u].of \in App /\ at[at[u].of].pc # "app" /\ at[u].of \notin inbox
        /\ \A u, w \in Thread : Handles(u) /\ Handles(w) /\ at[u].of = at[w].of => u = w
        /\ \A u \in inbox : u \in App /\ at[u].pc = "trapped"
        /\ \A u \in App : at[u].of = u
        /\ \A h \in Handlers : at[h].kind = "mach"
    BY <1>2 DEF ChainInv
  <1>4. ASSUME NEW t \in Thread, NEW kind \in All, Fault(t, kind)
        PROVE  ChainInv'
    <2>1. t \in App /\ at[t].pc = "app" /\ UNCHANGED gone /\ Raise(t, kind) /\ t \notin inbox
      BY <1>3, <1>4 DEF Fault, At
    <2>2. /\ \A u \in Thread \ {t} : at'[u] = at[u]
          /\ at'[t].of = t
          /\ \/ at'[t].pc = "trapped" /\ inbox' = inbox \cup {t}
             \/ at'[t].pc \in {"enter", "record"} /\ inbox' = inbox
      BY <1>0, <2>1, RaiseWent
    <2>3. \A u \in Thread : Handles(u)' /\ u # t => Handles(u) /\ at[u].of # t /\ at'[u].of = at[u].of
      BY <1>3, <2>1, <2>2 DEF Handles
    <2>4. Handles(t)' => inbox' = inbox
      BY <2>2 DEF Handles
    <2>5. \A u \in Thread : Handles(u)' => at'[u].of \in App /\ at'[at'[u].of].pc # "app" /\ at'[u].of \notin inbox'
      BY <1>0, <1>3, <2>1, <2>2, <2>3, <2>4
    <2>6. \A u, w \in Thread : Handles(u)' /\ Handles(w)' /\ at'[u].of = at'[w].of => u = w
      BY <1>3, <2>2, <2>3
    <2>7. \A u \in inbox' : u \in App /\ at'[u].pc = "trapped"
      BY <1>0, <1>3, <2>1, <2>2
    <2>8. (\A u \in App : at'[u].of = u) /\ \A h \in Handlers : at'[h].kind = "mach"
      BY <1>0, <1>3, <2>1, <2>2
    <2>. QED BY <2>5, <2>6, <2>7, <2>8 DEF ChainInv
  <1>5. ASSUME NEW t \in Thread, Receive(t)
        PROVE  ChainInv'
    <2>1. PICK u \in inbox : inbox' = inbox \ {u} /\ at'[t].of = u /\ at'[t].kind = "mach" /\ at'[t].pc = "enter"
      BY <1>5, ReceiveFields DEF TypeInv
    <2>2. /\ \A w \in Thread \ {t} : at'[w] = at[w]
          /\ t \in Handlers /\ UNCHANGED gone
      BY <1>0, <1>5, ReceiveWent DEF Receive
    <2>3. \A w \in Thread : Handles(w)' /\ w # t => Handles(w) /\ at[w].of # u /\ at'[w].of = at[w].of
      BY <1>3, <2>1, <2>2 DEF Handles
    <2>4. \A w \in Thread : Handles(w)' => at'[w].of \in App /\ at'[at'[w].of].pc # "app" /\ at'[w].of \notin inbox'
      BY <1>0, <1>3, <2>1, <2>2, <2>3
    <2>5. \A v, w \in Thread : Handles(v)' /\ Handles(w)' /\ at'[v].of = at'[w].of => v = w
      BY <1>3, <2>1, <2>3
    <2>6. \A w \in inbox' : w \in App /\ at'[w].pc = "trapped"
      BY <1>0, <1>3, <2>1, <2>2
    <2>7. (\A w \in App : at'[w].of = w) /\ \A h \in Handlers : at'[h].kind = "mach"
      BY <1>0, <1>3, <2>1, <2>2
    <2>. QED BY <2>4, <2>5, <2>6, <2>7 DEF ChainInv
  <1>6. ASSUME NEW t \in Thread, Finish(t)
        PROVE  ChainInv'
    <2>1. at[t].pc = "finish" /\ t \notin gone /\ UNCHANGED inbox
          /\ gone' = IF at[t].kind = "mach" THEN gone \cup {t} ELSE gone
      BY <1>6 DEF Finish, At, Runs
    <2>2. PICK stopped \in Thread :
            /\ stopped = IF at[t].kind = "mach" THEN at[t].of ELSE t
            /\ \A u \in Thread \ {stopped} : at'[u] = at[u]
            /\ at'[stopped].pc = "enter" /\ at'[stopped].of = stopped
      BY <1>6, FinishFields
    <2>3. Handles(t) /\ at[t].of \in App /\ at[t].of \notin inbox
      BY <1>3, <2>1 DEF Handles
    <2>4. /\ stopped \in App /\ stopped = at[t].of
          /\ at[t].kind = "mach" => t \in Handlers /\ t \in gone'
      <3>1. CASE at[t].kind = "mach"
        BY <1>0, <2>1, <2>2, <2>3, <3>1 DEF StageInv, Thread
      <3>2. CASE at[t].kind # "mach"
        BY <1>3, <2>2, <3>2 DEF Thread
      <3>. QED BY <3>1, <3>2
    <2>5. \A w \in Thread : Handles(w)' /\ w # stopped => Handles(w) /\ at[w].of # stopped /\ at'[w].of = at[w].of
      <3>1. ASSUME NEW w \in Thread, Handles(w)', w # stopped
            PROVE  Handles(w) /\ at[w].of # stopped /\ at'[w].of = at[w].of
        <4>1. at'[w] = at[w] /\ Handles(w)
          BY <2>1, <2>2, <3>1 DEF Handles
        <4>2. w # t
          BY <2>1, <2>2, <2>4, <3>1, <4>1 DEF Handles
        <4>. QED BY <1>3, <2>3, <2>4, <4>1, <4>2
      <3>. QED BY <3>1
    <2>6. \A w \in Thread : Handles(w)' => at'[w].of \in App /\ at'[at'[w].of].pc # "app" /\ at'[w].of \notin inbox'
      BY <1>0, <1>3, <2>1, <2>2, <2>3, <2>4, <2>5
    <2>7. \A v, w \in Thread : Handles(v)' /\ Handles(w)' /\ at'[v].of = at'[w].of => v = w
      BY <1>3, <2>2, <2>5
    <2>8. \A w \in inbox' : w \in App /\ at'[w].pc = "trapped"
      BY <1>0, <1>3, <2>1, <2>2, <2>3, <2>4
    <2>9. (\A w \in App : at'[w].of = w) /\ \A h \in Handlers : at'[h].kind = "mach"
      BY <1>0, <1>3, <2>2, <2>4
    <2>. QED BY <2>6, <2>7, <2>8, <2>9 DEF ChainInv
  <1>7. ASSUME NEW t \in Thread, Step(t), ~Receive(t), ~Finish(t)
        PROVE  ChainInv'
    <2>1. CASE ReraiseSignal(t)
      BY <1>2, <2>1 DEF ReraiseSignal, ChainInv, Handles
    <2>2. CASE ~ReraiseSignal(t)
      <3>1. Handles(t)
        BY <1>7, <2>2, StepWent, StepFaults DEF Handles, Runs
      <3>2. gone \subseteq gone'
        BY <1>7, StepGone
      <3>. QED BY <1>2, <1>7, <2>2, <3>1, <3>2, StepWent, StepFields, ChainKept DEF Went
    <2>. QED BY <2>1, <2>2
  <1>8. CASE Kill \/ UNCHANGED vars
    BY <1>2, <1>8 DEF Kill, vars, ChainInv, Handles
  <1>. QED BY <1>1, <1>4, <1>5, <1>6, <1>7, <1>8 DEF Next, Done, All

\* No more threads have crashed than there were faults.
Crashed == {t \in App : at[t].pc # "app"}

FewInv ==
  inHandler = "none" =>
    /\ faults = <<>> => Crashed = {}
    /\ Len(faults) = 1 => \A t, u \in Crashed : t = u
    /\ Len(faults) = 2 => \A t, u, v \in Crashed : t = u \/ t = v \/ u = v

\* Only a fault is a crash.
LEMMA FewNext ==
  ASSUME TypeInv, ChainInv, FewInv, [Next]_vars
  PROVE  FewInv'
  <1>. SUFFICES ASSUME inHandler' = "none"
                PROVE  FewInv'
    BY DEF FewInv
  <1>0. TypeOK /\ StageInv /\ App \subseteq Thread /\ faults \in Seq(All) /\ App \cap Handlers = {}
    BY SentryAssumption DEF TypeInv, Thread, TypeOK
  <1>1. ASSUME NEW t \in Thread, NEW kind \in All, HandlerFault(t, kind)
        PROVE  FALSE
    BY <1>1 DEF HandlerFault, TypeInv, TypeOK, FrameType, All, AsyncSafe
  <1>2. inHandler = "none"
    BY <1>1, HandlerKept
  <1>3. ASSUME NEW t \in Thread, NEW kind \in All, Fault(t, kind)
        PROVE  FewInv'
    <2>1. faults' = Append(faults, kind) /\ Raise(t, kind)
      BY <1>3 DEF Fault
    <2>2. \A u \in Thread \ {t} : at'[u] = at[u]
      BY <1>0, <2>1, RaiseWent
    <2>3. \A u \in Crashed' : u = t \/ u \in Crashed
      BY <1>0, <2>2 DEF Crashed
    <2>4. /\ faults' # <<>> /\ (Len(faults') = 1 => faults = <<>>) /\ (Len(faults') = 2 => Len(faults) = 1)
      <3>1. Len(faults') = Len(faults) + 1 /\ Len(faults) \in Nat
        BY <1>0, <2>1
      <3>2. Len(faults) = 0 => faults = <<>>
        BY <1>0
      <3>3. faults' = <<>> => Len(faults') = 0
        OBVIOUS
      <3>4. ASSUME NEW m \in Nat, NEW n, n = m + 1
            PROVE  n # 0 /\ (n = 1 => m = 0) /\ (n = 2 => m = 1)
        BY <3>4
      <3>. QED BY <3>1, <3>2, <3>3, <3>4
    <2>5. faults = <<>> => \A u \in Crashed' : u = t
      BY <1>2, <2>3 DEF FewInv
    <2>6. Len(faults) = 1 => \A u, w \in Crashed' : u = t \/ w = t \/ u = w
      BY <1>2, <2>3 DEF FewInv
    <2>7. Len(faults) = 1 => \A u, v, w \in Crashed' : u = v \/ u = w \/ v = w
      BY <2>6
    <2>. QED BY <2>4, <2>5, <2>7 DEF FewInv
  <1>4. ASSUME Crashed' \subseteq Crashed, UNCHANGED faults
        PROVE  FewInv'
    BY <1>2, <1>4 DEF FewInv
  <1>5. ASSUME NEW t \in Thread, Step(t)
        PROVE  Crashed' \subseteq Crashed
    <2>1. CASE Receive(t)
      BY <1>0, <2>1, ReceiveWent DEF Crashed
    <2>2. CASE Finish(t)
      <3>1. PICK stopped \in Thread : /\ stopped = IF at[t].kind = "mach" THEN at[t].of ELSE t
                                      /\ \A u \in Thread \ {stopped} : at'[u] = at[u]
        BY <2>2, FinishFields
      <3>2. at[t].pc = "finish" /\ Handles(t)
        BY <2>2 DEF Finish, At, Runs, Handles
      <3>3. at[stopped].pc # "app"
        BY <1>2, <3>1, <3>2 DEF ChainInv
      <3>. QED BY <1>0, <3>1, <3>3 DEF Crashed
    <2>3. CASE ReraiseSignal(t)
      BY <2>3 DEF ReraiseSignal, Crashed
    <2>4. CASE ~Receive(t) /\ ~Finish(t) /\ ~ReraiseSignal(t)
      BY <1>0, <1>5, <2>4, StepWent DEF Crashed, Went
    <2>. QED BY <2>1, <2>2, <2>3, <2>4
  <1>6. CASE Kill \/ UNCHANGED vars
    BY <1>2, <1>6 DEF Kill, vars, FewInv, Crashed
  <1>. QED BY <1>1, <1>3, <1>4, <1>5, <1>6, StepFaults DEF Next, Done, All

\* There are no three handlers of two crashes.
LEMMA TwoHandlers ==
  ASSUME TypeInv, ChainInv, FewInv, inHandler = "none", Len(faults) <= 2,
         NEW t \in Thread, NEW u \in Thread, NEW v \in Thread, Handles(t), Handles(u), Handles(v), t # u, u # v, t # v
  PROVE  FALSE
  <1>1. /\ at[t].of \in Crashed /\ at[u].of \in Crashed /\ at[v].of \in Crashed
        /\ at[t].of # at[u].of /\ at[u].of # at[v].of /\ at[t].of # at[v].of
    BY DEF ChainInv, Crashed
  <1>2. faults \in Seq(All)
    BY DEF TypeInv, TypeOK
  <1>3. Len(faults) \in Nat /\ (Len(faults) = 0 => faults = <<>>)
    BY <1>2
  <1>4. faults = <<>> \/ Len(faults) = 1 \/ Len(faults) = 2
    <2>1. ASSUME NEW n \in Nat, n <= 2
          PROVE  n = 0 \/ n = 1 \/ n = 2
      BY <2>1
    <2>. QED BY <1>3, <2>1
  <1>. QED BY <1>1, <1>4 DEF FewInv

\* Before there is a report nobody is done with a crash; the handlers are
\* uninstalled only by the second that has begun.
PairScope == Early /\ Len(faults) <= 2

PairInv ==
  PairScope =>
    /\ alive # "dead"
    /\ \A t \in Thread \ gone : at[t].pc \notin {"written", "resume", "resuming", "finish", "reraise"}
    /\ context.handling => \E t \in Thread : Begun(t)
    /\ \A t \in Thread : at[t].was => \E u \in Thread \ {t} : Begun(u)
    /\ "signal" \notin installed => \E t \in Thread, u \in Thread : t # u /\ Begun(t) /\ Begun(u)

\* The stages of a crash before there is a report: the one who comes second
\* finds the signal handler there, or there were two before him.
LEMMA PairStage ==
  ASSUME TypeInv, Exclusion, ChainInv, FewInv, InstalledInv, PairInv, PairScope, NEW t \in Thread,
         Step(t), ~Receive(t), at[t].pc # "writing"
  PROVE  /\ ~Finish(t) /\ ~ReraiseSignal(t)
         /\ Enter(t) => at[t].pc = "enter" /\ at'[t].pc = "begin"
         /\ ~Enter(t) => Begun(t)' /\ (Begun(t) \/ Begin(t)) /\ at[t].pc # "enter"
  <1>1. /\ TypeOK /\ StageInv /\ Runs(t) /\ t \notin gone /\ at[t].pc \in StagesOf(at[t].kind)
        /\ at[t].kind \in {"mach", "signal", "cpp"} /\ at[t].pc \notin {"written", "resume", "resuming", "finish", "reraise"}
    BY StepFaults, KindsLeft DEF TypeInv, Runs, StageInv, PairInv, Exclusion
  <1>2. ~Finish(t) /\ ~ReraiseSignal(t) /\ ~UninstallHandlers(t) /\ ~ResumeThreads(t) /\ ~ResumeThread(t) /\ ~CloseReport(t)
    BY <1>1 DEF Finish, ReraiseSignal, UninstallHandlers, ResumeThreads, ResumeThread, CloseReport, At
  <1>3. ~Record(t) /\ ~Recorded(t)
    BY <1>1, StageSets DEF Record, Recorded, At
  <1>4. CASE Enter(t)
    <2>1. /\ at[t].pc = "enter"
          /\ at'[t].pc = CASE at[t].kind \in installed \cup {"cpp"} -> "begin"
                            [] at[t].kind = "signal" /\ "signal" \notin installed -> "reraise"
                            [] OTHER -> "finish"
      BY <1>1, <1>4 DEF Enter, At, TypeOK, FrameType
    <2>2. Handles(t) /\ inHandler = "none" /\ Len(faults) <= 2
      BY <2>1 DEF Handles, PairScope, Early
    <2>3. "signal" \in installed
      <3>1. ASSUME NEW u \in Thread, NEW v \in Thread, u # v, Begun(u), Begun(v)
            PROVE  FALSE
        <4>1. Handles(u) /\ Handles(v) /\ u # t /\ v # t
          BY <2>1, <3>1 DEF Begun, Handles
        <4>. QED BY <2>2, <3>1, <4>1, TwoHandlers
      <3>. QED BY <3>1 DEF PairInv
    <2>4. at[t].kind = "mach" => t \in Handlers
      BY <1>1, <2>1 DEF StageInv, Thread
    <2>5. at[t].kind \in installed \cup {"cpp"}
      BY <1>1, <2>3, <2>4 DEF InstalledInv
    <2>. QED BY <1>2, <1>4, <2>1, <2>5
  <1>5. CASE ~Enter(t)
    <2>1. CASE Begin(t)
      <3>1. at[t].pc = "begin" /\ at'[t].pc = Following(at[t].kind, "begin")
        BY <1>1, <2>1, StageWent DEF Begin, At, Went
      <3>. QED BY <1>1, <1>2, <1>5, <2>1, <3>1, FollowingTable DEF Begun
    <2>2. CASE ListThreads(t) \/ SuspendThread(t)
      <3>1. /\ at[t].pc \in {"suspend", "suspending"} /\ at'[t].pc \in {"suspending", Following(at[t].kind, "suspend")}
        BY <1>1, <2>2, ListWent, SuspendWent DEF Went
      <3>. QED BY <1>1, <1>2, <1>5, <3>1, FollowingTable DEF Begun
    <2>3. CASE SwitchToSecondary(t)
      <3>1. at[t].pc = "secondary" /\ at'[t].pc = Following(at[t].kind, "secondary") /\ at[t].kind = "mach"
        BY <1>1, <2>3, StageWent, StageSets DEF SwitchToSecondary, At, Went
      <3>. QED BY <1>2, <1>5, <3>1, FollowingTable DEF Begun
    <2>4. CASE Recrash(t)
      <3>1. at[t].pc = "recrash" /\ at'[t].pc = Following(at[t].kind, "recrash")
        BY <1>1, <2>4, StageWent DEF Recrash, At, Went
      <3>. QED BY <1>1, <1>2, <1>5, <3>1, FollowingTable DEF Begun
    <2>5. CASE Fill(t)
      <3>1. at[t].pc = "fill" /\ at'[t].pc = Following(at[t].kind, "fill")
        BY <1>1, <2>5, StageWent DEF Fill, At, Went
      <3>. QED BY <1>1, <1>2, <1>5, <3>1, FollowingTable DEF Begun
    <2>6. CASE OnCrash(t)
      <3>1. at[t].pc = "report"
        BY <2>6 DEF OnCrash, At
      <3>2. reports["standard"] = Absent /\ reports["minimal"] = Absent
        BY <1>1, NoReportYet
      <3>3. FileOf(context.recrash) \in {"standard", "minimal"}
        BY DEF FileOf
      <3>4. at'[t].pc = "writing"
        BY <2>6, <3>2, <3>3, OnCrashOpens
      <3>. QED BY <1>2, <1>5, <3>1, <3>4 DEF Begun
    <2>. QED BY <1>2, <1>3, <1>5, <2>1, <2>2, <2>3, <2>4, <2>5, <2>6 DEF Step
  <1>. QED BY <1>4, <1>5

\* A step before there is a report.
LEMMA PairStep ==
  ASSUME TypeInv, Early => Exclusion, ChainInv, FewInv, InstalledInv, PairInv, NEW t \in Thread, Step(t)
  PROVE  PairInv'
  <1>. SUFFICES ASSUME PairScope'
                PROVE  PairInv'
    BY DEF PairInv
  <1>1. /\ PairScope /\ Exclusion /\ KindInv /\ Runs(t) /\ t \notin gone /\ TypeOK /\ StageInv
        /\ gone \subseteq gone' /\ alive = "running"
    <2>1. faults' = faults /\ inHandler' = inHandler
      BY DEF Step, Receive, Enter, Begin, ListThreads, SuspendThread, SwitchToSecondary, Recrash, Record, Fill,
             OnCrash, CloseReport, UninstallHandlers, ResumeThreads, ResumeThread, Recorded, ReraiseSignal, Finish
    <2>2. SomeReport => SomeReport'
      BY ReportsKept DEF SomeReport
    <2>3. PairScope
      BY <2>1, <2>2 DEF PairScope, Early, NoException
    <2>. QED BY <2>3, StepFaults, StepGone DEF PairScope, Exclusion, Runs, TypeInv
  <1>2. /\ \A u \in Thread \ gone : at[u].pc \notin {"written", "resume", "resuming", "finish", "reraise"}
        /\ context.handling => \E u \in Thread : Begun(u)
        /\ \A u \in Thread : at[u].was => \E v \in Thread \ {u} : Begun(v)
        /\ "signal" \notin installed => \E u \in Thread, v \in Thread : u # v /\ Begun(u) /\ Begun(v)
    BY <1>1 DEF PairInv
  <1>3. at[t].pc # "writing"
    <2>1. ASSUME at[t].pc = "writing"
          PROVE  FALSE
      <3>1. CloseReport(t)
        BY <2>1 DEF Step, Receive, Enter, Begin, ListThreads, SuspendThread, SwitchToSecondary, Recrash, Record, Fill,
             OnCrash, UninstallHandlers, ResumeThreads, ResumeThread, Recorded, ReraiseSignal, Finish, At
      <3>2. at[t].file \in {"standard", "minimal"}
        BY <1>1 DEF TypeOK, FrameType
      <3>3. \A f \in {"standard", "minimal"} : f = at[t].file => Complete(f)'
        BY <3>1, CloseReportCompletes
      <3>4. SomeReport'
        BY <3>2, <3>3 DEF SomeReport
      <3>. QED BY <3>4 DEF PairScope, Early
    <2>. QED BY <2>1
  <1>4. reports["standard"] = Absent /\ reports["minimal"] = Absent
    BY <1>1, <1>3, NoReportYet
  <1>5. CASE Receive(t)
    <2>1. /\ UNCHANGED <<alive, installed, context, reports, gone>> /\ at[t].pc = "receiving" /\ at'[t].pc = "enter"
          /\ \A u \in Thread \ {t} : at'[u] = at[u]
      BY <1>1, <1>5, ReceiveWent DEF Receive
    <2>2. ~at'[t].was
      BY <1>5, ReceiveFields
    <2>3. \A u \in Thread : Begun(u) => u # t /\ Begun(u)'
      BY <2>1 DEF Begun
    <2>4. \A u \in Thread : at'[u].was => \E v \in Thread \ {u} : Begun(v)'
      BY <1>2, <2>1, <2>2, <2>3
    <2>5. \A u \in Thread \ gone' : at'[u].pc \notin {"written", "resume", "resuming", "finish", "reraise"}
      BY <1>2, <2>1
    <2>. QED BY <1>1, <1>2, <1>4, <2>1, <2>3, <2>4, <2>5 DEF PairInv
  <1>6. CASE ~Receive(t)
    <2>1. /\ ~Finish(t) /\ ~ReraiseSignal(t)
          /\ Enter(t) => at[t].pc = "enter" /\ at'[t].pc = "begin"
          /\ ~Enter(t) => Begun(t)' /\ (Begun(t) \/ Begin(t)) /\ at[t].pc # "enter"
      BY <1>1, <1>3, <1>6, PairStage
    <2>2. /\ \A u \in Thread \ {t} : at'[u] = at[u]
          /\ at'[t].was = IF at[t].pc = "enter" THEN context.handling ELSE at[t].was
      BY <1>6, <2>1, StepWent, StepFields DEF Went
    <2>3. \A u \in Thread : Begun(u) => Begun(u)'
      BY <2>1, <2>2 DEF Begun
    <2>4. alive' # "dead"
      BY <1>1, <1>6, <2>1 DEF Step, Enter, Begin, ListThreads, SuspendThread, SwitchToSecondary, Recrash, Record, Fill,
             OnCrash, CloseReport, UninstallHandlers, ResumeThreads, ResumeThread, Recorded
    <2>5. \A u \in Thread \ gone' : at'[u].pc \notin {"written", "resume", "resuming", "finish", "reraise"}
      <3>1. at'[t].pc \notin {"written", "resume", "resuming", "finish", "reraise"}
        BY <2>1 DEF Begun
      <3>. QED BY <1>1, <1>2, <2>2, <3>1
    <2>7. context'.handling => \E u \in Thread : Begun(u)'
      <3>1. CASE Begin(t)
        BY <2>1, <3>1 DEF Begin, Enter, At
      <3>2. CASE ~Begin(t)
        <4>1. context'.handling = context.handling
          <5>1. CASE Recrash(t) \/ Fill(t)
            BY <1>1, <5>1 DEF Recrash, Fill, TypeOK, ContextType
          <5>2. CASE ~Recrash(t) /\ ~Fill(t)
            BY <1>6, <2>1, <3>2, <5>2
               DEF Step, Enter, ListThreads, SuspendThread, SwitchToSecondary, Record,
                   OnCrash, CloseReport, UninstallHandlers, ResumeThreads, ResumeThread, Recorded
          <5>. QED BY <5>1, <5>2
        <4>. QED BY <1>2, <2>3, <4>1
      <3>. QED BY <3>1, <3>2
    <2>8. \A u \in Thread : at'[u].was => \E v \in Thread \ {u} : Begun(v)'
      <3>1. ASSUME NEW u \in Thread, at'[u].was
            PROVE  \E v \in Thread \ {u} : Begun(v)'
        <4>1. CASE u = t /\ at[t].pc = "enter"
          <5>1. context.handling /\ ~Begun(t)
            BY <2>2, <3>1, <4>1 DEF Begun
          <5>. QED BY <1>2, <2>3, <4>1, <5>1
        <4>2. CASE ~(u = t /\ at[t].pc = "enter")
          BY <1>2, <2>2, <2>3, <3>1, <4>2
        <4>. QED BY <4>1, <4>2
      <3>. QED BY <3>1
    <2>9. "signal" \notin installed' => \E u \in Thread, v \in Thread : u # v /\ Begun(u)' /\ Begun(v)'
      <3>1. CASE UNCHANGED installed
        BY <1>2, <2>3, <3>1
      <3>2. CASE Recrash(t) /\ at[t].was
        <4>1. Begun(t)'
          BY <2>1, <3>2 DEF Recrash, Enter, At
        <4>. QED BY <1>2, <2>3, <3>2, <4>1
      <3>3. UNCHANGED installed \/ (Recrash(t) /\ at[t].was)
        <4>1. ~UninstallHandlers(t) /\ ~Recorded(t)
          <5>1. at[t].pc # "recorded"
            BY <1>1, KindsLeft, StageSets DEF StageInv
          <5>. QED BY <1>1, <1>2, <5>1 DEF UninstallHandlers, Recorded, At
        <4>. QED BY <1>6, <2>1, <4>1
                 DEF Step, Enter, Begin, ListThreads, SuspendThread, SwitchToSecondary, Recrash, Record, Fill,
                     OnCrash, CloseReport, ResumeThreads, ResumeThread
      <3>. QED BY <3>1, <3>2, <3>3
    <2>. QED BY <2>4, <2>5, <2>7, <2>8, <2>9 DEF PairInv
  <1>. QED BY <1>5, <1>6

\* Nor does a fault let anybody be done.
LEMMA PairNext ==
  ASSUME TypeInv, Early => Exclusion, ChainInv, FewInv, InstalledInv, PairInv, [Next]_vars
  PROVE  PairInv'
  <1>1. ASSUME NEW t \in Thread, NEW kind \in All, Fault(t, kind)
        PROVE  PairInv'
    <2>. SUFFICES ASSUME PairScope'
                  PROVE  PairInv'
      BY DEF PairInv
    <2>1. /\ TypeOK /\ faults \in Seq(All) /\ faults' = Append(faults, kind) /\ Raise(t, kind) /\ at[t].pc = "app"
          /\ UNCHANGED <<alive, installed, context, reports, gone, inHandler>>
      BY <1>1 DEF TypeInv, TypeOK, Fault, At
    <2>2. Len(faults) <= 2 /\ NoException /\ kind # "nsexception"
      <3>1. /\ Len(faults') = Len(faults) + 1 /\ Len(faults) \in Nat
            /\ \A i \in DOMAIN faults : i \in DOMAIN faults' /\ faults'[i] = faults[i]
            /\ Len(faults') \in DOMAIN faults' /\ faults'[Len(faults')] = kind
        BY <2>1
      <3>2. Len(faults') <= 2 /\ NoException'
        BY DEF PairScope, Early
      <3>3. ASSUME NEW m \in Nat, m + 1 <= 2
            PROVE  m <= 2
        BY <3>3
      <3>4. NoException /\ kind # "nsexception"
        BY <3>1, <3>2 DEF NoException
      <3>. QED BY <3>1, <3>2, <3>3, <3>4
    <2>3. PairScope
      BY <2>1, <2>2 DEF PairScope, Early, SomeReport, Complete
    <2>4. /\ \A u \in Thread \ {t} : at'[u] = at[u]
          /\ at'[t].pc \in {"trapped", "enter"} /\ ~at'[t].was
      BY <2>1, <2>2, RaiseWent, RaiseFields
    <2>5. \A u \in Thread : Begun(u) => u # t /\ Begun(u)'
      BY <2>1, <2>4 DEF Begun
    <2>6. \A u \in Thread \ gone' : at'[u].pc \notin {"written", "resume", "resuming", "finish", "reraise"}
      BY <2>1, <2>3, <2>4 DEF PairInv
    <2>8. \A u \in Thread : at'[u].was => \E v \in Thread \ {u} : Begun(v)'
      BY <2>3, <2>4, <2>5 DEF PairInv
    <2>9. context'.handling => \E u \in Thread : Begun(u)'
      BY <2>1, <2>3, <2>5 DEF PairInv
    <2>10. "signal" \notin installed' => \E u \in Thread, v \in Thread : u # v /\ Begun(u)' /\ Begun(v)'
      BY <2>1, <2>3, <2>5 DEF PairInv
    <2>11. alive' # "dead"
      BY <2>1, <2>3 DEF PairInv
    <2>. QED BY <2>6, <2>8, <2>9, <2>10, <2>11 DEF PairInv
  <1>2. ASSUME NEW t \in Thread, NEW kind \in AsyncSafe, HandlerFault(t, kind)
        PROVE  PairInv'
    <2>1. inHandler' # "none"
      BY <1>2 DEF HandlerFault, TypeInv, TypeOK, FrameType, All, AsyncSafe
    <2>. QED BY <2>1 DEF PairInv, PairScope, Early
  <1>3. CASE Kill \/ UNCHANGED vars
    <2>1. /\ UNCHANGED <<installed, context, reports, gone, at, faults, inHandler>>
          /\ alive' = alive \/ alive' = "killed"
      BY <1>3 DEF Kill, vars
    <2>2. PairScope' => PairScope
      BY <2>1 DEF PairScope, Early, NoException, SomeReport, Complete
    <2>. QED BY <2>1, <2>2 DEF PairInv, Begun
  <1>. QED BY <1>1, <1>2, <1>3, PairStep DEF Next, Done

-----------------------------------------------------------------------------
LeftInv == QuietInv /\ InstalledInv /\ FirstInv /\ SecondInv /\ ChainInv /\ FewInv /\ PairInv

\* It holds at first, when there is no crash.
LEMMA LeftInit ==
  ASSUME Init
  PROVE  LeftInv
  <1>1. /\ faults = <<>> /\ alive = "running" /\ inHandler = "none" /\ inbox = {} /\ installed \in Configurations
        /\ ~context.handling /\ ~context.recrash /\ \A f \in {"standard", "minimal"} : reports[f] = Absent
    BY DEF Init, Cleared
  <1>2. \A t \in Thread : /\ at[t].pc = IF t \in App THEN "app" ELSE "receiving"
                          /\ at[t].kind = "mach" /\ at[t].of = t /\ ~at[t].was
    BY DEF Init, Frame
  <1>3. "signal" \in installed
    BY <1>1, SentryAssumption
  <1>4. QuietInv
    BY <1>1, <1>3 DEF QuietInv
  <1>5. InstalledInv
    BY <1>3 DEF InstalledInv, Init, InstallMachHandler
  <1>6. Len(faults) = 0
    BY <1>1
  <1>7. FirstInv /\ SecondInv
    BY <1>6 DEF FirstInv, SecondInv
  <1>8. ChainInv
    BY <1>1, <1>2 DEF ChainInv, Handles, Thread
  <1>9. FewInv
    <2>1. Crashed = {}
      BY <1>2 DEF Crashed, Thread
    <2>. QED BY <1>6, <2>1 DEF FewInv
  <1>10. PairInv
    BY <1>1, <1>2, <1>3 DEF PairInv
  <1>. QED BY <1>4, <1>5, <1>7, <1>8, <1>9, <1>10 DEF LeftInv

\* With one crash, with two, and with one of the handler of one.
LEMMA LeftReport ==
  ASSUME TypeInv, LeftInv
  PROVE  ReportLeft
  <1>. SUFFICES ASSUME alive = "dead", ~ExceptionAmongOthers, Len(faults) <= 2
                PROVE  IF inHandler = "none" THEN SomeReport
                       ELSE Len(faults) = 1 /\ inHandler # "nsexception" => Complete("minimal")
    BY DEF ReportLeft, SomeReport
  <1>1. CASE inHandler = "none"
    <2>1. NoException \/ faults = <<>> \/ Len(faults) = 1
      BY NotAmong DEF TypeInv
    <2>2. faults # <<>>
      BY DEF LeftInv, QuietInv
    <2>3. CASE Len(faults) = 1
      <3>1. Complete("standard")
        BY <1>1, <2>3 DEF LeftInv, FirstInv, FirstReport
      <3>. QED BY <1>1, <3>1 DEF SomeReport
    <2>4. CASE NoException
      <3>1. SomeReport
        BY <1>1, <2>4 DEF LeftInv, PairInv, PairScope, Early
      <3>. QED BY <1>1, <3>1
    <2>. QED BY <2>1, <2>2, <2>3, <2>4
  <1>2. CASE inHandler # "none"
    BY <1>2 DEF LeftInv, SecondInv
  <1>. QED BY <1>1, <1>2

\* A process that ends by itself leaves a whole report, however many threads it
\* has and whichever sentries are installed, of one crash, of one of two, and
\* of the crash of a handler.
THEOREM ReportAlwaysLeft == Spec => []ReportLeft
  <1>1. Init => LeftInv
    BY LeftInit
  <1>2. SentryInv /\ SentryInv' /\ LeftInv /\ [Next]_vars => LeftInv'
    <2>1. ASSUME SentryInv, LeftInv, [Next]_vars
          PROVE  LeftInv'
      <3>1. TypeInv /\ SingleInv /\ (Early => Exclusion)
        BY <2>1 DEF SentryInv
      <3>2. QuietInv /\ InstalledInv /\ FirstInv /\ SecondInv /\ ChainInv /\ FewInv /\ PairInv
        BY <2>1 DEF LeftInv
      <3>3. QuietInv' /\ InstalledInv' /\ ChainInv' /\ FewInv'
        BY <2>1, <3>1, <3>2, QuietNext, InstalledNext, ChainNext, FewNext
      <3>4. FirstInv' /\ SecondInv'
        BY <2>1, <3>1, <3>2, FirstNext, SecondNext
      <3>5. PairInv'
        BY <2>1, <3>1, <3>2, PairNext
      <3>. QED BY <3>3, <3>4, <3>5 DEF LeftInv
    <2>. QED BY <2>1
  <1>3. SentryInv /\ LeftInv => ReportLeft
    BY LeftReport DEF SentryInv
  <1>. QED BY <1>1, <1>2, <1>3, Inductive, SpecSteps, PTL

=============================================================================
