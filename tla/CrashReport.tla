---------------------------- MODULE CrashReport ----------------------------
(***************************************************************************)
(* The report a crash handler writes (BSG_KSCrashReport.c, and the handler *)
(* BSSerializeDataCrashHandler of BugsnagClient.m that adds to it), in the *)
(* process it describes: its binary images, its breadcrumbs and its stacks. *)
(*                                                                         *)
(* The process runs until a crash; the other threads are suspended where   *)
(* they are; the report is written section by section, and the process may *)
(* be killed between two, or crash in one.  A crash in the handler is      *)
(* described by a minimal report in a file of its own.                     *)
(*                                                                         *)
(* A function that writes is the sequence of the calls it makes to the     *)
(* report writer.                                                          *)
(***************************************************************************)
EXTENDS CrashTools, JSONCodec, MachHeaders, Breadcrumbs

CONSTANTS
  Absent,         \* a NULL pointer: no machine context, no backtrace, no file
  Situations,     \* what can happen to the process, and where: see SituationsOK
  Recrashes,      \* what can happen to the crash handler, likewise
  MaxAppSteps,    \* steps of the other threads before the crash (a bound)
  MinStringLength,  \* BSG_kMinStringLength, 4
  Symbols,        \* the symbol table of the image the stacks lead through
  Machines,       \* the machine contexts the algorithms are looked at with
  SymbolTables,   \* likewise, the symbol tables
  Addresses,      \* likewise, the addresses
  Memories,       \* likewise, the memory a register or a reason points to
  Strings         \* likewise, the texts that are written

(* A crash is a record: the type of the sentry that caught it; thread, the *)
(* machine context of the crashed thread, and other, that of another one;  *)
(* stack, the stack trace of a language exception; exception and code      *)
(* (Mach) or signal; name and reason; memory, what the registers and the   *)
(* reason point to; image, the image of the top frame and info, its        *)
(* __crash_info section.                                                   *)
(* A scene: what was prepared while the process was well (processName,     *)
(* system, user; NoName if it was not), the files of the client, and what  *)
(* the callback of the application calls.  room is what fits the disk, in  *)
(* tokens, or Unlimited.                                                   *)
Times(callback, n, ops) == Cardinality({i \in 1 .. n : callback[i].op \in ops})

(* Bound on the containers a callback begins.  isObject of the encoder has *)
(* elements for the levels up to 199, and two are open by then.            *)
MaxBegun == 197

SituationsOK ==
  \A s \in Situations \cup Recrashes :
    /\ s.crash.type \in {"mach", "signal", "cpp", "nsexception"}
    /\ {s.crash.tracing, s.crash.introspect, s.crash.listable} \subseteq BOOLEAN
    /\ s.crash.stack \in Seq(Nat) /\ s.crash.name \in {"text", NoName}
    /\ s.crash.image \in Image \cup {"nowhere"}
    /\ {s.scene.clock, s.scene.session} \subseteq BOOLEAN
    /\ {s.scene.config, s.scene.metaData, s.scene.state} \subseteq {"absent", "raw"}
    /\ {s.scene.system, s.scene.user} \subseteq {"raw", "blank", "word", NoName}
    /\ s.scene.processName \in {"text", NoName} /\ s.scene.callback \in Seq(Calls)
    /\ Times(s.scene.callback, Len(s.scene.callback), {"beginObject", "beginArray"}) <= MaxBegun
    /\ s.room = Unlimited \/ s.room \in Nat

(* The names of the members (BSG_KSCrashReportFields.h, and those of the   *)
(* client's handler).                                                      *)
Fields ==
  { "address", "type", "value", "object_name", "object_addr", "symbol_name",
    "symbol_addr", "instruction_addr", "contents", "skipped", "overflow", "r0",
    "r1", "exception", "basic", "backtrace", "registers", "index", "crashed",
    "current_thread", "stack", "notable_addresses", "crash_info_message",
    "image_addr", "image_vmaddr", "image_size", "name", "uuid", "cpu_type",
    "cpu_subtype", "mach", "exception_name", "code", "code_name", "subcode",
    "cpp_exception", "nsexception", "referenced_object", "signal", "reason",
    "version", "id", "process_name", "timestamp", "timestamp_millis", "usable",
    "free", "application_in_foreground", "launches_since_last_crash",
    "sessions_since_last_crash", "active_time_since_last_crash",
    "background_time_since_last_crash", "sessions_since_launch",
    "active_time_since_launch", "background_time_since_launch", "startedAt",
    "handledCount", "unhandledCount", "config", "metaData", "state",
    "breadcrumbs", "report", "process", "system", "system_atcrash", "memory",
    "application_stats", "user", "binary_images", "crash", "threads", "error",
    "user_atcrash", "crashed_thread" }

ASSUME ReportAssumption ==
  /\ SituationsOK /\ Fields \subseteq Texts
  /\ MaxAppSteps \in Nat /\ MinStringLength \in Nat
  /\ SymbolTables \subseteq Seq(Nat) /\ Addresses \subseteq Nat
  /\ Memories \subseteq Seq(Bytes) /\ Strings \subseteq Seq(Units)

VARIABLES
  phase,         \* "running", a section of the report, "closed" or "dead"
  kind,          \* which report is being written
  enc,           \* of each kind that has been begun, the encoder (and the file behind it)
  crash,         \* the crash that is being described
  scene,         \* what the report finds outside the process
  appSteps       \* how far the other threads have come

reportVars == <<phase, kind, enc, crash, scene, appSteps>>
vars == <<imageVars, crumbVars, reportVars>>

Written(k) == k \in DOMAIN enc

-----------------------------------------------------------------------------
(* Memory, stacks and registers. *)

Pair(name, calls) == <<Obj(name)>> \o calls \o <<EndC>>

(* Only what reads as text is written. *)
MemoryContents(name, mem) ==
  IF mem = <<>> \/ ~IsNullTerminatedUTF8String(mem, MinStringLength) THEN <<>>
  ELSE Pair(name, <<Num("address"), Str("type", "text"), Str("value", "text")>>)

AddressReferencedByString(name, c) ==
  IF c.reason = NoName \/ ~c.hex THEN <<>> ELSE MemoryContents(name, c.memory)

(* The frames above the first are looked up by their call instructions. *)
BacktraceEntry(address) ==
  Pair(NoName,
       (IF NearestSymbol(Symbols, address) = 0 THEN <<>>
        ELSE <<Str("object_name", "text"), Num("object_addr"),
               Str("symbol_name", "text"), Num("symbol_addr")>>)
       \o <<Num("instruction_addr")>>)

Backtrace(name, b) ==
  Pair(name, <<Arr("contents")>>
               \o FlattenSeq([i \in DOMAIN b.entries |-> BacktraceEntry(b.entries[i])])
               \o <<EndC, Num("skipped")>>)

StackOverflow(name, m) == IF m.sp = NULL THEN <<>> ELSE Pair(name, <<Num("overflow")>>)

BasicRegisters(name) == Pair(name, <<Num("r0"), Num("r1")>>)
ExceptionRegisters(name) == Pair(name, <<Num("exception")>>)
Registers(name) == Pair(name, BasicRegisters("basic") \o ExceptionRegisters("exception"))

NotableAddresses(name, c) == Pair(name, MemoryContents("r0", c.memory))

(* A record of the list is found by the address of the top frame. *)
CrashInfo(name, c) ==
  IF c.image # "nowhere" /\ ImageAtAddress(c.image) # {} /\ CrashInfoMessage(c.info)
  THEN <<Str(name, "text")>> ELSE <<>>

-----------------------------------------------------------------------------
(* Threads. *)

(* Of the crashed thread: the context of the signal, or what the kernel    *)
(* says of a thread that is not the one that asks.                         *)
MachineContext(c, crashed) ==
  IF ~crashed THEN c.other
  ELSE IF c.type \in {"mach", "signal"} THEN c.thread ELSE Absent

(* The stack trace of a language exception takes precedence. *)
BacktraceOf(c, crashed) ==
  IF crashed /\ c.type \in {"cpp", "nsexception"} /\ c.stack # <<>>
  THEN [entries |-> c.stack, skipped |-> 0]
  ELSE IF MachineContext(c, crashed) = Absent THEN Absent
  ELSE GetBacktrace(MachineContext(c, crashed))

Thread(name, c, crashed, notable) ==
  LET m == MachineContext(c, crashed)
      b == BacktraceOf(c, crashed)
      ofMachine == m # Absent /\ crashed
  IN  Pair(name,
           (IF b = Absent THEN <<>> ELSE Backtrace("backtrace", b))
           \o (IF ofMachine THEN Registers("registers") ELSE <<>>)
           \o <<Num("index"), Num("crashed"), Num("current_thread")>>
           \o (IF ofMachine THEN StackOverflow("stack", m) ELSE <<>>)
           \o (IF ofMachine /\ notable THEN NotableAddresses("notable_addresses", c) ELSE <<>>)
           \o (IF ~crashed \/ b = Absent THEN <<>>
               ELSE IF b.entries = <<>> THEN <<>> ELSE CrashInfo("crash_info_message", c)))

(* If the threads cannot be listed there is no array at all. *)
AllThreads(name, c) ==
  IF ~c.listable THEN <<>>
  ELSE <<Arr(name)>> \o Thread(NoName, c, TRUE, c.introspect)
         \o (IF c.tracing THEN Thread(NoName, c, FALSE, c.introspect) ELSE <<>>) \o <<EndC>>

-----------------------------------------------------------------------------
(* Images and the error. *)

BinaryImage(image) ==
  Pair(NoName, <<Num("image_addr"), Num("image_vmaddr"), Num("image_size"), Str("name", "text"),
                 Uuid("uuid", "text"), Num("cpu_type"), Num("cpu_subtype")>>)

BinaryImages(name) ==
  <<Arr(name)>> \o FlattenSeq([i \in DOMAIN Listed |-> BinaryImage(Listed[i])]) \o <<EndC>>

IsStackOverflow(c) ==
  LET m == MachineContext(c, TRUE)
  IN  m # Absent /\ IsBacktraceTooLong(m, StackOverflowThreshold)

(* A stack that runs into its guard pages fails on their protection: the   *)
(* code is put right.                                                      *)
ErrorOf(c) ==
  LET code == IF c.code = "KERN_PROTECTION_FAILURE" /\ IsStackOverflow(c)
              THEN "KERN_INVALID_ADDRESS" ELSE c.code
  IN  CASE c.type = "mach" ->
             [exception |-> c.exception, code |-> code, signal |-> SignalForMachException(c.exception, code)]
        [] c.type = "signal" ->
             [exception |-> MachExceptionForSignal(c.signal), code |-> c.code, signal |-> c.signal]
        [] OTHER -> [exception |-> "EXC_CRASH", code |-> "none", signal |-> "SIGABRT"]

ErrorSection(name, c) ==
  LET error == ErrorOf(c)
      Named(field, value) == IF value = "none" THEN <<>> ELSE <<Str(field, "text")>>
      specific ==
        CASE c.type = "mach" ->
               Pair("mach", <<Num("exception")>> \o Named("exception_name", error.exception)
                              \o <<Str("code", "text")>> \o Named("code_name", error.code)
                              \o <<Str("subcode", "text")>>)
                 \o <<Str("type", "text")>>
          [] c.type = "cpp" -> <<Str("type", "text")>> \o Pair("cpp_exception", <<Str("name", c.name)>>)
          [] c.type = "nsexception" ->
               <<Str("type", "text")>>
                 \o Pair("nsexception", <<Str("name", c.name)>>
                                          \o AddressReferencedByString("referenced_object", c))
          [] c.type = "signal" ->
               Pair("signal", <<Num("signal")>> \o Named("name", error.signal) \o <<Num("code")>>
                                \o Named("code_name", error.code))
                 \o <<Str("type", "text")>>
  IN  Pair(name, <<Num("address")>>
                   \o (IF c.reason = NoName THEN <<>> ELSE <<Str("reason", "text")>>)
                   \o specific)

-----------------------------------------------------------------------------
(* The other sections. *)

ReportInfo(name, s) ==
  Pair(name, <<Str("version", "text"), Str("id", "text"), Str("process_name", s.processName), Num("timestamp")>>
               \o (IF s.clock THEN <<Num("timestamp_millis")>> ELSE <<>>) \o <<Str("type", "text")>>)

ProcessState(name) == Pair(name, <<>>)

MemoryInfo(name) == Pair(name, <<Num("usable"), Num("free")>>)

AppStats(name) ==
  Pair(name, <<Num("application_in_foreground"), Num("launches_since_last_crash"),
               Num("sessions_since_last_crash"), Dbl("active_time_since_last_crash", "finite"),
               Dbl("background_time_since_last_crash", "finite"), Num("sessions_since_launch"),
               Dbl("active_time_since_launch", "finite"), Dbl("background_time_since_launch", "finite")>>)

(* JSON that was prepared while the process was well. *)
Prepared(name, json) == IF json = NoName THEN <<>> ELSE <<Json(name, json)>>

(* BSSerializeDataCrashHandler *)
Session(s) ==
  IF s.session
  THEN <<Str("id", "text"), Str("startedAt", "text"), Num("handledCount"), Num("unhandledCount")>>
  ELSE <<>>

DataFiles(s) == <<File("config", s.config), File("metaData", s.metaData), File("state", s.state)>>

(* BugsnagBreadcrumbsWriteCrashReport *)
CrumbSection ==
  <<Arr("breadcrumbs")>>
    \o [i \in DOMAIN CrumbFiles |-> File(NoName, IF CrumbFiles[i] = None THEN "absent" ELSE "raw")]
    \o <<EndC>>

(* A callback is well-behaved if it names what it adds (and not as what is *)
(* there), adds finite numbers and JSON only, and ends no container it has *)
(* not begun; it may leave some open.                                      *)
Polite(callback) ==
  \A i \in DOMAIN callback :
    /\ callback[i].op # "endContainer" => callback[i].name \notin {NoName, "breadcrumbs"}
    /\ callback[i].arg \notin {"nan", "junk", "empty"}
    /\ Times(callback, i, {"endContainer"}) <= Times(callback, i, {"beginObject", "beginArray"})

-----------------------------------------------------------------------------
(* The steps of a report: of each section the calls, and the next section. *)

StandardSteps ==
  [ opened |-> "images", images |-> "threads", threads |-> "error", error |-> "handler",
    handler |-> "crumbs", crumbs |-> "callback", callback |-> "end" ]
MinimalSteps == [opened |-> "threads", threads |-> "error", error |-> "end"]
Steps(k) == IF k = "standard" THEN StandardSteps ELSE MinimalSteps

StandardReport(section) ==
  CASE section = "opened" ->
         <<Obj("report")>> \o ReportInfo("report", scene) \o ProcessState("process")
           \o Prepared("system", scene.system)
           \o Pair("system_atcrash", MemoryInfo("memory") \o AppStats("application_stats"))
           \o Prepared("user", scene.user)
    [] section = "images" -> BinaryImages("binary_images")
    [] section = "threads" -> <<Obj("crash")>> \o AllThreads("threads", crash)
    [] section = "error" -> ErrorSection("error", crash) \o <<EndC>>
    [] section = "handler" -> <<Obj("user_atcrash")>> \o Session(scene) \o DataFiles(scene)
    [] section = "crumbs" -> CrumbSection
    [] section = "callback" -> scene.callback \o <<EndC>>

MinimalReport(section) ==
  CASE section = "opened" -> <<Obj("report")>> \o ReportInfo("report", scene)
    [] section = "threads" -> <<Obj("crash")>> \o Thread("crashed_thread", crash, TRUE, FALSE)
    [] section = "error" -> ErrorSection("error", crash) \o <<EndC>>

-----------------------------------------------------------------------------
Init ==
  /\ ImagesInit /\ CrumbsInit
  /\ phase = "running" /\ kind = "standard"
  /\ enc = <<>>
  /\ crash = Absent /\ scene = Absent
  /\ appSteps = 0

AppStep ==
  /\ phase = "running" /\ appSteps < MaxAppSteps
  /\ appSteps' = appSteps + 1
  /\ \/ ImagesNext /\ UNCHANGED crumbVars
     \/ CrumbsNext /\ UNCHANGED imageVars
  /\ UNCHANGED <<phase, kind, enc, crash, scene>>

(* The file is created, which fails if it is there (O_EXCL), and the       *)
(* overflow of the stack is noted; then the encoder is prepared.           *)
OpenReport(k, situation) ==
  /\ kind' = k
  /\ crash' = situation.crash /\ scene' = situation.scene
  /\ enc' = [file \in DOMAIN enc \cup {k} |->
               IF Written(file) THEN enc[file] ELSE BeginEncode(situation.room)]
  /\ phase' = IF Written(k) THEN "closed" ELSE "opened"
  /\ UNCHANGED <<imageVars, crumbVars, appSteps>>

Crash == phase = "running" /\ \E s \in Situations : OpenReport("standard", s)

WriteSection ==
  /\ phase \in DOMAIN Steps(kind)
  /\ enc' = [enc EXCEPT ![kind] =
               Run(@, IF kind = "standard" THEN StandardReport(phase) ELSE MinimalReport(phase))]
  /\ phase' = Steps(kind)[phase]
  /\ UNCHANGED <<imageVars, crumbVars, kind, crash, scene, appSteps>>

EndReport ==
  /\ phase = "end"
  /\ enc' = [enc EXCEPT ![kind] = EndEncode(Run(@, <<EndC>>))]
  /\ phase' = "closed"
  /\ UNCHANGED <<imageVars, crumbVars, kind, crash, scene, appSteps>>

(* The handler itself crashes, once: then the sentries are uninstalled.  (An *)
(* NSException is not recorded any more.)                                  *)
CrashInHandler ==
  /\ phase \in DOMAIN StandardSteps /\ kind = "standard"
  /\ \E s \in Recrashes : s.crash.type # "nsexception" /\ OpenReport("minimal", s)

(* The watchdog, the user or the memory limit. *)
Killed ==
  /\ phase \notin {"running", "closed", "dead"}
  /\ phase' = "dead"
  /\ UNCHANGED <<imageVars, crumbVars, kind, enc, crash, scene, appSteps>>

Done == phase \in {"closed", "dead"} /\ UNCHANGED vars

Next == AppStep \/ Crash \/ WriteSection \/ EndReport \/ CrashInHandler \/ Killed \/ Done

Spec == Init /\ [][Next]_vars

-----------------------------------------------------------------------------
TypeOK ==
  /\ ImagesTypeOK /\ CrumbsTypeOK
  /\ phase \in DOMAIN StandardSteps \cup {"running", "end", "closed", "dead"}
  /\ kind \in {"standard", "minimal"}
  /\ DOMAIN enc \subseteq {"standard", "minimal"} /\ \A k \in DOMAIN enc : enc[k] \in Encoders
  /\ crash \in {s.crash : s \in Situations \cup Recrashes} \cup {Absent}
  /\ scene \in {s.scene : s \in Situations \cup Recrashes} \cup {Absent}
  /\ appSteps \in 0 .. MaxAppSteps

Occurrences(d, path) == Cardinality({i \in DOMAIN d.members : d.members[i] = path})

(* The sections a whole report has, with the number of each. *)
StandardContents ==
  { <<<<"report">>, 1>>, <<<<"process">>, 1>>, <<<<"system_atcrash">>, 1>>,
    <<<<"system_atcrash", "memory">>, 1>>, <<<<"system_atcrash", "application_stats">>, 1>>,
    <<<<"binary_images">>, 1>>, <<<<"binary_images", "item">>, Len(Listed)>>,
    <<<<"crash">>, 1>>, <<<<"crash", "error">>, 1>>,
    <<<<"user_atcrash">>, 1>>, <<<<"user_atcrash", "breadcrumbs">>, 1>>,
    <<<<"user_atcrash", "breadcrumbs", "item">>, Len(CrumbsInReport)>> }
MinimalContents ==
  { <<<<"report">>, 1>>, <<<<"crash">>, 1>>, <<<<"crash", "crashed_thread">>, 1>>, <<<<"crash", "error">>, 1>> }

(* Whatever happens to the process and to the disk, a file that parses is  *)
(* a whole report: each section once and at its place, every image that is *)
(* listed and every breadcrumb.  One that was written to its end, on a     *)
(* disk with room, parses.  (The callback of the application has to be     *)
(* well-behaved.)                                                          *)
ParsesWhole ==
  \A k \in DOMAIN enc : (k = "standard" => Polite(scene.callback)) =>
    /\ Parses(enc[k].doc) =>
         \A c \in IF k = "standard" THEN StandardContents ELSE MinimalContents :
           Occurrences(enc[k].doc, c[1]) = c[2]
    /\ phase = "closed" /\ k = kind /\ enc[k].room = Unlimited => Parses(enc[k].doc)
-----------------------------------------------------------------------------
(* What says nothing of the state is looked at once, in an initial state. *)
AtStart == phase = "running" /\ appSteps = 0 /\ files = [n \in Numbers |-> None]

(* What a report says of a stack is a piece of that stack, as long as it   *)
(* may be, whether the stack ends, loops or leads to memory that is gone;  *)
(* the two tests for an overflow agree; and an address gets the name of    *)
(* the symbol it lies in.                                                  *)
StacksHonest == AtStart =>
  /\ \A m \in Machines : BacktraceHonest(m) /\ OverflowAgrees(m)
  /\ \A t \in SymbolTables, a \in Addresses : SymbolNearest(t, a)

(* Memory is taken for text exactly if it is well-formed UTF-8 with an end; *)
(* and text is written whole and within the work buffer, wherever it is     *)
(* cut.                                                                     *)
TextsFaithful == AtStart =>
  /\ \A mem \in Memories : TextExact(mem, MinStringLength)
  /\ \A s \in Strings : EscapeFaithful(s)

(* The algorithms that work on the memory of a process that is broken, or  *)
(* on text of any length in a buffer of a fixed one, do what they should.  *)
ToolsFaithful == StacksHonest /\ TextsFaithful
=============================================================================
