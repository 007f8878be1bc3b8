--------------------------- MODULE MCCrashReport ---------------------------
(***************************************************************************)
(* A small process: two images, two threads that load and unload them, two *)
(* that leave breadcrumbs, stacks of at most six frames; and the           *)
(* algorithms of CrashTools over all small inputs.                         *)
(***************************************************************************)
EXTENDS CrashReport

CONSTANTS app, plugin       \* images

AllImages == {app, plugin}
AllTexts == STRING
Apart == (app :> 1) @@ (plugin :> 2)

\* Threads differ only in what they do.
ThreadSymmetry == Permutations(Loader) \cup Permutations(Writer)

(* Frame i + 1 is above frame i; a stack of n frames. *)
Stack(n) ==
  [ip |-> 9, lr |-> NULL, fp |-> 1, sp |-> 1, readable |-> 1 .. n,
   prev |-> <<2, 3, 4, 5, 6, 7>>, ret |-> <<2, 4, 6, 8, 10, 12>>]
Section(readable, version) == [section |-> TRUE, readable |-> readable, version |-> version, message |-> "text"]

Segfault ==
  [type |-> "mach", thread |-> Stack(3), other |-> Stack(1), stack |-> <<>>,
   exception |-> "EXC_BAD_ACCESS", code |-> "KERN_INVALID_ADDRESS", signal |-> "none",
   name |-> NoName, reason |-> NoName, hex |-> FALSE, memory |-> <<"print", "print", "nul">>,
   tracing |-> TRUE, introspect |-> TRUE, listable |-> TRUE,
   image |-> app, info |-> Section(TRUE, 5)]
Overflow ==
  [Segfault EXCEPT !.thread = Stack(6), !.other = Absent, !.code = "KERN_PROTECTION_FAILURE",
                   !.image = plugin, !.info = Section(TRUE, 6), !.memory = <<"control">>]
Wild == [Segfault EXCEPT !.type = "signal", !.signal = "SIGSEGV", !.code = "SEGV_MAPERR",
                         !.exception = "none", !.thread.ip = NULL, !.thread.sp = NULL, !.tracing = FALSE, !.introspect = FALSE]
Abort ==
  [Segfault EXCEPT !.type = "signal", !.signal = "SIGABRT", !.listable = FALSE,
                   !.exception = "none", !.code = "none"]
Thrown ==
  [Abort EXCEPT !.type = "cpp", !.signal = "none", !.stack = <<3, 5>>, !.name = "text",
                !.listable = TRUE, !.image = "nowhere"]
Raised ==
  [Thrown EXCEPT !.type = "nsexception", !.reason = "text", !.hex = TRUE, !.stack = <<>>]

Plain ==
  [processName |-> "text", clock |-> TRUE, session |-> TRUE, config |-> "raw", metaData |-> "raw",
   state |-> "raw", system |-> "raw", user |-> NoName, callback |-> <<>>]
Courteous == [Plain EXCEPT !.user = "word", !.session = FALSE, !.metaData = "absent",
              !.callback = <<Obj("a"), Num("b"), EndC, Arr("c"), Str("d", "text"), Text("e", "text"), Dbl("f", "finite")>>]
Early == [Plain EXCEPT !.processName = NoName, !.clock = FALSE, !.system = NoName, !.state = "absent", !.config = "absent"]
Rude == [Plain EXCEPT !.callback = <<EndC, EndC, Num("x")>>]

Situation(c, s, r) == [crash |-> c, scene |-> s, room |-> r]
SomeSituations ==
  { Situation(Segfault, Plain, Unlimited), Situation(Overflow, Courteous, Unlimited),
    Situation(Wild, Early, Unlimited), Situation(Abort, Courteous, Unlimited),
    Situation(Thrown, Early, 40), Situation(Raised, Rude, Unlimited), Situation(Segfault, Plain, 160) }
SomeRecrashes == { Situation(Overflow, Plain, Unlimited), Situation(Abort, Plain, 60) }

SomeSymbols == <<3, 0, 6>>
-----------------------------------------------------------------------------
(* Every stack of up to four frames, with loops and with frames that cannot *)
(* be read, with and without a link register, and with one return address  *)
(* that is 0.                                                               *)
SmallMachines ==
  { [ip |-> ip, lr |-> lr, fp |-> fp, sp |-> fp, readable |-> readable, prev |-> prev,
     ret |-> [i \in 1 .. 4 |-> IF i = zero THEN NULL ELSE i]] :
       ip \in {0, 9}, lr \in {0, 8}, fp \in {0, 1}, readable \in {1 .. 4, 1 .. 2, {1, 3, 4}, {2, 3}},
       prev \in [1 .. 4 -> 0 .. 4], zero \in {0, 2} }

SmallTables == UNION {[1 .. n -> 0 .. 3] : n \in 0 .. 3}

SmallMemories == UNION {[1 .. n -> Bytes] : n \in 1 .. 4}

(* Longer texts, for the work buffer to fill, begin with two plain units. *)
SmallStrings ==
  UNION {{s \in [1 .. n -> {"plain", "quote", "control"}] : n <= 5 \/ (s[1] = "plain" /\ s[2] = "plain")} : n \in 0 .. 9}

(* An address in a text is found and read to its end; integers are written *)
(* exactly, from the least to the largest, and decimals with the nearest   *)
(* significant digits.                                                     *)
ValuesFaithful == AtStart =>
  /\ \A n \in 0 .. 6 : \A s \in [1 .. n -> {0, 11, 16, 17}] : HexExact(s)
  /\ \A v \in -2^(WordWidth - 1) .. 2^(WordWidth - 1) - 1 : IntegerExact(v)
  /\ \A n \in 1 .. 1200 \cup 9990 .. 10010, k \in 0 .. 4 : DecimalNearest(n, k)
=============================================================================
