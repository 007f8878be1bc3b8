----------------------------- MODULE CrashTools -----------------------------
(***************************************************************************)
(* The algorithms the crash recorder runs inside a process that has        *)
(* crashed, where nothing may be allocated and no lock taken: walking the  *)
(* stack (BSG_KSBacktrace.c), looking for text in memory (BSG_KSString.c), *)
(* formatting numbers and escaping text (BSG_KSJSONCodec.c), translating   *)
(* signals and Mach exceptions (BSG_KSSignalInfo.c), and finding symbols   *)
(* (BSG_KSDynamicLinker.c).                                                *)
(*                                                                         *)
(* Addresses are small numbers, 0 is NULL; text is a sequence of classes   *)
(* of bytes.  All recursion is by recursive functions.                     *)
(***************************************************************************)
EXTENDS Integers, Sequences, SequencesExt, FiniteSetsExt

CONSTANTS
  MaxBacktraceDepth,       \* BSG_kMaxBacktraceDepth, 150 in the code
  StackOverflowThreshold,  \* BSG_kStackOverflowThreshold, 200
  GiveUpPoint,             \* BSG_kBacktraceGiveUpPoint, 10000000
  WorkBufferSize,          \* BSG_KSJSONCODEC_WorkBufferSize, 512
  SignificantDigits,       \* MAX_SIGNIFICANT_DIGITS, 7
  WordWidth                \* bits of an int64_t

ASSUME ToolsAssumption ==
  /\ MaxBacktraceDepth \in Nat \ {0}
  /\ StackOverflowThreshold \in Nat /\ StackOverflowThreshold > MaxBacktraceDepth + 1
  /\ GiveUpPoint \in Nat /\ GiveUpPoint > StackOverflowThreshold
  /\ WorkBufferSize \in Nat /\ WorkBufferSize >= 6
  /\ SignificantDigits \in Nat \ {0}
  /\ WordWidth \in Nat \ {0}

NULL == 0

-----------------------------------------------------------------------------
(* Stacks.  A machine context is a record: ip and lr are the instruction   *)
(* address and the link register, fp the frame pointer; readable are the   *)
(* addresses of frames that vm_read_overwrite can copy, prev and ret what  *)
(* a frame holds.                                                          *)

(* Frames(m)[k] is the address of the k-th frame as the loops find it, or NULL. *)
Frames(m) ==
  LET Copied(a) == IF a # NULL /\ a \in m.readable THEN a ELSE NULL
      frame[k \in 1 .. GiveUpPoint + 1] ==
        IF k = 1 THEN Copied(m.fp)
        ELSE IF frame[k - 1] = NULL THEN NULL ELSE Copied(m.prev[frame[k - 1]])
  IN  frame

(* An unreadable frame pointer still leaves the instruction address. *)
BacktraceLength(m) ==
  IF m.ip = NULL THEN 0
  ELSE IF Frames(m)[1] = NULL THEN 1
  ELSE Max({k \in 1 .. GiveUpPoint : Frames(m)[k] # NULL})

(* The early return for an unreadable frame pointer is "return 1" here too, *)
(* in a function that returns a Boolean.                                     *)
IsBacktraceTooLong(m, maxLength) ==
  /\ m.ip # NULL
  /\ \/ Frames(m)[1] = NULL
     \/ Frames(m)[maxLength] # NULL

(* An entry is counted only if its address is not 0 and the next frame can *)
(* be read; a frame pointer that cannot be read drops what was stored.     *)
BacktraceThreadState(m, skipEntries, maxEntries) ==
  LET registers == (IF skipEntries = 0 THEN <<m.ip>> ELSE <<>>)
                     \o (IF skipEntries <= 1 /\ m.lr # NULL THEN <<m.lr>> ELSE <<>>)
      first == Max({1, skipEntries})
      room == maxEntries - Len(registers)
      counted == {n \in 0 .. room :
                    \A j \in 0 .. n - 1 : /\ m.ret[Frames(m)[first + j]] # NULL
                                          /\ Frames(m)[first + j + 1] # NULL}
  IN  IF room <= 0 THEN SubSeq(registers, 1, maxEntries)
      ELSE IF Frames(m)[first] = NULL THEN <<>>
      ELSE registers \o [j \in 1 .. Max(counted) |-> m.ret[Frames(m)[first + j - 1]]]

(* Mutant: a stack of just StackOverflowThreshold entries is not cut. *)
MutGetBacktrace(m) ==
  LET length == BacktraceLength(m)
      skipped == IF length > StackOverflowThreshold THEN length - MaxBacktraceDepth ELSE 0
  IN  [entries |-> BacktraceThreadState(m, skipped, MaxBacktraceDepth), skipped |-> skipped]

(* A stack of StackOverflowThreshold entries or more is cut at its top, so *)
(* that the outermost frames remain.                                       *)
GetBacktrace(m) ==
  LET length == BacktraceLength(m)
      skipped == IF length >= StackOverflowThreshold THEN length - MaxBacktraceDepth ELSE 0
  IN  [entries |-> BacktraceThreadState(m, skipped, MaxBacktraceDepth), skipped |-> skipped]

-----------------------------------------------------------------------------
(* Text in memory.  Classes of bytes: "nul", "print" (printable ASCII, tab *)
(* and line ends), "control", "cont" (10xxxxxx), "lead1" .. "lead3" (the   *)
(* first byte of a character with that many continuation bytes), "bad".    *)

Bytes == {"nul", "print", "control", "cont", "lead1", "lead2", "lead3", "bad"}

ContinuationByteCount(byte) ==
  CASE byte = "lead1" -> 1 [] byte = "lead2" -> 2 [] byte = "lead3" -> 3 [] OTHER -> 0

(* mem is the whole buffer, of maxLength bytes. *)
IsNullTerminatedUTF8String(mem, minLength) ==
  LET maxLength == Len(mem)
      scan[i \in Nat] ==     \* i bytes have been passed
        IF i >= maxLength THEN FALSE
        ELSE LET byte == mem[i + 1]
                 n == ContinuationByteCount(byte)
             IN  CASE byte = "nul" -> i >= minLength
                   [] byte \in {"cont", "bad", "control"} -> FALSE
                   [] byte = "print" -> scan[i + 1]
                   [] OTHER -> /\ i + n < maxLength
                               /\ \A j \in 1 .. n : mem[i + 1 + j] = "cont"
                               /\ scan[i + 1 + n]
  IN  scan[0]

(* Characters are the numbers 0 .. 15 for hex digits, 16 for x and 17 for  *)
(* any other.  The value wraps like a uint64_t.                            *)
ExtractHexValue(string) ==
  LET Hex(i) == i <= Len(string) /\ string[i] < 16
      prefixes == {i \in 1 .. Len(string) - 1 : string[i] = 0 /\ string[i + 1] = 16}
      value == Min(prefixes) + 2
      accum[i \in Nat, a \in Nat] ==
        IF Hex(i) THEN accum[i + 1, (a * 16 + string[i]) % 2^WordWidth] ELSE a
  IN  IF prefixes = {} \/ ~Hex(value) THEN [found |-> FALSE, value |-> 0]
      ELSE [found |-> TRUE, value |-> accum[value, 0]]

-----------------------------------------------------------------------------
(* Escaping.  A unit of text is "plain", "quote" (backslash or quotation   *)
(* mark), "letter" (an escape with a letter, as a new line) or "control"   *)
(* (six characters).  What is written is a sequence of chunks, each one    *)
(* call of addJSONData, of pairs of the unit and the number of a character *)
(* of its escape.                                                          *)

Units == {"plain", "quote", "letter", "control"}

Escaped(unit) ==
  LET size == CASE unit = "plain" -> 1 [] unit \in {"quote", "letter"} -> 2 [] unit = "control" -> 6
  IN  [i \in 1 .. size |-> <<unit, i>>]

AppendEscapedString(s) ==
  LET plain == Max({n \in 0 .. Len(s) : \A i \in 1 .. n : s[i] = "plain"})
      chunk[i \in 1 .. Len(s) + 1] ==          \* the chunks before s[i], the last one still in the buffer
        IF i <= plain + 1 THEN << [j \in 1 .. plain |-> <<"plain", 1>>] >>
        ELSE LET before == chunk[i - 1]
                 dst == before[Len(before)]
             IN  IF Len(dst) + 6 > WorkBufferSize
                 THEN Append(before, Escaped(s[i - 1]))
                 ELSE Append(Front(before), dst \o Escaped(s[i - 1]))
  IN  chunk[Len(s) + 1]

AddEscapedString(s) ==
  LET add[offset \in Nat] ==
        IF offset >= Len(s) THEN <<>>
        ELSE LET toAdd == Min({Len(s) - offset, WorkBufferSize})
             IN  AppendEscapedString(SubSeq(s, offset + 1, offset + toAdd)) \o add[offset + toAdd]
  IN  add[0]

-----------------------------------------------------------------------------
(* Numbers. *)

(* The digits are put in from the end of the buffer. *)
UInt64ToString(value) ==
  LET digits[v \in Nat] == IF v \div 10 = 0 THEN <<v % 10>> ELSE Append(digits[v \div 10], v % 10)
  IN  digits[value]

(* Mutant: the magnitude is taken for a signed number. *)
MutInt64ToString(value) ==
  IF value < 0
  THEN [negative |-> TRUE, digits |-> UInt64ToString((-value) % 2^(WordWidth - 1))]
  ELSE [negative |-> FALSE, digits |-> UInt64ToString(value)]

(* Negating the least number overflows: the build wraps, and the result as *)
(* an unsigned number is the right one.                                    *)
Int64ToString(value) ==
  IF value < 0
  THEN [negative |-> TRUE, digits |-> UInt64ToString((-value) % 2^WordWidth)]
  ELSE [negative |-> FALSE, digits |-> UInt64ToString(value)]

DigitCount(n) == Len(UInt64ToString(n))

(* value is n / 10^k, not 0.  (int)log10 truncates towards zero; below one *)
(* the code subtracts one more, which is one too many for the powers of    *)
(* ten: these are normalized to 10 and corrected.  The result is the       *)
(* significant digits as a number, and the exponent.                       *)
PositiveDouble(n, k) ==
  LET log10 == DigitCount(n) - 1 - k
      power == n = 10^(DigitCount(n) - 1)
      truncated == IF n < 10^k /\ ~power THEN log10 + 1 ELSE log10
      exponent == IF n < 10^k THEN truncated - 1 ELSE truncated
      corrected == IF exponent < log10 THEN exponent + 1 ELSE exponent
      shift == SignificantDigits - 1 - corrected - k   \* digits_and_remainder = n * 10^shift
      num == IF shift >= 0 THEN n * 10^shift ELSE n
      den == IF shift >= 0 THEN 1 ELSE 10^(-shift)
      digits == num \div den + (IF 2 * (num % den) >= den THEN 1 ELSE 0)
  IN  IF digits >= 10^SignificantDigits
      THEN [digits |-> digits \div 10, exponent |-> corrected + 1]
      ELSE [digits |-> digits, exponent |-> corrected]

(* The digits that are printed: trailing zeros go. *)
PrintedDigits(d) ==
  LET all == UInt64ToString(d)
      kept == Max({1} \cup {i \in 1 .. Len(all) : all[i] # 0})
  IN  SubSeq(all, 1, kept)

-----------------------------------------------------------------------------
(* Signals and Mach exceptions, by name; "none" is 0. *)

MachExceptionForSignal(sig) ==
  CASE sig = "SIGFPE" -> "EXC_ARITHMETIC"
    [] sig \in {"SIGSEGV", "SIGBUS"} -> "EXC_BAD_ACCESS"
    [] sig = "SIGILL" -> "EXC_BAD_INSTRUCTION"
    [] sig = "SIGTRAP" -> "EXC_BREAKPOINT"
    [] sig = "SIGEMT" -> "EXC_EMULATION"
    [] sig = "SIGSYS" -> "EXC_UNIX_BAD_SYSCALL"
    [] sig = "SIGPIPE" -> "EXC_UNIX_BAD_PIPE"
    [] sig = "SIGABRT" -> "EXC_CRASH"
    [] sig = "SIGKILL" -> "EXC_SOFT_SIGNAL"
    [] OTHER -> "none"

SignalForMachException(exception, code) ==
  CASE exception = "EXC_ARITHMETIC" -> "SIGFPE"
    [] exception = "EXC_BAD_ACCESS" -> IF code = "KERN_INVALID_ADDRESS" THEN "SIGSEGV" ELSE "SIGBUS"
    [] exception = "EXC_BAD_INSTRUCTION" -> "SIGILL"
    [] exception = "EXC_BREAKPOINT" -> "SIGTRAP"
    [] exception = "EXC_EMULATION" -> "SIGEMT"
    [] exception = "EXC_SOFTWARE" /\ code = "EXC_UNIX_BAD_SYSCALL" -> "SIGSYS"
    [] exception = "EXC_SOFTWARE" /\ code = "EXC_UNIX_BAD_PIPE" -> "SIGPIPE"
    [] exception = "EXC_SOFTWARE" /\ code = "EXC_UNIX_ABORT" -> "SIGABRT"
    [] exception = "EXC_SOFTWARE" /\ code = "EXC_SOFT_SIGNAL" -> "SIGKILL"
    [] OTHER -> "none"

-----------------------------------------------------------------------------
(* Symbols of one image, as they stand in its table; a symbol with the     *)
(* value 0 is external.  Of several at the same distance the last wins.    *)
NearestSymbol(symbolTable, addressWithSlide) ==
  LET best[i \in 0 .. Len(symbolTable)] ==
        IF i = 0 THEN 0
        ELSE LET value == symbolTable[i]
                 rest == best[i - 1]
             IN  IF /\ value # 0 /\ addressWithSlide >= value
                    /\ rest = 0 \/ addressWithSlide - value <= addressWithSlide - symbolTable[rest]
                 THEN i ELSE rest
  IN  best[Len(symbolTable)]
-----------------------------------------------------------------------------
(* Reference definitions, for one input each. *)

(* The whole stack: the instruction address and the return addresses of    *)
(* all frames but the last, whose return address leads to no code.         *)
Walk(m) == <<m.ip>> \o [k \in 1 .. BacktraceLength(m) - 1 |-> m.ret[Frames(m)[k]]]

(* What is written of a stack is one piece of it, from behind the skipped  *)
(* entries up to a missing return address, the limit or the end; it fits   *)
(* the buffer, and a stack that is too long is shown to its outermost      *)
(* frame.  (The link register, where there is one, is put in after the     *)
(* instruction address.)                                                   *)
BacktraceHonest(m) ==
  LET b == GetBacktrace(m)
      walk == Walk(m)
      whole == \A k \in DOMAIN walk : walk[k] # NULL
      withoutLink == IF m.lr # NULL /\ b.skipped = 0 /\ Len(b.entries) >= 2
                     THEN <<b.entries[1]>> \o SubSeq(b.entries, 3, Len(b.entries)) ELSE b.entries
  IN  /\ Len(b.entries) <= MaxBacktraceDepth
      /\ b.skipped > 0 <=> BacktraceLength(m) >= StackOverflowThreshold
      /\ m.ip # NULL /\ Frames(m)[1] # NULL =>
           /\ withoutLink = SubSeq(walk, b.skipped + 1, b.skipped + Len(withoutLink))
           /\ whole /\ b.skipped > 0 => b.skipped + Len(b.entries) = Len(walk)
           /\ whole /\ b.skipped = 0 => Len(b.entries) >= Min({Len(walk), MaxBacktraceDepth})

(* The two places that look for an overflow agree: the flag that changes   *)
(* the error of the report (line 1448 of BSG_KSCrashReport.c) and the      *)
(* number of entries that were cut off.  They do not where the frame       *)
(* pointer cannot be read: IsBacktraceTooLong says yes.                    *)
OverflowAgrees(m) ==
  IsBacktraceTooLong(m, StackOverflowThreshold)
    <=> \/ GetBacktrace(m).skipped > 0
        \/ m.ip # NULL /\ Frames(m)[1] = NULL

(* Text is text exactly if it can be cut into characters before the first  *)
(* NUL, which lies in the buffer and not before minLength.                 *)
TextExact(mem, minLength) ==
  LET nul == {i \in DOMAIN mem : mem[i] = "nul"}
      Inside(i, j) == mem[j] \in {"lead1", "lead2", "lead3"} /\ i - j <= ContinuationByteCount(mem[j])
      wellFormed == \A i \in 1 .. Min(nul) :
        /\ mem[i] \notin {"control", "bad"}
        /\ mem[i] = "cont" <=> \E j \in 1 .. i - 1 : Inside(i, j)
  IN  IsNullTerminatedUTF8String(mem, minLength) <=>
        /\ nul # {}
        /\ wellFormed
        /\ Min(nul) - 1 >= minLength

(* The value is that of the digits behind the first 0x, of which there is  *)
(* one at least; of those that are too many the last count.                *)
HexExact(string) ==
  LET At(i) == i < Len(string) /\ string[i] = 0 /\ string[i + 1] = 16
      x == ExtractHexValue(string)
  IN  /\ x.found <=> \E i \in 1 .. Len(string) - 2 :
           At(i) /\ string[i + 2] < 16 /\ \A j \in 1 .. i - 1 : ~At(j)
      /\ x.found => \E i \in 1 .. Len(string) - 2, n \in 1 .. Len(string) :
           /\ At(i) /\ \A j \in 1 .. i - 1 : ~At(j)
           /\ \A j \in i + 2 .. i + 1 + n : j <= Len(string) /\ string[j] < 16
           /\ i + 2 + n > Len(string) \/ string[i + 2 + n] >= 16
           /\ x.value = FoldLeft(LAMBDA acc, d : 16 * acc + d, 0, SubSeq(string, i + 2, i + 1 + n)) % 2^WordWidth

(* However a text is cut, no chunk is longer than the work buffer, and     *)
(* what is written is the escape of each unit in order.                    *)
EscapeFaithful(s) ==
  LET chunks == AddEscapedString(s)
  IN  /\ \A c \in DOMAIN chunks : Len(chunks[c]) <= WorkBufferSize
      /\ FlattenSeq(chunks) = FlattenSeq([i \in DOMAIN s |-> Escaped(s[i])])

(* The digits of an integer of WordWidth bits are those of its magnitude,  *)
(* without a leading zero, in the buffer's size.                           *)
IntegerExact(value) ==
  LET s == Int64ToString(value)
      magnitude == FoldLeft(LAMBDA acc, d : 10 * acc + d, 0, s.digits)
  IN  /\ value = IF s.negative THEN -magnitude ELSE magnitude
      /\ Len(s.digits) > 1 => s.digits[1] # 0
      /\ Len(s.digits) <= DigitCount(2^WordWidth - 1)

(* p, which stands for n / 10^k, has SignificantDigits digits, the nearest  *)
(* there are, and rounded up from the middle.                              *)
Nearest(p, n, k) ==
  LET unit == p.exponent - SignificantDigits + 1       \* the value of the last digit is 10^unit
      scale == Max({0, -unit, k})
      printed == p.digits * 10^(unit + scale)
      value == n * 10^(scale - k)
  IN  /\ p.digits \in 10^(SignificantDigits - 1) .. 10^SignificantDigits - 1
      /\ 2 * (printed - value) <= 10^(unit + scale)
      /\ 2 * (value - printed) < 10^(unit + scale)

(* The last of the digits that are printed is none of the zeros that go. *)
DecimalNearest(n, k) ==
  LET p == PositiveDouble(n, k)
      shown == PrintedDigits(p.digits)
  IN  Nearest(p, n, k) /\ shown[Len(shown)] # 0

(* The symbol is the nearest one at or below the address. *)
SymbolNearest(symbolTable, address) ==
  LET candidates == {symbolTable[i] : i \in DOMAIN symbolTable} \ {0}
      found == NearestSymbol(symbolTable, address)
  IN  IF \E v \in candidates : v <= address
      THEN found # 0 /\ symbolTable[found] = Max({v \in candidates : v <= address})
      ELSE found = 0
=============================================================================
