-------------------------------- MODULE Util ---------------------------------
(***************************************************************************)
(* Two pieces of src/util with control worth checking.                     *)
(*                                                                         *)
(* DoWriteStringToFile (env.cpp): a chain of Env calls (NewWritableFile,   *)
(* Append, Sync when asked, Close), each of which may fail, then deleting  *)
(* the WritableFile object and, after a failure, DeleteFile.  The program  *)
(* calls WriteStringToFile or WriteStringToFileSync on one file name up    *)
(* to MaxCalls times.  The file is abstracted to whether it exists, whose  *)
(* data it holds (all of it or a torn prefix) and whether it was synced;   *)
(* NewWritableFile truncates an existing file (env_test.cpp, lines         *)
(* 172-194).  Between two calls the program may read the file back with   *)
(* ReadFileToString into the same std::string each time, as env_test.cpp  *)
(* does.  The data of call c is two fragments of kBufferSize bytes or      *)
(* less, so the read loop takes more than one pass.  The Env              *)
(* implementation is not in the repository, so every call's success or    *)
(* failure is a nondeterministic choice.                                   *)
(*                                                                         *)
(* ConsumeDecimalNumber (logging.cpp): a pure operator over a sequence of  *)
(* character codes, at a word width of W bits instead of 64, compared     *)
(* with the value the digits denote.                                       *)
(***************************************************************************)
EXTENDS Integers, Sequences, SequencesExt

CONSTANTS
  MaxCalls,  \* WriteStringToFile calls the program makes
  W,         \* word width of ConsumeDecimalNumber's uint64_t, scaled down
  Chars,     \* character codes its input may hold
  MaxLen,    \* longest input checked
  Bytes      \* byte values of the Slices given to Compare and EscapeString

VARIABLES
  pc,      \* where the current call is, "idle" between calls
  call,    \* number of the current (or last) call
  sync,    \* should_sync of the current call
  s,       \* the Status s; "ok" or the step whose error it holds
  file,    \* the WritableFile object: "none", "open" or "closed"
  fs,      \* the file named fname
  fails,   \* history: the steps of the current call that failed, in order
  rdata,   \* the std::string ReadFileToString fills (the caller's `data`)
  rs,      \* the Status ReadFileToString returned, "none" before the first
  rpos,    \* bytes the SequentialFile has read, in fragments
  rafter   \* history: the write calls made before the last read began

writeVars == <<call, sync, s, file, fs, fails>>
readVars  == <<rdata, rs, rpos, rafter>>
vars == <<pc, call, sync, s, file, fs, fails, rdata, rs, rpos, rafter>>

(* What call c's Append writes: two fragments, each named by the call. *)
Content(c) == <<<<c, 1>>, <<c, 2>>>>

Init ==
  /\ pc = "idle" /\ call = 0 /\ sync = FALSE /\ s = "ok"
  /\ file = "none"
  /\ fs = [exists |-> FALSE, data |-> <<>>, synced |-> FALSE]
  /\ fails = <<>>
  /\ rdata = <<>> /\ rs = "none" /\ rpos = 0 /\ rafter = 0

(* The status after a step that succeeded (ok) or failed. *)
Result(ok, step) == IF ok THEN "ok" ELSE step

(* The branch taken after a step whose status is st: the next call, or   *)
(* straight to `delete file` once s holds an error (lines 43-49).          *)
ThenAlways(st, next) == next

Then(st, next) == IF st = "ok" THEN next ELSE "free"

AfterAppendNoSync(st) == Then(st, "close")

(* Line 43: Sync only when should_sync and Append succeeded. *)
AfterAppend(st) == IF sync THEN Then(st, "sync") ELSE Then(st, "close")

Fail(step, ok) == fails' = IF ok THEN fails ELSE Append(fails, step)

(* WriteStringToFile / WriteStringToFileSync (lines 56-64) enter         *)
(* DoWriteStringToFile.                                                   *)
Start ==
  /\ pc = "idle" /\ call < MaxCalls
  /\ call' = call + 1
  /\ \E b \in BOOLEAN : sync' = b
  /\ pc' = "new" /\ s' = "ok" /\ fails' = <<>>
  /\ UNCHANGED <<file, fs>>

(* Lines 37-41: NewWritableFile creates or truncates the file; on failure *)
(* the function returns its status at once.                               *)
NewWritableFile ==
  /\ pc = "new"
  /\ \E ok \in BOOLEAN :
       /\ s' = Result(ok, "new") /\ Fail("new", ok)
       /\ IF ok THEN /\ file' = "open" /\ pc' = "append"
                     /\ fs' = [exists |-> TRUE, data |-> <<>>, synced |-> FALSE]
                ELSE /\ pc' = "idle" /\ UNCHANGED <<file, fs>>
  /\ UNCHANGED <<call, sync>>

(* Line 42: Append writes all of data, or fails having written a prefix. *)
AppendData ==
  /\ pc = "append"
  /\ \E ok \in BOOLEAN :
       /\ s' = Result(ok, "append") /\ Fail("append", ok)
       /\ pc' = AfterAppend(s')
       /\ IF ok THEN fs' = [fs EXCEPT !.data = Content(call)]
                ELSE \E k \in 0 .. 1 : fs' = [fs EXCEPT !.data = SubSeq(Content(call), 1, k)]
  /\ UNCHANGED <<call, sync, file>>

(* Line 44. *)
Sync ==
  /\ pc = "sync"
  /\ \E ok \in BOOLEAN :
       /\ s' = Result(ok, "sync") /\ Fail("sync", ok)
       /\ pc' = Then(s', "close")
       /\ fs' = [fs EXCEPT !.synced = ok]
  /\ UNCHANGED <<call, sync, file>>

(* Lines 46-48: Close releases the descriptor whether or not it fails. *)
Close ==
  /\ pc = "close"
  /\ \E ok \in BOOLEAN :
       /\ s' = Result(ok, "close") /\ Fail("close", ok)
       /\ pc' = "free" /\ file' = "closed"
  /\ UNCHANGED <<call, sync, fs>>

(* Lines 50-52: with an ok status the call returns, with an error it    *)
(* goes on to DeleteFile.                                                 *)
AfterFreeNoUnlink(st) == "idle"

AfterFree(st) == IF st = "ok" THEN "idle" ELSE "unlink"

(* Line 49: `delete file` closes it if still open (its error is lost).   *)
Free ==
  /\ pc = "free"
  /\ file' = "none"
  /\ pc' = AfterFree(s)
  /\ UNCHANGED <<call, sync, s, fs, fails>>

(* Lines 50-53: after an error DeleteFile, whose own status is ignored,  *)
(* then return s.  Its failure is kept in the history only.              *)
DeleteFile ==
  /\ pc = "unlink"
  /\ \E ok \in BOOLEAN :
       /\ fs' = IF ok THEN [exists |-> FALSE, data |-> <<>>, synced |-> FALSE]
                      ELSE fs
       /\ Fail("unlink", ok)
  /\ pc' = "idle"
  /\ UNCHANGED <<call, sync, s, file>>

(* ReadFileToString, lines 66-72: data->clear(), then NewSequentialFile, *)
(* which fails (NotFound) when the file does not exist and may fail      *)
(* anyway; on failure the status is returned with data left empty.       *)
ClearKeeps(d) == d

Clear(d) == <<>>

ReadOpen ==
  /\ pc = "idle"
  /\ rdata' = Clear(rdata) /\ rafter' = call
  /\ \E ok \in BOOLEAN :
       /\ ok => fs.exists
       /\ IF ok THEN pc' = "read" /\ rs' = "ok" /\ rpos' = 0
                ELSE pc' = "idle" /\ rs' = "new" /\ UNCHANGED rpos
  /\ UNCHANGED writeVars

(* Lines 75-88, one pass of the loop: Read gives the next fragment, or   *)
(* an empty one at the end of the file, which ends the loop with ok; a   *)
(* failed Read breaks out before appending.  Then the buffer and the     *)
(* SequentialFile are deleted and the status returned.                   *)
ReadFragment ==
  /\ pc = "read"
  /\ \E ok \in BOOLEAN :
       IF ~ok
         THEN pc' = "idle" /\ rs' = "read" /\ UNCHANGED <<rdata, rpos>>
         ELSE LET frag == IF rpos < Len(fs.data) THEN <<fs.data[rpos + 1]>> ELSE <<>>
              IN /\ rdata' = rdata \o frag
                 /\ rpos' = rpos + Len(frag)
                 /\ pc' = IF frag = <<>> THEN "idle" ELSE "read"
                 /\ UNCHANGED rs
  /\ UNCHANGED <<writeVars, rafter>>

WriteStep == Start \/ NewWritableFile \/ AppendData \/ Sync \/ Close \/ Free \/ DeleteFile

Next == (WriteStep /\ UNCHANGED readVars) \/ ReadOpen \/ ReadFragment

Spec == Init /\ [][Next]_vars

-----------------------------------------------------------------------------
(* Slice (slice.h) as the sequence of its bytes, each 0 .. 255.           *)

(* RemovePrefix, lines 35-39; the assert keeps n <= Size(). *)
RemovePrefix(in, n) == SubSeq(in, n + 1, Len(in))

(* memcmp over the first n bytes: the difference of the first pair that  *)
(* differs, compared as unsigned char, or 0.                              *)
MemcmpSigned(a, b, n) ==
  LET d == {i \in 1 .. n : a[i] # b[i]}
      sc(x) == IF x >= 128 THEN x - 256 ELSE x
  IN IF d = {} THEN 0 ELSE sc(a[Min(d)]) - sc(b[Min(d)])

Memcmp(a, b, n) ==
  LET d == {i \in 1 .. n : a[i] # b[i]}
  IN IF d = {} THEN 0 ELSE a[Min(d)] - b[Min(d)]

(* Compare, lines 64-72. *)
Compare(a, b) ==
  LET r == Memcmp(a, b, Min({Len(a), Len(b)}))
  IN IF r # 0 THEN r
     ELSE IF Len(a) < Len(b) THEN -1
     ELSE IF Len(a) > Len(b) THEN 1
     ELSE 0

(* StartWith, lines 45-48, and operator==, lines 55-58. *)
StartWith(a, x) == Len(a) >= Len(x) /\ Memcmp(a, x, Len(x)) = 0

SliceEq(x, y) == Len(x) = Len(y) /\ Memcmp(x, y, Len(x)) = 0

-----------------------------------------------------------------------------
(* AppendEscapedStringTo (logging.cpp, lines 16-28).  `char` is signed or *)
(* unsigned as the platform chooses: a byte of 128 .. 255 read as a signed *)
(* char is negative.                                                      *)
CharOf(b, signedChar) == IF signedChar /\ b >= 128 THEN b - 256 ELSE b

Printable(c) == 32 <= c /\ c <= 126

HexChar(d) == IF d < 10 THEN 48 + d ELSE 87 + d

RECURSIVE HexDigits(_)
HexDigits(n) ==
  IF n < 16 THEN <<HexChar(n)>> ELSE HexDigits(n \div 16) \o <<HexChar(n % 16)>>

(* "%02x": at least two digits. *)
Pad2(d) == IF Len(d) < 2 THEN <<48>> \o d ELSE d

(* The digits of static_cast<unsigned int>(c): c modulo 2^32, so a        *)
(* negative char has 24 leading one bits.                                 *)
UIntDigitsNoMask(c) ==
  IF c >= 0 THEN HexDigits(c) ELSE HexDigits(2^24 - 1) \o Pad2(HexDigits(c + 256))

(* Line 24: the argument masked with & 0xff. *)
UIntDigits(c) == HexDigits(c % 256)

(* snprintf(buf, 10, ...) keeps at most 9 characters. *)
Truncated(t, n) == IF Len(t) <= n THEN t ELSE SubSeq(t, 1, n)

EscapeChar(c) ==
  IF Printable(c) THEN <<c>> ELSE Truncated(<<92, 120>> \o Pad2(UIntDigits(c)), 9)

AppendEscapedStringTo(str, value, signedChar) ==
  FoldLeft(LAMBDA acc, b : acc \o EscapeChar(CharOf(b, signedChar)), str, value)

EscapeString(value, signedChar) == AppendEscapedStringTo(<<>>, value, signedChar)

-----------------------------------------------------------------------------
(* ConsumeDecimalNumber, lines 42-75, at W bits. *)
Zero == 48
Nine == 57
MaxU == 2^W - 1
LastDigit == Zero + (MaxU % 10)

IsDigit(c) == Zero <= c /\ c <= Nine

OverflowsAtLast(v, c) == v > MaxU \div 10 \/ (v = MaxU \div 10 /\ c >= LastDigit)

(* Lines 63-64: the test made before value * 10 + digit. *)
Overflows(v, c) == v > MaxU \div 10 \/ (v = MaxU \div 10 /\ c > LastDigit)

(* The loop of lines 56-69 from position i with the value so far: the    *)
(* number of characters consumed and the value, or an overflow.          *)
RECURSIVE DigitLoop(_, _, _)
DigitLoop(in, i, value) ==
  IF i = Len(in) \/ ~IsDigit(in[i + 1])
    THEN [overflow |-> FALSE, consumed |-> i, value |-> value]
  ELSE IF Overflows(value, in[i + 1])
    THEN [overflow |-> TRUE, consumed |-> i, value |-> value]
  ELSE DigitLoop(in, i + 1, (value * 10 + (in[i + 1] - Zero)) % (MaxU + 1))

(* The result, *val and *in after the call; on overflow both are left as *)
(* they were.                                                             *)
ConsumeDecimalNumber(in, val) ==
  LET r == DigitLoop(in, 0, 0) IN
  IF r.overflow
    THEN [ok |-> FALSE, val |-> val, in |-> in]
    ELSE [ok |-> r.consumed # 0, val |-> r.value,
          in |-> RemovePrefix(in, r.consumed)]

(* The reference: the longest prefix of digits and the number it denotes. *)
DigitPrefix(in) ==
  LET k == SelectInSeq(in, LAMBDA c : ~IsDigit(c)) IN
  IF k = 0 THEN Len(in) ELSE k - 1

Denotes(digits) == FoldLeft(LAMBDA v, c : v * 10 + (c - Zero), 0, digits)

ReferenceConsume(in, val) ==
  LET k == DigitPrefix(in)
      n == Denotes(SubSeq(in, 1, k))
  IN IF n > MaxU
       THEN [ok |-> FALSE, val |-> val, in |-> in]
       ELSE [ok |-> k # 0, val |-> n, in |-> SubSeq(in, k + 1, Len(in))]

-----------------------------------------------------------------------------
(* The status DoWriteStringToFile returns is the error of the first step *)
(* that failed, or ok when none did: a later Sync or Close never         *)
(* overwrites an earlier error, and DeleteFile's own failure is not      *)
(* reported.                                                              *)
StatusIsFirstFailure ==
  pc = "idle" /\ call > 0 =>
    s = IF fails = <<>> THEN "ok" ELSE Head(fails)

(* When WriteStringToFile returns ok the file holds all of this call's   *)
(* data and the WritableFile has been closed and deleted; when           *)
(* WriteStringToFileSync returns ok the data was also synced.            *)
OkMeansWholeFile ==
  pc = "idle" /\ call > 0 /\ s = "ok" =>
    /\ fs.exists /\ fs.data = Content(call) /\ file = "none"
    /\ sync => fs.synced

(* A call that returned an error after NewWritableFile had created or    *)
(* truncated fname leaves no file behind, unless its own DeleteFile     *)
(* (line 51, whose status nobody reads) failed: only then does a file    *)
(* remain, holding a prefix of this call's data, and only then can a     *)
(* later ReadFileToString return ok after a failed write.                *)
FailedWriteLeavesNoFile ==
  pc = "idle" /\ call > 0 /\ s \notin {"ok", "new"} =>
    /\ fs.exists => Last(fails) = "unlink" /\ IsPrefix(fs.data, Content(call))
    /\ rafter = call /\ rs = "ok" => Last(fails) = "unlink"

(* ReadFileToString, called after the last WriteStringToFile, hands back *)
(* exactly that call's data when both returned ok, however the reads     *)
(* split it; after a failed Read the string holds a prefix of the file,  *)
(* and after a failed NewSequentialFile it is empty.  The same string is *)
(* reused for every read, so this needs data->clear() at line 67.        *)
ReadBackMatchesWrite ==
  pc = "idle" /\ rafter = call =>
    /\ rs = "ok" /\ s = "ok" /\ call > 0 => rdata = Content(call)
    /\ rs = "read" => IsPrefix(rdata, fs.data)
    /\ rs = "new" => rdata = <<>>

(* The operators below are pure functions of their arguments, so their  *)
(* properties are checked once, in the state before the program's first  *)
(* call, rather than again in every state of the file model.             *)
BeforeAnyCall == call = 0 /\ rs = "none"

(* ConsumeDecimalNumber accepts exactly the digit prefixes whose value   *)
(* fits in the word, returns that value and removes the prefix; its      *)
(* overflow test at the largest value and its last digit is exact.       *)
DecimalMatchesReference ==
  BeforeAnyCall => \A in \in BoundedSeq(Chars, MaxLen) :
    ConsumeDecimalNumber(in, "prior") = ReferenceConsume(in, "prior")

(* Slice::Compare orders slices as unsigned bytes, lexicographically, a  *)
(* proper prefix first (the tie-break of lines 67-70 after memcmp of the  *)
(* common length); StartWith and operator== agree with it.               *)
SliceOrderIsLexicographic ==
  BeforeAnyCall => \A a, b \in BoundedSeq(Bytes, 2) :
    LET p   == Len(LongestCommonPrefix({a, b}))
        ref == IF a = b THEN 0
               ELSE IF p = Len(a) THEN -1
               ELSE IF p = Len(b) THEN 1
               ELSE IF a[p + 1] < b[p + 1] THEN -1 ELSE 1
        sgn(x) == IF x < 0 THEN -1 ELSE IF x > 0 THEN 1 ELSE 0
    IN /\ sgn(Compare(a, b)) = ref
       /\ StartWith(a, b) = IsPrefix(b, a)
       /\ SliceEq(a, b) = (a = b)

(* EscapeString, whether char is signed or not, keeps the printable ASCII *)
(* bytes and writes every other byte as \x and two lower-case hex digits  *)
(* of that byte: a byte of 128 .. 255 sign-extended by the cast to        *)
(* unsigned int would otherwise print as ffffff.. cut off by snprintf.     *)
EscapeIsBytewise ==
  BeforeAnyCall => \A v \in BoundedSeq(Bytes, 2), signedChar \in BOOLEAN :
    LET hex == <<48, 49, 50, 51, 52, 53, 54, 55, 56, 57, 97, 98, 99, 100, 101, 102>>
        esc(b) == IF 32 <= b /\ b <= 126 THEN <<b>>
                  ELSE <<92, 120, hex[b \div 16 + 1], hex[(b % 16) + 1]>>
    IN EscapeString(v, signedChar) = FoldRight(LAMBDA b, acc : esc(b) \o acc, v, <<>>)

=============================================================================
