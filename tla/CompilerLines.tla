---------------------------- MODULE CompilerLines ----------------------------
(***************************************************************************)
(* What semindex cc and semindex compiler make of their arguments: their   *)
(* own options, the compiler's argument vector (its line) and the one      *)
(* source in it; how the line is kept in commands.db; and what of it the   *)
(* frontend takes.  A word is told by its kind:                            *)
(*   "valued"   an option whose value is the next word: -I, -L, -include   *)
(*   "stop"     -E, -S, -M or -MM                                          *)
(*   "option"   any other word that starts with "-", but for "--"          *)
(*   "dashes"   "--"                                                       *)
(*   "response" a response file, @FILE                                     *)
(*   "source"   a word with the suffix of a C, C++ or .S source            *)
(*   "empty", "other"                                                      *)
(***************************************************************************)
EXTENDS Integers, SequencesExt

CONSTANTS
    Kind(_),
    Contents(_),    \* the words in a response file
    Rejected,       \* options that Clang does not take, and -Werror
    RejectedPairs,  \* options Clang does not take, with their value: --arch
    Builtins,       \* values of -D that define what Clang defines itself
    NoWord

\* The options whose value compiler_command_find_source passes over.
PassedOver == {"-D", "-I", "-U", "-x", "-o"}

ASSUME KindsAssumption ==
    /\ Kind("--") = "dashes" /\ Kind(NoWord) # "source"
    /\ \A word \in PassedOver : Kind(word) = "valued"
    /\ \A word \in Rejected \cup RejectedPairs : Kind(word) = "option"

Dashed(word) == Kind(word) \in {"valued", "stop", "option", "dashes"}

-----------------------------------------------------------------------------
(* getopt_long: an invocation is [tool, words, active, environment, real],  *)
(* its words, SEMINDEX_CC_ACTIVE, SEMINDEX_INDEX_ERRORS and REAL_CC.        *)

\* The wrapper has options of its own only before a "--".
TakesOptions(i) == i.tool = "compiler" \/ "--" \in ToSet(i.words)

OptionsOf(i) ==
    LET ends == {k \in DOMAIN i.words : Kind(i.words[k]) = "dashes" \/ ~Dashed(i.words[k])}
    IN CASE ~TakesOptions(i) -> <<>>
         [] TakesOptions(i) /\ ends = {} -> i.words
         [] OTHER -> SubSeq(i.words, 1, Min(ends) - 1)

HasOption(i, option) == option \in ToSet(OptionsOf(i))

AfterDashes(words) == IF words # <<>> /\ Head(words) = "--" THEN Tail(words) ELSE words

\* semindex compiler drops a second "--".
Rest(i) ==
    LET rest == SubSeq(i.words, Len(OptionsOf(i)) + 1, Len(i.words))
    IN CASE ~TakesOptions(i) -> i.words
         [] TakesOptions(i) /\ i.tool = "cc" -> AfterDashes(rest)
         [] OTHER -> AfterDashes(AfterDashes(rest))

Known(tool) ==
    {"--no-store-command"} \cup (IF tool = "cc" THEN {"--index-errors=fail"} ELSE {"--format=json"})

\* Neither a mistake nor a call for help.
Accepted(i) ==
    /\ i.tool = "cc" =>
          ~i.active /\ i.environment \in {"warn", "fail", "ignore"} /\ i.words # <<"--help">>
    /\ ToSet(OptionsOf(i)) \subseteq Known(i.tool)
    /\ TakesOptions(i) => Rest(i) # <<>>

Policy(i) == IF HasOption(i, "--index-errors=fail") THEN "fail" ELSE i.environment

Storage(i) ==
    CASE HasOption(i, "--format=json") -> "output"
      [] ~HasOption(i, "--format=json") /\ HasOption(i, "--no-store-command") -> "symbols"
      [] OTHER -> "symbols_and_command"

\* compiler_command_driver_is_omitted
DriverOmitted(word) == Dashed(word) \/ Kind(word) \in {"empty", "response", "source"}

RealCompiler(i) == IF i.tool = "cc" /\ i.real # NoWord THEN i.real ELSE "cc"

\* The compiler's argument vector, which is indexed, stored and executed.
Line(i) ==
    IF Rest(i) = <<>> \/ DriverOmitted(Head(Rest(i))) THEN <<RealCompiler(i)>> \o Rest(i) ELSE Rest(i)

-----------------------------------------------------------------------------
(* compiler_command_find_source                                             *)

\* Mutant: the value of an option is looked at like any other word.
ScanValues(s, word) ==
    CASE Kind(word) = "stop" -> [s EXCEPT !.unsupported = TRUE]
      [] Kind(word) = "source" -> [s EXCEPT !.sources = Append(@, word)]
      [] OTHER -> s

\* The value of any other option is looked at like any other word.
ScanWord(s, word) ==
    CASE s.skip -> [s EXCEPT !.skip = FALSE]
      [] ~s.skip /\ Kind(word) = "stop" -> [s EXCEPT !.unsupported = TRUE]
      [] ~s.skip /\ word \in PassedOver -> [s EXCEPT !.skip = TRUE]
      [] ~s.skip /\ Kind(word) = "source" -> [s EXCEPT !.sources = Append(@, word)]
      [] OTHER -> s

Scanned(words) == FoldLeft(ScanWord, [skip |-> FALSE, unsupported |-> FALSE, sources |-> <<>>], words)

\* The one source of a line, NoWord if there is not one.
FindSource(line) ==
    LET s == Scanned(Tail(line))
    IN IF s.unsupported \/ Len(s.sources) # 1 THEN NoWord ELSE s.sources[1]

-----------------------------------------------------------------------------
(* The arguments column of commands.db.                                     *)

Nul == "NUL"

\* No word has a terminator in it.
Words == STRING \ {Nul}

ASSUME DefaultCompilerAssumption == "cc" \in Words

\* pack_arguments
Pack(line) == FlattenSeq([i \in DOMAIN line |-> IF line[i] = "" THEN <<Nul>> ELSE <<line[i], Nul>>])

Nuls(blob) == {n \in DOMAIN blob : blob[n] = Nul}

TextAt(blob, offset) == IF blob[offset] = Nul THEN "" ELSE blob[offset]

\* Mutant: words without a text are lost.
UnpackTexts(blob) == SelectSeq(blob, LAMBDA text : text # Nul)

\* unpack_arguments: as many words as there are terminators, each after the one before.
Unpack(blob) ==
    LET offset[i \in 1 .. Cardinality(Nuls(blob))] ==
            IF i = 1 THEN 1
            ELSE LET before == offset[i - 1] IN 1 + Min({n \in Nuls(blob) : n >= before})
    IN IF blob = <<>> \/ Last(blob) # Nul THEN NoWord
       ELSE [i \in 1 .. Cardinality(Nuls(blob)) |-> TextAt(blob, offset[i])]

\* write_arguments: the texts between the terminators, in a JSON array.
Exported(blob) ==
    LET Write(out, n) ==
            IF blob[n] # Nul THEN out
            ELSE Append(out, IF n > 1 /\ blob[n - 1] # Nul THEN blob[n - 1] ELSE "")
    IN FoldLeftDomain(Write, <<>>, blob)

-----------------------------------------------------------------------------
(* sanitizeCommandLine, without the warning options it adds.                *)

TakesPair(line, i) ==
    \/ line[i] \in RejectedPairs
    \/ line[i] = "-D" /\ i < Len(line) /\ line[i + 1] \in Builtins

Dropped(line, i) == TakesPair(line, i) \/ line[i] \in Rejected \cup {"--"}

\* One turn of the loop, which leaves out the value of a pair as well.
SanitizeWord(line, s, i) ==
    IF s.skip \/ Dropped(line, i) THEN [s EXCEPT !.skip = ~s.skip /\ TakesPair(line, i)]
    ELSE [s EXCEPT !.kept = Append(@, line[i])]

Sanitized(line) ==
    LET Turn(s, i) == SanitizeWord(line, s, i)
    IN FoldLeftDomain(Turn, [skip |-> FALSE, kept |-> <<>>], line).kept

-----------------------------------------------------------------------------
(* The compiler: a word after an option that takes one is its value.        *)

Expanded(line) ==
    FlattenSeq([i \in DOMAIN line |-> IF Kind(line[i]) = "response" THEN Contents(line[i]) ELSE <<line[i]>>])

CompileWord(s, word) ==
    CASE s.skip -> [s EXCEPT !.skip = FALSE]
      [] ~s.skip /\ Kind(word) = "stop" -> [s EXCEPT !.stop = TRUE]
      [] ~s.skip /\ Kind(word) = "valued" -> [s EXCEPT !.skip = TRUE]
      [] ~s.skip /\ Kind(word) = "source" -> [s EXCEPT !.sources = Append(@, word)]
      [] OTHER -> s

Read(words) == FoldLeft(CompileWord, [skip |-> FALSE, stop |-> FALSE, sources |-> <<>>], words)

\* The sources a line compiles.
Compiled(line) ==
    LET s == Read(Tail(Expanded(line)))
    IN IF s.stop THEN <<>> ELSE s.sources

\* Lines in which words are what they seem: no response file, no value of an option
\* that the frontend does not get, no value that looks like a source or an option with
\* a value where compiler_command_find_source looks at it, and none after --arch.
Plain(line) ==
    \A i \in DOMAIN line :
        /\ Kind(line[i]) # "response"
        /\ i = 1 \/ Kind(line[i - 1]) = "valued" => ~Dropped(line, i)
        /\ i > 1 /\ Kind(line[i - 1]) = "valued" /\ line[i - 1] \notin PassedOver
              => line[i] \notin PassedOver /\ Kind(line[i]) \notin {"stop", "source"}
        /\ i > 1 /\ line[i - 1] \in RejectedPairs
              => Kind(line[i]) \notin {"valued", "stop", "source"}
=============================================================================
