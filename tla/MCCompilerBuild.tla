--------------------------- MODULE MCCompilerBuild ---------------------------
(* An instance of CompilerBuild for TLC: one tool is called with lines of   *)
(* every form, another indexes one of their files with other lines.        *)
EXTENDS CompilerBuild

CONSTANTS t1, t2

MCKind(word) ==
    CASE word = "" -> "empty"
      [] word \in PassedOver \cup {"-L", "-include", "-isystem"} -> "valued"
      [] word \in {"-E", "-M"} -> "stop"
      [] word = "--" -> "dashes"
      [] word \in {"-c", "-DX", "-Werror", "-fconserve-stack", "--arch", "--help", "--index-errors=fail",
                   "--format=json", "--no-store-command"} -> "option"
      [] word = "@args" -> "response"
      [] word \in {"a.c", "b.c", "pre.c", "FILE=b.c"} -> "source"
      [] OTHER -> "other"

MCContents(word) == <<"b.c">>

MCEmits == [v \in {1} |-> {1}]

Cc(words) ==
    [tool |-> "cc", words |-> words, active |-> FALSE, environment |-> "warn", real |-> NoWord]

Compiler(words) == [Cc(words) EXCEPT !.tool = "compiler"]

Everything ==
    {Cc(<<"gcc", "-c", "a.c", "-o", "a.o">>),
     [Cc(<<"-c", "a.c">>) EXCEPT !.real = "clang"],
     Cc(<<"--no-store-command", "--", "gcc", "a.c">>),
     Cc(<<"--index-errors=fail", "--", "a.c">>),
     Cc(<<"gcc", "-D", "FILE=b.c", "", "-DX", "-D", "__x86_64__=1", "--arch", "x86_64", "-Werror", "--", "b.c">>),
     [Cc(<<"gcc", "-include", "pre.h", "-fconserve-stack", "a.c">>) EXCEPT !.environment = "ignore"],
     Cc(<<"gcc", "-include", "pre.c", "a.c">>),
     Cc(<<"gcc", "-include", "pre.c", "a.i">>),
     Cc(<<"gcc", "-L", "b.c", "a.c">>), Cc(<<"gcc", "-L", "lib", "-I", "b.c", "a.c">>),
     Cc(<<"gcc", "-include", "-o", "a.c">>), Cc(<<"gcc", "-o", "-Werror", "a.c">>),
     Cc(<<"gcc", "--arch", "a.c", "a.i">>), Cc(<<"gcc", "-I", "--arch", "b.c", "a.c">>),
     Cc(<<"@args">>), Cc(<<"gcc", "@args", "a.c">>),
     Cc(<<"gcc", "a.c", "b.c">>), Cc(<<"gcc", "-E", "a.c">>), Cc(<<"gcc", "a.o">>), Cc(<<>>),
     Cc(<<"-c", "--", "a.c">>), Cc(<<"--">>), Cc(<<"--help">>),
     [Cc(<<"gcc", "a.c">>) EXCEPT !.active = TRUE],
     [Cc(<<"gcc", "a.c">>) EXCEPT !.environment = "unknown"],
     [Cc(<<"gcc", "a.c">>) EXCEPT !.environment = "fail"],
     Compiler(<<"--", "gcc", "-c", "a.c">>), Compiler(<<"--format=json", "a.c">>),
     Compiler(<<"--", "--", "b.c">>), Compiler(<<"gcc", "a.o">>), Compiler(<<"--help">>)}

MCInvocations(p) ==
    IF p = t1 THEN Everything
    ELSE {Cc(<<"gcc", "-DX", "a.c">>), Cc(<<"--no-store-command", "--", "a.c">>)}

MCCommands == {Line(i) : i \in {j \in MCInvocations(t1) \cup MCInvocations(t2) : Accepted(j)}}
=============================================================================
