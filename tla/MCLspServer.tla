---------------------------- MODULE MCLspServer ----------------------------
(***************************************************************************)
(* A source file and a header with two versions each, with characters of   *)
(* one, two and four bytes.  Name 1 is a function; name 2 is a local       *)
(* variable whose name has a character of two bytes.                       *)
(***************************************************************************)
EXTENDS LspServer

Source == Absolute(<<"w", "a.c">>)
Header == Absolute(<<"w", "s", "b.h">>)
MCSourceFiles == {Source, Header}

MCPaths == <<Relative(<<"a.c">>), Relative(<<"s", "b.h">>), Source, Header>>

Sources1 == [variant |-> 1, path |-> Relative(<<"a.c">>)]
Headers1 == [variant |-> 1, path |-> Relative(<<"s", "b.h">>)]
Sources2 == [variant |-> 2, path |-> Relative(<<"a.c">>)]
MCFiles == {Sources1, Headers1, Sources2}

MCLeafLength(symbol) == IF symbol = 1 THEN 2 ELSE 3
MCLeafUnits(symbol) == 2

Function(line, column, action) ==
    [variant |-> 0, path |-> None, line |-> line, column |-> column, record |-> Symbol,
     action |-> action, kind |-> FunctionKind, symbol |-> 1, context |-> 0, mode |-> 0, usr |-> 1,
     cusr |-> 0, local |-> FALSE]

CallAt(line, column, caller) ==
    [Function(line, column, CallAction) EXCEPT !.record = Use, !.context = caller, !.cusr = caller]

Variable(line, column, record, action) ==
    [Function(line, column, action) EXCEPT !.record = record, !.symbol = 2, !.kind = 2, !.usr = 0,
                                           !.context = 1, !.local = TRUE]

\* The lines, and what is at them.
LinesOf ==
    [f \in MCSourceFiles |->
        IF f = Source THEN << <<<<1, 1>>, <<2, 4, 1, 1, 1>>>>,
                              <<<<2, 1, 1>>, <<1, 2, 1, 1, 2>>>> >>
        ELSE << <<<<1, 1>>>>, <<<<4, 1, 1>>>> >>]

RowsOf ==
    [f \in MCSourceFiles |->
        IF f = Source THEN << {Function(1, 1, 1), CallAt(2, 7, 1)},
                              {Function(1, 3, 1), Variable(2, 1, Symbol, 1),
                               Variable(2, 5, Use, ReadAction), Variable(2, 5, Use, WriteAction)} >>
        ELSE << {Function(1, 1, 0)}, {CallAt(1, 5, 0)} >>]

MCLines(f, version) == LinesOf[f][version]

EmittedOf == [f \in MCSourceFiles, e \in 1 .. 2 |-> {[r EXCEPT !.path = f] : r \in RowsOf[f][e]}]

MCEmitted(f, version) == EmittedOf[f, version]

Editions ==
    [f \in MCFiles, e \in 0 .. 2 |->
        [records |-> IF e = 0 THEN {}
                     ELSE {[r EXCEPT !.variant = f.variant, !.path = f.path] :
                              r \in RowsOf[IF f = Headers1 THEN Header ELSE Source][e]},
         types |-> {}, signatures |-> {}, stamp |-> e, provenance |-> Unknown]]

MCEdition(f, e) == Editions[f, e]

MCCwd == Absolute(<<"t">>)
Work1 == Absolute(<<"w">>)

MCRepository(path) == IF IsWithin(path, Work1) THEN Work1 ELSE None

-----------------------------------------------------------------------------
Message(form, method, id, params) == [form |-> form, method |-> method, id |-> id, params |-> params]
Request(method, params) == Message("valid", method, 1, params)
Notification(method, params) == Message("valid", method, None, params)

At(path, line, character) ==
    [path |-> path, line |-> line, character |-> character, declaration |-> TRUE]

Item(variant) == [variant |-> variant, symbol |-> 1, kind |-> FunctionKind, usr |-> 1]

MCMessages ==
    {Message("garbage", "none", None, None),
     Message("invalid", "hover", 1, None),
     Request("exit", None), Notification("exit", None),
     Request("initialize", <<None, Absolute(<<"w", "s">>)>>), Request("initialize", <<>>),
     Notification("initialize", <<>>), Notification("initialized", None),
     Notification("didOpen", Source), Request("didSave", Source),
     Notification("didSave", Malformed),
     Request("definition", At(Source, 1, 4)), Request("definition", At(Source, 1, 2)),
     Request("definition", Malformed), Notification("definition", At(Source, 1, 4)),
     Request("references", At(Source, 0, 1)), Request("references", At(Source, 1, 3)),
     Request("highlight", At(Source, 1, 4)), Request("highlight", At(Source, 1, 3)),
     Request("hover", At(Header, 0, 0)),
     Request("prepare", At(Source, 0, 1)),
     Request("incoming", Item(1)), Request("outgoing", Item(1)), Request("outgoing", Item(2)),
     Request("shutdown", None), Request("unknown", None)}
=============================================================================
