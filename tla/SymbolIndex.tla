---------------------------- MODULE SymbolIndex ----------------------------
(***************************************************************************)
(* What index_db_store promises its callers, with no staging area, no      *)
(* fingerprint cache and no retry.  A client submits a request (the rows   *)
(* the front end emitted for each file of one translation unit and the     *)
(* file stamps taken by stat) and the request is either applied to the     *)
(* symbol database of its variant in one indivisible step, with ALL its    *)
(* rows, or dropped without a trace.                                       *)
(*                                                                         *)
(* IndexStore, which does have all those mechanisms, is shown to implement *)
(* this specification.                                                     *)
(***************************************************************************)
EXTENDS IndexData

Requests ==
    [variant : Variants,
     main    : Files,
     emitted : [Files -> Emissions],
     stamp   : [Files -> Nat],
     prov    : ProvenanceRows]

----------------------------------------------------------------------------
(* One store request applied to one variant.                               *)

\* The files the request says anything about: those it has rows for, and the
\* main source even when it emitted none.
Touched(r) == {f \in Files : r.emitted[f] # NoEmission} \cup {r.main}

\* The files whose old rows are discarded first.
Replaced(s, r) ==
    {f \in Touched(r) : f = r.main \/ s.meta[f] \notin {Null, r.stamp[f]}}

Apply(s, r) ==
    [meta    |-> [f \in Files |-> IF f \in Touched(r) THEN r.stamp[f] ELSE s.meta[f]],
     records |-> [f \in Files |->
                    InsertOrIgnore(IF f \in Replaced(s, r) THEN {} ELSE s.records[f],
                                   r.emitted[f].rows)],
     facts   |-> [f \in Files |->
                    (IF f \in Replaced(s, r) THEN {} ELSE s.facts[f])
                        \cup r.emitted[f].facts],
     prov    |-> [commit |-> IF r.prov.commit # Null THEN r.prov.commit ELSE s.prov.commit,
                  root   |-> IF r.prov.root # Null THEN r.prov.root ELSE s.prov.root]]

----------------------------------------------------------------------------
VARIABLES
    index,      \* [Variants -> Stores]
    request     \* [Writers -> SUBSET Requests], at most one pending each

avars == <<index, request>>

AInit ==
    /\ index = [v \in Variants |-> EmptyStore]
    /\ request = [w \in Writers |-> {}]

\* A writer submits any request at all.
Submit(w) ==
    /\ request[w] = {}
    /\ request'[w] \in SUBSET Requests
    /\ \A p, q \in request'[w] : p = q
    /\ request' = [request EXCEPT ![w] = request'[w]]
    /\ UNCHANGED index

\* The request takes effect as a whole.
Store(w) ==
    /\ \E r \in request[w] :
          index' = [index EXCEPT ![r.variant] = Apply(index[r.variant], r)]
    /\ request' = [request EXCEPT ![w] = {}]

\* The request fails, or its process dies, and leaves no trace.
Drop(w) ==
    /\ request' = [request EXCEPT ![w] = {}]
    /\ UNCHANGED index

ANext == \E w \in Writers : Submit(w) \/ Store(w) \/ Drop(w)

ASpec == AInit /\ [][ANext]_avars
============================================================================
