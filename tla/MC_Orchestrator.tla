-------------------------- MODULE MC_Orchestrator --------------------------
(***************************************************************************)
(* Catalog files, registrations and settings for TLC.                      *)
(***************************************************************************)
EXTENDS Orchestrator

CONSTANTS A, B, C, X       \* catalog ids; X is not embedded
CONSTANTS me, them         \* owners of catalogs
CONSTANTS lvl, other, key  \* applicability levels, a required variable

Ctl(id, req, level) == [id |-> id, req |-> req, level |-> level]
Imp(from, control) == [from |-> from, control |-> control]
CatalogFile(id, owner, controls, imports) ==
    [id |-> id, owner |-> owner, version |-> TRUE, controls |-> controls,
     imports |-> imports]

\* A imports from X, which is not embedded, and from B; B has a control without
\* requirements and one that does not apply.
FileA == CatalogFile(A, me, <<Ctl("a1", "A1", lvl)>>,
                     <<Imp(X, "x1"), Imp(B, "b1"), Imp(B, "gone")>>)
FileB == CatalogFile(B, them, <<Ctl("b1", "B1", lvl), Ctl("b2", None, None),
                                Ctl("b3", "B3", other)>>, <<>>)
\* C has no controls, and one directory holds it twice; another has a file that
\* does not parse.
FileC == CatalogFile(C, None, <<>>, <<>>)
OtherA == CatalogFile(A, them, <<Ctl("a9", "A1", lvl)>>, <<>>)
MC_Dirs == {<<FileA, FileB>>, <<FileB, FileC, FileC>>, <<OtherA, Unreadable>>}
COwned == C :> them

\* Typed steps on the shared payload, for some of the controls, and untyped ones
\* on a payload of the suite's own; or no steps.
Decl(l, typed, steps) == [loader |-> l, typed |-> typed, steps |-> steps]
MC_Declared == {Decl("none", TRUE, {"A1"}),
                Decl("other", FALSE, {"A1", "B1", "B3"})}
WithoutSteps == MC_Declared \cup {Decl("none", FALSE, {})}

\* A service with a policy of its own, writing JSON.
Plain == [service |-> TRUE, topCatalogs |-> <<>>, catalogs |-> <<A>>,
          topApplicability |-> {lvl}, applicability |-> {},
          topInvasive |-> FALSE, invasive |-> FALSE,
          vars |-> {}, localVars |-> {key}, inherited |-> {},
          write |-> TRUE, output |-> "json",
          benchmark |-> FALSE, payloadOnly |-> FALSE]

\* Each way a configuration can be wrong, and an unnamed service.
BadSettings ==
    {[Plain EXCEPT !.catalogs = <<>>], [Plain EXCEPT !.topApplicability = {}],
     [Plain EXCEPT !.localVars = {}], [Plain EXCEPT !.output = "xml"],
     [Plain EXCEPT !.service = FALSE, !.topCatalogs = <<A>>, !.catalogs = <<>>,
                   !.vars = {key}, !.localVars = {}]}

Invasive == {[Plain EXCEPT !.topInvasive = TRUE, !.catalogs = <<B, A>>]}
Formats == {[Plain EXCEPT !.catalogs = <<B, A>>, !.output = o] : o \in {"", "sarif"}}
Repeated == {[Plain EXCEPT !.catalogs = p] : p \in {<<A, A>>, <<X, B>>, <<X>>}}
Benchmarks ==
    {[Plain EXCEPT !.catalogs = <<B, A>>, !.benchmark = TRUE],
     [Plain EXCEPT !.catalogs = <<A, A>>, !.benchmark = TRUE, !.write = FALSE],
     [Plain EXCEPT !.benchmark = TRUE, !.payloadOnly = TRUE]}

MC_Settings == BadSettings \cup Invasive \cup Formats \cup Repeated \cup Benchmarks
============================================================================
