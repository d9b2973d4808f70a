---------------------------- MODULE Registration ----------------------------
(***************************************************************************)
(* pluginkit: what a plugin does before it evaluates anything.             *)
(*                                                                         *)
(* AddReferenceCatalogs reads a directory of embedded catalog files, one   *)
(* goroutine per file.  AddEvaluationSuite, its ForAllCatalogs variant and *)
(* their typed forms pair a loaded catalog with the plugin's steps and     *)
(* resolve the controls it imports from other catalogs.  PublishManifest   *)
(* describes the loaded catalogs to `pvtr publish`.                        *)
(***************************************************************************)
EXTENDS Naturals, Sequences, SequencesExt, FiniteSets, TLC

CONSTANTS
    Dirs,               \* the directories a plugin embeds, sequences of files
    Unreadable,         \* a file readYAMLFile fails, or panics, on
    Declared,           \* bound: the ways suites are registered, see Declaration
    CatalogNamespaces,  \* EvaluationOrchestrator.CatalogNamespaces
    Levels,             \* applicability levels
    None,               \* an absent value: an empty id, owner or requirement
    MaxLoads,           \* bound: calls of AddReferenceCatalogs
    MaxSuites           \* bound: registered suites

Files == UNION {ToSet(d) : d \in Dirs}
CatalogFiles == Files \ {Unreadable}
Ids == {f.id : f \in CatalogFiles} \ {None}
Controls == UNION {ToSet(f.controls) : f \in CatalogFiles}
Reqs == {c.req : c \in Controls} \ {None}

\* A control's requirements are abstracted to one: how several results become
\* the result of a control is gemara's.  level: its applicability.
Control(c) == c.req = None \/ c.level \in Levels

\* loader: "none" (nil), or the type of the payload it returns: "T" is the type
\* of the typed steps.
LoaderTypes == {"none", "T", "other"}
Declaration == [loader : LoaderTypes, typed : BOOLEAN, steps : SUBSET Reqs]

ASSUME RegistrationInputs ==
    /\ \A d \in Dirs : d \in Seq(Files)
    /\ Declared \subseteq Declaration
    /\ \A f \in CatalogFiles :
         /\ f.controls \in Seq(ToSet(f.controls)) /\ f.imports \in Seq(ToSet(f.imports))
         /\ \A c \in ToSet(f.controls) : Control(c)
    /\ MaxLoads \in Nat /\ MaxSuites \in Nat

VARIABLES
    referenceCatalogs,  \* v.referenceCatalogs
    possibleSuites,     \* v.possibleSuites, as catalog ids
    built,              \* what each suite was built from
    loading,            \* the running AddReferenceCatalogs, None if none
    ranging,            \* the running loop over all catalogs, None if none
    loads,              \* bound: calls of AddReferenceCatalogs so far
    failed              \* observer: one of them returned an error

suiteVars == <<possibleSuites, built>>
regVars == <<referenceCatalogs, suiteVars, loading, ranging, loads, failed>>

RegInit ==
    /\ referenceCatalogs = <<>>
    /\ possibleSuites = <<>>
    /\ built = <<>>
    /\ loading = None
    /\ ranging = None
    /\ loads = 0
    /\ failed = FALSE

\* The plugin is in none of the calls below.
Quiet == loading = None /\ ranging = None

----------------------------------------------------------------------------
(* Loading.                                                                *)

\* getPluginCatalogs starts a goroutine per file; an empty directory is an
\* error.
AddReferenceCatalogs(d) ==
    /\ Quiet
    /\ loads < MaxLoads
    /\ loads' = loads + 1
    /\ IF d = <<>> THEN failed' = TRUE /\ UNCHANGED loading
       ELSE /\ loading' = [dir |-> d, pending |-> DOMAIN d, errs |-> {}]
            /\ UNCHANGED failed
    /\ UNCHANGED <<referenceCatalogs, suiteVars, ranging>>

\* The goroutine of file i ends; a panic of the parser is recovered.
readYAMLFile(i) ==
    /\ loading # None
    /\ i \in loading.pending
    /\ loading' = [loading EXCEPT
                     !.pending = @ \ {i},
                     !.errs = IF loading.dir[i] = Unreadable THEN @ \cup {i} ELSE @]
    /\ UNCHANGED <<referenceCatalogs, suiteVars, ranging, loads, failed>>

\* The files taken before the first one with an empty or a duplicate id.
Accepted(dir, known) ==
    {i \in DOMAIN dir :
        \A j \in 1..i : /\ dir[j].id \notin known \cup {None}
                        /\ \A k \in 1..j - 1 : dir[k].id # dir[j].id}

\* What the loop of AddReferenceCatalogs adds: nothing when a file is in error,
\* and a bad id leaves what came before it.
Taken(dir, errs, known) == IF errs # {} THEN {} ELSE Accepted(dir, known)

\* wg.Wait() returned.
AddCatalogs ==
    LET known == DOMAIN referenceCatalogs
        taken == Taken(loading.dir, loading.errs, known)
        File(id) == CHOOSE f \in {loading.dir[i] : i \in taken} : f.id = id
        new == {loading.dir[i].id : i \in taken}
    IN  /\ loading # None
        /\ loading.pending = {}
        /\ referenceCatalogs' = [id \in known \cup new |->
              IF id \in new THEN File(id) ELSE referenceCatalogs[id]]
        /\ failed' = (failed \/ taken # DOMAIN loading.dir)
        /\ loading' = None
        /\ UNCHANGED <<suiteVars, ranging, loads>>

----------------------------------------------------------------------------
(* Suites.                                                                 *)

\* The p-th smallest of the numbers in S, and the elements of a sequence at the
\* positions in S: what a loop leaves that appends some of them.
Nth(S, p) == CHOOSE i \in S : Cardinality({j \in S : j <= i}) = p
Picked(s, S) == [p \in 1..Cardinality(S) |-> s[Nth(S, p)]]

\* The controls of an embedded catalog that an entry of an import asks for.
Found(e, catalogs) ==
    IF e.from \notin DOMAIN catalogs THEN {}
    ELSE {c \in ToSet(catalogs[e.from].controls) : c.id = e.control}

\* Mutant: an import from a catalog that is not embedded ends the search.
getImportedControls_Stops(catalog, catalogs) ==
    LET entries == catalog.imports
        embedded == \A e \in ToSet(entries) : e.from \in DOMAIN catalogs
    IN  Picked([i \in DOMAIN entries |-> CHOOSE c \in Found(entries[i], catalogs) : TRUE],
               {i \in DOMAIN entries : embedded /\ Found(entries[i], catalogs) # {}})

\* A control for every entry that is found.  Control ids of a catalog are taken
\* to be distinct, so that the first match is the match.
getImportedControls(catalog, catalogs) ==
    LET entries == catalog.imports
    IN  Picked([i \in DOMAIN entries |-> CHOOSE c \in Found(entries[i], catalogs) : TRUE],
               {i \in DOMAIN entries : Found(entries[i], catalogs) # {}})

\* Mutant: the imported controls are appended to the shared catalog.
SharedCatalog_InPlace(catalog, imported) ==
    [catalog EXCEPT !.controls = @ \o imported]

\* Copy-on-import: the entry of referenceCatalogs stays as it was.
SharedCatalog(catalog, imported) == catalog

\* A catalog that has a suite keeps it.
addEvaluationSuite(id, how) ==
    LET catalog == referenceCatalogs[id]
        imported == getImportedControls(catalog, referenceCatalogs)
        entry == [how |-> how, controls |-> catalog.controls \o imported]
    IN  IF id \in ToSet(possibleSuites) THEN UNCHANGED <<referenceCatalogs, suiteVars>>
        ELSE /\ referenceCatalogs' =
                  [referenceCatalogs EXCEPT ![id] = SharedCatalog(@, imported)]
             /\ possibleSuites' = Append(possibleSuites, id)
             /\ built' = [c \in DOMAIN built \cup {id} |->
                            IF c = id THEN entry ELSE built[c]]

HasControls(id) == referenceCatalogs[id].controls # <<>>

\* addEvaluationSuiteNamed.  An empty or unknown id and a catalog without
\* controls are errors that change nothing.
AddEvaluationSuite(id, how) ==
    /\ Quiet
    /\ Len(possibleSuites) < MaxSuites
    /\ id \in DOMAIN referenceCatalogs
    /\ HasControls(id)
    /\ addEvaluationSuite(id, how)
    /\ UNCHANGED <<loading, ranging, loads, failed>>

\* The loop passes over the catalogs that have a suite, so a call that finds no
\* other, or no catalog at all (an error), changes nothing.
AddEvaluationSuiteForAllCatalogs(how) ==
    LET ids == DOMAIN referenceCatalogs \ ToSet(possibleSuites)
    IN  /\ Quiet
        /\ ids # {}
        /\ Cardinality(DOMAIN referenceCatalogs) <= MaxSuites
        /\ ranging' = [ids |-> ids, how |-> how]
        /\ UNCHANGED <<referenceCatalogs, suiteVars, loading, loads, failed>>

\* An iteration of its loop.  The ids come in the order of a map; the first
\* error ends the loop and keeps what was registered before it.
NextCatalog(id) ==
    /\ ranging # None
    /\ id \in ranging.ids
    /\ IF HasControls(id) THEN addEvaluationSuite(id, ranging.how)
       ELSE UNCHANGED <<referenceCatalogs, suiteVars>>
    /\ ranging' = IF HasControls(id) /\ ranging.ids # {id}
                  THEN [ranging EXCEPT !.ids = @ \ {id}] ELSE None
    /\ UNCHANGED <<loading, loads, failed>>

RegNext ==
    \/ \E d \in Dirs : AddReferenceCatalogs(d)
    \/ loading # None /\ \E i \in loading.pending : readYAMLFile(i)
    \/ AddCatalogs
    \/ \E id \in Ids, how \in Declared : AddEvaluationSuite(id, how)
    \/ \E how \in Declared : AddEvaluationSuiteForAllCatalogs(how)
    \/ ranging # None /\ \E id \in ranging.ids : NextCatalog(id)

----------------------------------------------------------------------------
(* PublishManifest.                                                        *)

Namespace(catalog) == IF catalog.id \in DOMAIN CatalogNamespaces
                      THEN CatalogNamespaces[catalog.id] ELSE catalog.owner

\* A map over the loaded catalogs: nothing is published of a plugin one of
\* whose catalogs has no version, no controls or no owner.
PublishManifest ==
    LET catalogs == {referenceCatalogs[id] : id \in DOMAIN referenceCatalogs}
    IN  IF \E c \in catalogs : ~c.version \/ c.controls = <<>> \/ Namespace(c) = None
        THEN {}
        ELSE {[catalog |-> <<Namespace(c), c.id>>,
               requirements |-> {k.id : k \in ToSet(c.controls)}] : c \in catalogs}

----------------------------------------------------------------------------
(* Properties.                                                             *)

\* The registration is well formed: one suite per catalog, and each suite has
\* what it was built from.
RegTypeOK ==
    /\ referenceCatalogs \in [DOMAIN referenceCatalogs -> CatalogFiles]
    /\ DOMAIN referenceCatalogs \subseteq Ids
    /\ possibleSuites \in Seq(Ids) /\ IsInjective(possibleSuites)
    /\ DOMAIN built = ToSet(possibleSuites)
    /\ DOMAIN built \subseteq DOMAIN referenceCatalogs
    /\ \A id \in DOMAIN built :
         built[id].how \in Declared /\ built[id].controls \in Seq(Controls)
    /\ loading = None
         \/ /\ loading \in [dir : Dirs, pending : SUBSET Nat, errs : SUBSET Nat]
            /\ loading.pending \subseteq DOMAIN loading.dir
    /\ ranging = None
         \/ /\ ranging \in [ids : SUBSET Ids, how : Declared]
            /\ ranging.ids \subseteq DOMAIN referenceCatalogs
    /\ loads \in 0..MaxLoads /\ failed \in BOOLEAN

\* evaluation_orchestrator.go:180-183: "the published requirement_ids must list
\* only the catalog's OWN control ids ... regardless of suite registration
\* order".  Whatever was loaded and registered, and in which order, each
\* declaration is that of a catalog file, from a directory all of whose files
\* could be read.
ManifestListsOwnControls ==
    \A e \in PublishManifest :
        \E d \in Dirs :
            /\ Unreadable \notin ToSet(d)
            /\ \E f \in ToSet(d) :
                  e = [catalog |-> <<Namespace(f), f.id>>,
                       requirements |-> {k.id : k \in ToSet(f.controls)}]

\* The controls of a file that a catalog imports.
Imported(catalog, f) ==
    {c \in ToSet(f.controls) :
        \E e \in ToSet(catalog.imports) : e.from = f.id /\ e.control = c.id}

\* Among the controls are those that a catalog imports from the files beside
\* it, in a directory that could be read.
HasImports(catalog, controls) ==
    \E d \in Dirs :
        /\ Unreadable \notin ToSet(d) /\ catalog \in ToSet(d)
        /\ \A f \in ToSet(d) : \A c \in Imported(catalog, f) :
              \E k \in controls \cap Imported(catalog, f) : k.id = c.id

OwnOrImported(catalog) ==
    ToSet(catalog.controls) \cup UNION {Imported(catalog, f) : f \in CatalogFiles}

\* get_plugin_catalogs.go:20: "If a catalog imports another, both should be in
\* the same directory."  Then, unless a directory failed to load, a suite has
\* every control its catalog imports from there, whatever the registration
\* order and whatever else it imports, and never the controls of another.
SuiteHasItsImports ==
    \A id \in DOMAIN built :
        LET controls == ToSet(built[id].controls)
        IN  /\ ~failed => HasImports(referenceCatalogs[id], controls)
            /\ controls \subseteq OwnOrImported(referenceCatalogs[id])
=============================================================================
