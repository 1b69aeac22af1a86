------------------------------ MODULE Vulcanize ------------------------------
(* py_vulcanize: HTML modules that import each other, found by name under the  *)
(* project's source paths, loaded with what they need by a loader that stays   *)
(* between calls, put in an order, and written into one file.                  *)
EXTENDS Integers, SequencesExt

CONSTANTS
  Name,        \* the modules' names
  Base,        \* tracing.base.base
  Component,   \* modules under third_party: their imports are left out
  Root,        \* the directories that may be source paths
  Trees,       \* what the .html files may hold: <<root, name>> -> a page, or Missing
  Twins,       \* the sets of .js files, as <<root, name>>, there may be besides
  Missing,     \* no file
  Asks, Outs,  \* the lists of modules asked for; the sets of excluded scripts
  MaxDepth,    \* how deep ComputeLoadSequenceRecursive goes: 32
  MaxVulcan    \* bound: calls on the project

VARIABLES
  html,      \* <<root, name>> -> its page, or Missing
  js,        \* the .js files that are there
  there,     \* which of the raw script, the style sheet and its image are there
  sources,   \* the project's source paths
  frozen,    \* the project is frozen
  loader,    \* the project's loader, or NoLoader
  bundle,    \* what the last call has written, or NoBundle
  asked,     \* its arguments
  pure,      \* no load of this loader has raised or left out something else, and no
             \* file has changed since it was made
  vulcans    \* calls so far

vulcanVars == <<html, js, there, sources, frozen, loader, bundle, asked, pure, vulcans>>

\* A page: the modules it imports, in order, from its own directory or from any;
\* whether it has <script src>; its styles; whether it mentions tr.exportTo.
NoLoader  == [modules |-> <<>>, sheet |-> FALSE, image |-> "unknown", raw |-> FALSE, ok |-> FALSE]
NewLoader == [NoLoader EXCEPT !.ok = TRUE]
NoBundle  == [ok |-> FALSE, why |-> "none", order |-> <<>>, links |-> <<>>, raws |-> <<>>]
NotAsked  == [names |-> <<>>, out |-> {}, pages |-> FALSE, pure |-> FALSE]

NoCallYet ==
  /\ sources = <<CHOOSE r \in Root : TRUE>> /\ frozen = FALSE
  /\ loader = NoLoader /\ bundle = NoBundle /\ asked = NotAsked
  /\ pure = TRUE /\ vulcans = 0
VulcanInit == /\ html \in Trees /\ js \in Twins
              /\ there \in {{"raw", "sheet", "image"}, {"raw", "sheet"}}
              /\ NoCallYet
------------------------------------------------------------------------------
(* Finding and loading                                                         *)

\* The first of the source paths that has the file.
FindIn(has(_)) == LET i == SelectInSeq(sources, has) IN IF i = 0 THEN Missing ELSE sources[i]

FindHtml(n) == FindIn(LAMBDA r : html[r, n] # Missing)
FindJs(n)   == FindIn(LAMBDA r : <<r, n>> \in js)

\* Of a .js and an .html file, wherever they are, the first, unless the second is a
\* Polymer element, which no page of this model is.
FindModuleResource(n) == IF FindJs(n) # Missing THEN <<FindJs(n), "js">> ELSE <<FindHtml(n), "html">>

\* Each href must be under the source paths and its file readable.
HRefToResource(page, r, n) ==
  IF page.near THEN html[r, n] # Missing ELSE FindHtml(n) # Missing

Imports(n, page, out) ==
  IF n \in Component THEN <<>> ELSE SelectSeq(page.imports, LAMBDA i : i \notin out)
Links(n, page) == n \notin Component /\ page.style = "link"

\* Parse: scripts, imports and style sheets; a module that raises is not parsed.
Parses(n, r, page, out) ==
  n \in Component \/ /\ page.raw /\ "raw" \notin out => "raw" \in there
                     /\ \A i \in Range(Imports(n, page, out)) : HRefToResource(page, r, i)
                     /\ Links(n, page) => "sheet" \in there

\* As if only the modules it imports itself counted (a mutant).
DirectOnly(ms, n) == [ms EXCEPT ![n].all = Range(ms[n].deps)]

\* all_dependent_modules_recursive, with the set each module keeps of it.
RECURSIVE AllDependent(_, _)
AllDependent(ms, n) ==
  LET With(acc, d) == LET r == AllDependent(acc, d)
                      IN [r EXCEPT ![n].all = @ \cup r[d].all]
  IN IF ms[n].all # {} THEN ms
     ELSE FoldLeft(With, [ms EXCEPT ![n].all = Range(ms[n].deps)], ms[n].deps)

\* LoadImage only looks whether it is there; its bytes are read when it is inlined.
Fails(ld)     == [ld EXCEPT !.ok = FALSE]
LoadImage(ld) == IF ld.image # "unknown" THEN ld
                 ELSE IF "image" \in there THEN [ld EXCEPT !.image = "known"] ELSE Fails(ld)
ReadImage(ld) == IF ld.image = "read" THEN ld
                 ELSE IF "image" \in there THEN [ld EXCEPT !.image = "read"] ELSE Fails(ld)

\* LoadStyleSheet: once, with its image.
LoadStyleSheet(ld) ==
  LET a == LoadImage(ld)
  IN IF ld.sheet THEN ld
     ELSE IF "sheet" \notin there \/ ~a.ok THEN Fails(ld)
     ELSE [a EXCEPT !.sheet = TRUE]

\* Load, after the modules it imports: its style sheets, the look for the base
\* module, its external scripts.
LoadRest(ld, n, page, out) ==
  LET a == IF Links(n, page) THEN LoadStyleSheet(ld) ELSE ld
      b == [a EXCEPT !.modules = AllDependent(@, n)]
      r == "raw" \notin out /\ page.raw
  IN IF ~a.ok THEN a
     ELSE IF \/ page.exports /\ Base \notin b.modules[n].all
             \/ r /\ "raw" \notin there
          THEN [b EXCEPT !.ok = FALSE]
          ELSE [b EXCEPT !.modules[n].raw = r]

Registered(ld, n, page) ==
  LET m == [page |-> page, parsed |-> FALSE, deps |-> <<>>, all |-> {}, raw |-> FALSE]
  IN [ld EXCEPT !.modules = (n :> m) @@ @]

\* LoadModule: what is in the table is the answer, whatever came of its load; else
\* it is entered there, parsed, and its imports are loaded.
RECURSIVE LoadModule(_, _, _)
LoadModule(ld, n, out) ==
  LET r    == FindHtml(n)
      page == html[r, n]
      here == Registered(ld, n, page)
      Dependency(acc, i) ==
        LET a == LoadModule(acc, i, out)
        IN IF ~acc.ok THEN acc
           ELSE IF a.ok THEN [a EXCEPT !.modules[n].deps = Append(@, i)] ELSE a
      all == FoldLeft(Dependency, [here EXCEPT !.modules[n].parsed = TRUE], Imports(n, page, out))
  IN IF n \in DOMAIN ld.modules THEN ld
     ELSE IF FindJs(n) # Missing THEN Registered(ld, n, Missing)
     ELSE IF r = Missing THEN Fails(ld)
     ELSE IF ~Parses(n, r, page, out) THEN Fails(here)
     ELSE IF ~all.ok THEN all
     ELSE LoadRest(all, n, page, out)

LoadAll(ld, names, out) ==
  FoldLeft(LAMBDA acc, n : IF acc.ok THEN LoadModule(acc, n, out) ELSE acc, ld, names)
------------------------------------------------------------------------------
(* The order, the files, and the bundle                                        *)

Put(acc, n) == IF n \in Range(acc.order) THEN acc ELSE [acc EXCEPT !.order = Append(@, n)]

\* ComputeLoadSequenceRecursive: a loop is what is too deep.
RECURSIVE Visit(_, _, _, _)
Visit(ms, acc, n, depth) ==
  LET Dep(a, d) == IF ~a.ok \/ d \in Range(a.order) THEN a ELSE Visit(ms, a, d, depth + 1)
      deps == FoldLeft(Dep, acc, ms[n].deps)
  IN IF depth > MaxDepth THEN [acc EXCEPT !.ok = FALSE, !.why = "loop"]
     ELSE IF deps.ok THEN Put(deps, n) ELSE deps

CalcLoadSequence(ms, names) ==
  FoldLeft(LAMBDA acc, n : IF acc.ok THEN Visit(ms, acc, n, 0) ELSE acc,
           [NoBundle EXCEPT !.ok = TRUE], names)

\* GetAllDependentFilenamesRecursive: the modules, and what each of them names.
RECURSIVE Dependents(_, _, _)
Dependents(ms, seen, n) ==
  FoldLeft(LAMBDA s, d : IF d \in s THEN s ELSE Dependents(ms, s, d), seen \cup {n}, ms[n].deps)
Names(m, n) == {n} \cup (IF m.raw THEN {"raw"} ELSE {})
                   \cup (IF Links(n, m.page) THEN {"sheet", "image"} ELSE {})
                   \cup (IF m.page.style = "inline" THEN {"image"} ELSE {})
Filenames(ms, n) == UNION {Names(ms[d], d) : d \in Dependents(ms, {}, n)}

\* The HTML of one module: an inline style is inlined anew, a linked style sheet is
\* written by the first module that links it.  A module that was not parsed, or is
\* a .js file, has no HTML and raises.
InlineStyle(ld) == LET a == LoadImage(ld) IN IF a.ok THEN ReadImage(a) ELSE a
LinkedStyle(w)  == LET a == IF "sheet" \in there THEN LoadStyleSheet(w.ld) ELSE Fails(w.ld)
                   IN IF a.ok /\ w.links = <<>> THEN ReadImage(a) ELSE a
WriteHtml(w, n) ==
  LET m == w.ld.modules[n]
  IN IF ~w.ld.ok THEN w
     ELSE IF ~m.parsed THEN [w EXCEPT !.ld = Fails(@)]
     ELSE CASE m.page.style = "none"   -> w
            [] m.page.style = "inline" -> [w EXCEPT !.ld = InlineStyle(@)]
            [] m.page.style = "link"   -> [w EXCEPT !.ld = LinkedStyle(w),
                                                    !.links = IF @ = <<>> THEN <<n>> ELSE @]

\* Its scripts; the raw script is read when it is first written.
WriteJs(w, n) ==
  IF ~w.ld.ok \/ ~w.ld.modules[n].raw THEN w
  ELSE IF w.ld.raw \/ "raw" \in there
       THEN [w EXCEPT !.ld.raw = TRUE, !.raws = Append(@, n)]
       ELSE [w EXCEPT !.ld = Fails(@)]

\* GenerateStandaloneHTMLToFile, or GenerateJS alone.
Generate(ld, order, pages) ==
  LET w == [ld |-> ld, links |-> <<>>, raws |-> <<>>]
  IN FoldLeft(WriteJs, IF pages THEN FoldLeft(WriteHtml, w, order) ELSE w, order)
------------------------------------------------------------------------------
(* The project                                                                 *)

Call == vulcans < MaxVulcan /\ vulcans' = vulcans + 1

\* What loading raises stays in the table as it was then.
Vulcanize(names, out, pages) ==
  /\ Call
  /\ LET loaded == LoadAll(IF loader = NoLoader THEN NewLoader ELSE loader, names, out)
         seq    == CalcLoadSequence(loaded.modules, names)
         w      == Generate(loaded, seq.order, pages)
     IN /\ asked' = [names |-> names, out |-> out, pages |-> pages,
                     pure |-> loader = NoLoader \/ (pure /\ out = asked.out)]
        /\ pure' = (asked'.pure /\ loaded.ok)
        /\ \/ /\ ~loaded.ok
              /\ loader' = [loaded EXCEPT !.ok = TRUE]
              /\ bundle' = [NoBundle EXCEPT !.why = "load"]
           \/ /\ loaded.ok /\ ~seq.ok
              /\ loader' = loaded /\ bundle' = [NoBundle EXCEPT !.why = "loop"]
           \/ /\ loaded.ok /\ seq.ok
              /\ loader' = [w.ld EXCEPT !.ok = TRUE]
              /\ bundle' = IF w.ld.ok THEN [seq EXCEPT !.links = w.links, !.raws = w.raws]
                           ELSE [NoBundle EXCEPT !.why = "write"]
  /\ UNCHANGED <<html, js, there, sources, frozen>>

\* A new place to search, or ResetLoader, makes the next loader a new one.
DropLoader == loader' = NoLoader /\ bundle' = NoBundle /\ asked' = NotAsked /\ pure' = TRUE

AddSourcePath(r) == /\ Call /\ ~frozen /\ r \notin Range(sources)
                    /\ sources' = Append(sources, r) /\ DropLoader
                    /\ UNCHANGED <<html, js, there, frozen>>
ResetLoader == Call /\ DropLoader /\ UNCHANGED <<html, js, there, sources, frozen>>
Freeze == /\ Call /\ ~frozen /\ frozen' = TRUE
          /\ UNCHANGED <<html, js, there, sources, loader, bundle, asked, pure>>

\* A file changes, appears or goes between two calls.
Edit == /\ Call
        /\ \/ /\ html' \in Trees /\ UNCHANGED there
              /\ Cardinality({x \in Root \X Name : html'[x] # html[x]}) = 1
           \/ \E f \in {"raw", "sheet", "image"} :
                there' = SymDiff(there, {f}) /\ UNCHANGED html
        /\ pure' = (loader = NoLoader)
        /\ bundle' = NoBundle /\ asked' = [asked EXCEPT !.pure = FALSE]
        /\ UNCHANGED <<js, sources, frozen, loader>>

VulcanNext ==
  \/ \E names \in Asks, out \in Outs, pages \in BOOLEAN : Vulcanize(names, out, pages)
  \/ \E r \in Root : AddSourcePath(r)
  \/ ResetLoader \/ Freeze \/ Edit
------------------------------------------------------------------------------
(* Properties                                                                  *)

Page(n)   == html[FindHtml(n), n]
Next1(S)  == UNION {Range(Imports(n, Page(n), asked.out)) : n \in {m \in S : FindHtml(m) # Missing}}
Level[k \in 0..MaxDepth + 1] == IF k = 0 THEN Range(asked.names) ELSE Next1(Level[k - 1])
RECURSIVE Closure(_)
Closure(S) == IF Next1(S) \subseteq S THEN S ELSE Closure(S \cup Next1(S))
Needed    == Closure(Range(asked.names))
Uses(s)   == \E n \in Needed : Page(n).style = s

\* Whatever the modules that are needed need themselves is there.
AllThere == \A n \in Needed :
  /\ FindHtml(n) # Missing
  /\ Parses(n, FindHtml(n), Page(n), asked.out)
  /\ Page(n).raw /\ "raw" \notin asked.out => "raw" \in there
  /\ Page(n).style = "link" => {"sheet", "image"} \subseteq there
  /\ Page(n).style = "inline" => "image" \in there
  /\ Page(n).exports => Base \in Closure(Next1({n}))

\* Every module that is needed is in the bundle once, after all it imports, the style
\* sheet once if there are pages, the raw script with each module that has it; and
\* the list of filenames names all the files that were read.
IsWhole ==
  /\ Range(bundle.order) = Needed /\ Len(bundle.order) = Cardinality(Needed)
  /\ \A i \in DOMAIN bundle.order :
       \A d \in Next1({bundle.order[i]}) : \E k \in 1..i - 1 : bundle.order[k] = d
  /\ (bundle.links # <<>>) = (asked.pages /\ Uses("link"))
  /\ bundle.raws = SelectSeq(bundle.order, LAMBDA n : Page(n).raw /\ "raw" \notin asked.out)
  /\ Needed \cap Component = {} =>
       UNION {Filenames(loader.modules, n) : n \in Range(asked.names)} =
         Needed \cup (IF bundle.raws # <<>> THEN {"raw"} ELSE {})
                \cup (IF Uses("link") THEN {"sheet", "image"} ELSE {})
                \cup (IF Uses("inline") THEN {"image"} ELSE {})

\* As long as no load of the project's loader has raised, no file has changed under
\* it, and no .js file takes the name of a module, a bundle that is written is whole;
\* and if all it needs is there it is refused only for a loop, or for a chain as
\* long as what counts as one.
BundleIsWhole ==
  asked.pure /\ (\A n \in Needed : FindJs(n) = Missing) =>
    /\ bundle.ok => IsWhole
    /\ AllThere /\ ~bundle.ok => Level[MaxDepth + 1] # {}
==============================================================================
