# Formal model of clang-dumper

clang-dumper walks the AST that Clang builds of a translation unit and writes it to stderr as a
stream of records, from which Clava rebuilds the graph of nodes. This directory holds TLA+ modules
that model the program and the scripts around it, configurations that check them with TLC on small
instances, and proofs checked by TLAPS. `PROJECT.json` maps each definition to the lines of `src/`
that it stands for.

## The system

| Part | Source | State | Operations |
|---|---|---|---|
| Traversal core | `src/ClangAstDumper/` | seen sets of the four node families, system-header level, call stack, list of children of each call | `Visit*Top`, `dump*`, `Visit*`, `addChild`, `visitChildrenAndData` |
| Children handlers | `src/ChildrenVisitor/` | none | one handler per class: which nodes to visit, and how |
| Data dumpers | `src/ClavaDataDumper/` | none | one dumper per class: which values and ids to write |
| Values and ids | `src/Clang/ClangNodes.*`, `src/ClangEnums/` | none | `getId`, `dump(...)`, `isSystemHeader` |
| Consumer | `src/Clang/ClangAst.cpp` | one dumper per unit | `HandleTopLevelDecl`, `VisitDecl`, `VisitStmt`, `VisitEnumDecl`, `dumpFatalError` |
| Resources | `DumpResources`, `HandlerCoverage` | static options, files announced, fallbacks met | setters, `CreateASTConsumer`, `recordHandlerFallback`, `reportHandlerCoverage` |
| Tool | `src/tool.cpp` | exit status | `main` |
| Plugin | `src/plugin.cpp` | none of its own | constructor, `ParseArgs`, destructor |
| Include dumper | `IncludeDumper` in `ClangAst.cpp` | none | one record per callback |
| Enum generator | `clang_enums/` | generated C++ and Java files | one worker per header, one writer |
| SDK scripts | `scripts/*windows_cross_sdk*` | bundle, archives and roots on a disk, the asset of a release | create, publish and set up the bundle |
| Other scripts | `scripts/` | none | package includes, build |
| Test harness | `test/` | none | run the tool, compare, `unresolved_node_ids` |

`ClangTool` (or `clang -cc1`, with the plugin) runs the dump action on each file. The action creates
a consumer, Clang's parser hands the consumer groups of top-level declarations, a
`RecursiveASTVisitor` meets the nodes of each group, and those in user code are handed to the
dumper, which follows the graph from there. The handlers of a class call back into the dumper
(`addChild`, `Visit*Top`), recursively and on graphs with cycles. The options and the fallbacks are
static: all units of a process share them, and so do all `Plugin` objects.

The dumper itself is sequential. What is hard about it is the traversal: one set of marks and one
level shared by all nested calls, nodes reached in several ways of which only the first counts, a
graph that the parser goes on changing, two families of handlers with separate tables that must
agree about every class, and exceptions at any depth. Around it, the generator of the enum tables is
concurrent, and the scripts are interrupted, run again and raced by other maintainers.
`PROJECT.json` lists the hazards with their lines.

What makes each part correct:

- core: every node is written once and finally, whatever the cycles; every id mentioned gets a
  record; children are cut by the threshold and by nothing else; calls return;
- handlers and data dumpers: what the record of a class mentions is reached by direct visits, and a
  record that was begun is finished;
- consumer: the roots it names are written; user nodes are complete; the stream stays closed
  although the graph grows; an error is reported once and ends the process;
- tool and plugin: the units of the tool, and the first unit of a plugin process, get the options of
  the command line; the reports and the exit status tell what happened, on every way out;
- enum generator: success means complete and right tables; only what was extracted is replaced, and
  a file is cut short only where a write failed or the run was killed;
- SDK scripts: an asset is written once, nothing unpinned is unpacked, success is truthful.

## The modules

| Module | Models | Uses |
|---|---|---|
| `NodeStream` | abstract specification: what the reader of the output relies on | |
| `Calls` | the calls a handler makes | |
| `ClangAstDumper` | the traversal | extends `Calls`, refines `NodeStream` |
| `Handlers`, `TemplateArguments` | vocabulary of the handlers; template arguments and names | extend `Calls` |
| `DeclHandlers`, `StmtHandlers`, `TypeHandlers` | the handlers and data dumpers of every class | the two above |
| `ClassGraphs` | the traversal over nodes that run the handlers of their class | all of the above |
| `MyASTConsumer` | the consumer of a unit | extends `ClangAstDumper` |
| `DumpResources` | options, announced files, fallbacks and reports of a process | |
| `DumpTool`, `Plugin` | the two processes around the units | extend `DumpResources` |
| `EnumGenerator` | runs of the enum generator | |
| `SdkBundle` | the three scripts of the SDK bundle | |
| `MC*` | the small instances | |
| `*_proofs` | the theorems | the module proved about |

**The core.** The recursion of the code is an explicit stack of frames, one for each
`visitChildrenAndData()` in progress: the node, the position in its handler, the local vector of
children. `Enter` is `dumpX()` marking the node and `VisitX()` raising the level; `SuppressChild`,
`AddChild`, `AddChildAgain` are the outcomes of `addChildInternal()`; `DirectVisit` and
`DirectVisitAgain` those of `Visit*Top()`; `Finish` writes the three records, lowers the level and
returns to the caller; `HandlerThrows` and `DataThrows` are exceptions. The seen sets of the four
families are one set, since a node belongs to one family. Types are the unqualified and the
qualified ones. A graph (`AST`) gives for every node the calls of its children handler and the ids
of its data record. `SystemHeaderLevels` is 0 for types and attributes. The `<Top Level Types>` and
`<Top Level Attributes>` lines name only nodes visited just before and are left out.

**The classes.** `DeclHandlers`, `StmtHandlers` and `TypeHandlers` have one operator for one handler
or dumper, and the dispatch tables as records. A node is described by what its handlers ask of it:
the questions answered yes (`is`), the pointer each getter returns (`one`), the lists (`each`), its
template arguments (`args`) and the parts that are no nodes (`parts`). A handler is the sequence of
calls it makes on a description, a dumper the set of ids it writes. Values that are no ids are left
out. The code recurses over packs of template arguments and over substituted template names; Clang
puts no pack into a pack, so a pack is the sequence of its arguments, and a name is the sequence of
the parameters it was substituted for with the name reached at the end. `ClassGraphs` says what it
is for a graph that its nodes run these handlers (`IsClassGraph`), and which classes leave a gap
(`Supported`). `MCHandlers` puts a node of each class and description through `ClangAstDumper`, in
user code or past the threshold in a system header.

**The consumer.** `HandleTopLevelDecl()` has two loops: the first names the group's user
declarations, the second traverses them; the visitor hands over user nodes, and the catch clauses
end the process. What Clang decides (groups, order of the visitor, locations) is data. So is the
graph, which each group brings anew: between two groups the parser completes, redeclares and
instantiates nodes that have been written already. `dumpedIn` remembers of which group's graph a
record is.

**The processes.** `DumpTool` is `main`, ClangTool's loop (external), `CreateASTConsumer`, the
fatal exit and `finish`. `Plugin` follows the order in which clang makes and destroys `Plugin`
objects: a probe when the library is loaded, before the options of `-mllvm` are parsed; the object
that acts, whose constructor resets the options and whose `ParseArgs` sets them; and after each
consumer another probe, to look for plugins to wrap it with, whose constructor resets the options
again. Each destructor calls `DumpResources::finish()`.

**The enum generator.** Workers take headers in order (`TakeHeader`), extract some of the enums or
fail (`process_header`, `ProcessHeaderFails`), and the main thread takes the results in any order
(`Collect`) and writes the C++ file, then one Java file per enum, each opened and closed in two
steps. A write may fail, the process may be killed anywhere, and a later run, of another LLVM, goes
on with the files it finds. The regular expressions are abstracted into "found or not".

**The SDK scripts.** A publisher creates a bundle, looks for the release, makes it, looks for the
asset and compares its digest or uploads; an answer may be lost. Setup wants a list of archives,
takes those on disk, and for the first that is missing fetches and unpacks the bundle; downloads and
archives are opened and closed in two steps, so that an interruption leaves them cut short. One
script at a time runs on a machine; publishers share only the release.

Operators with a comment that starts with "Mutant:" are plausible bugs; each property is checked to
fail when one of them takes the place of the definition it follows.

## What the runs check

| Run | Bounds | Shows |
|---|---|---|
| `dumper_graphs` | graphs of 3 nodes with all combinations of one direct visit and one child, chains of 4 nodes with back edges, nulls, throwing handlers and dumpers; any set of system-header nodes on the chains, four sets on the graphs; thresholds 0, 1, 2; up to two roots in any order | the core's invariants, finality, termination and refinement of `NodeStream` |
| `class_handlers` | each class with each pointer null and each list empty, alone and all together; lists of two, one null among sub-statements; each kind of template argument, alone, in pairs and in packs; names substituted up to twice; each initializer, specifier and offsetof component, one unknown after a known one; the known linkage languages and designators; threshold 1; user code or past the threshold | graph closure of every class but the ones below, and no record cut by a case that a data dumper does not implement, on the nodes that Clang makes (`MadeByClang`) |
| `consumer` | five nodes: a function with a statement, an enum with its type, a system declaration; two groups in four splits, the function without its body or the enum incomplete in the first; every combination of a few handlers; valid, system and invalid locations; a throwing dumper; thresholds 0, 1 | roots written, user nodes complete, the stream closed over a growing graph, every record of one moment, errors end the process, the unit ends |
| `tool` | one to three files, each opened with up to two fallbacks and three ends, or never opened | report, announced files and exit status on every exit |
| `plugin` | up to two plugin arguments, one perhaps malformed or of another plugin; one or two files as above; with and without `-disable-free` and the report | the options reach the first unit and no later one, the reports are those of the objects destroyed, the process exits |
| `sdk_scripts` | two publishers with different bundles, one of them pinned; three archives, four requests, one for an archive the bundle lacks; two interruptions anywhere | the asset is written once, publish and setup are truthful, only the pinned bundle is unpacked, what a run left on disk decides the next one |
| `enum_generator` | two headers with two and one enums, two workers, two LLVM versions, any failures, one kill, any number of runs | success is complete and right, C++ and Java agree, only what was extracted is replaced, a run ends |
| `named_casts`, `unhandled_decls`, `asm_operands`, `offsetof_qualified`, `template_packs` | the classes excluded from `class_handlers` | graph closure is violated, see below |

**Why the bounds are enough.** The graphs of `dumper_graphs` have what the traversal can get wrong:
a cycle through a direct visit, a node shared by a system and a user caller, a level that passes the
threshold and comes back, and a throw with several frames on the stack. A fourth level of nesting
repeats the third. In `class_handlers` the surrounding nodes are leaves, which is what isolates a
class: whatever the class mentions must be visited by its own handler, but for two chains of types
that Clang ties together (`SurroundingsAreSupported`). A list has two elements, which tells a loop
from its first turn. In `consumer` two groups suffice for a record of the first that a
node of the second refers to. Two interruptions let setup leave a bundle and an archive cut short,
or a publisher and a setup; two publishers are a race. One kill, with failed writes besides and
another version installed at any start, leaves every mix of old, new and torn files of one header.
What does not depend on size is proved for every size, see below.

The runs of the core and of the class handlers let the consumer call the dumper in any order, so
they check more orders than `RecursiveASTVisitor` produces. No run disables the deadlock check: a
dumper without work may always be called again, a script may always be started again, and the ends
of a process stutter explicitly.

**Fairness** is weak fairness of a thread that does not block: a call in progress (`FairSpec`), a
step of the unit (`ConsumerSpec`) or of the process (`ToolSpec`, `PluginSpec`). In `EnumGenerator`
the workers and the main thread are fair to each other, because the operating system schedules both
and the preprocessor a worker waits for ends; in `SdkBundle` a setup that runs is, because `curl`,
`tar` and `sha256sum` end. Nothing obliges the consumer to call the dumper, or anybody to start a
script or a generator; an interrupted or killed one need not be started again.

### Findings

`ClangAstDumper.h` states that direct visits preserve graph closure, and the test harness rejects
outputs with ids that have no definition (`unresolved_node_ids`). Five runs show classes for which
the code does not:

- `named_casts`: `CXXDynamicCastExpr` and `CXXAddrspaceCastExpr` write the type as written, and have
  no children handler that visits it;
- `unhandled_decls`: `MSPropertyDecl` and `UnresolvedUsingTypenameDecl` write types and have no
  children handler;
- `asm_operands`: asm statements past the threshold mention operands that are only children;
- `offsetof_qualified`: the visit of an offsetof type drops the qualifiers its id keeps;
- `template_packs`: the arguments in a pack are written and not visited for function and class
  template specializations.

A node that nothing visits for the class at hand may still be reached through another node. The
runs show that the class does not ensure it, not that the output of each program dangles.

### Remarks

Three behaviours that the models bring out and no document of the repository denies:

- A record is of the moment it was written (`RecordsAreSnapshots`). When Clang instantiates a
  function of a class template at the end of the unit, the body is dumped, and the record of the
  function, written before, does not list it. The expected outputs under `test/expected/` contain
  such functions, of `templates.cpp` for example.
- `publish` takes an existing bundle for a complete one and compares it with the release only, never
  with `WINDOWS_SDK_SHA256`: a bundle that an interrupted `create` cut short may be published. Hosts
  refuse it (`NothingUnpinnedUnpacked`). An archive that an interrupted setup cut short fails every
  later one, unless an archive wanted before it is missing (`SetupOutcome`).
- With the plugin, only the first file of a process is dumped with the options given: the probe that
  Clang makes to wrap its consumer resets the static options, and the consumers of later files get
  run id 0 and no threshold (`OptionsOfUnits`). Clang's driver starts one process for each file.

## What is proved

| Module | Properties proved for every value of the constants |
|---|---|
| `ClangAstDumper_proofs` | `TypeOK`, `SerializedOnce`, `LevelBalanced`, `RecordsAreFinal`; `GraphClosure` and `ImplementsNodeStream` under `ReferencesVisited` |
| `ChildrenLists_proofs` | `ChildrenDecidedByDepth`, `AllOrNothing`, `StructuralDepthBounded` |
| `MyASTConsumer_proofs` | `ConsumerTypeOK`, `ConsumerNodesComplete`, `FatalErrorIsLast`, `RecordsAreSnapshots`; `RecordsClosed` under `ReferencesVisitedThroughout`, `TopLevelNodesDumped` under `VisitorMeetsDecls` |
| `ClassGraphs_proofs` | `GraphClosure`, `ImplementsNodeStream` and `NoTruncatedRecord` under `IsClassGraph`; `RecordsClosed` under `IsClassUnit`; both include `MadeByClang` |
| `DumpTool_proofs` | `ToolTypeOK`, `ReportedOnceOnExit`, `ExitCodeTruthful`, `FilesAnnounced` |
| `Plugin_proofs` | `PluginTypeOK`, `OptionsOfUnits`, `ReportsOfTheProcess` |
| `SdkBundle_proofs` | `SdkTypeOK`, `AssetNeverOverwritten`, `PublishTruthful`, `NothingUnpinnedUnpacked`, `SetupOutcome` |
| `EnumGenerator_proofs` | `GeneratorTypeOK`, `TwinsAgree`, `OnlyWhatWasExtracted`; `CompleteOnSuccess` under `TablesAreRight` |

Few of these are inductive alone. The arguments:

**Core.** `IInv` adds to the types and to `SerializedOnce` that every direct visit a handler on the
stack has made so far leads to a seen node or to null, and so does every id it has listed
(`FrameInv`) and the call it is waiting for (`WaitingInv`), and that written nodes list seen nodes
or null (`WrittenInv`). `Inductive` proves it with one lemma per kind of step (`EnterStep`,
`ReturnStep`, `FinishStep`, `ThrowStep`). That written nodes have made all the direct visits of
their handler (`VisitsInv`) is proved beside it, because it speaks of the graph for nodes that are
not on the stack. When the stack is empty, seen and written nodes coincide, so the written nodes are
closed under direct visits and, by the assumption, under what records mention: this is graph
closure, and it does not depend on the threshold. The level equals the number of system-header
frames by induction over the steps (`LevelInv`), which also gives that it is a natural number. The
refinement maps `Enter` to `Announce`, `Finish` to `Write`, a throw to `Fail`, and everything else
to a stutter.

**Lists.** A call that waits for a visit to return was allowed at the depth of its own frame
(`CallInv`), and the level is back at that depth when the visit returns. So a running handler has
listed every child it came to, or only the required ones (`ListInv`), and the list it finishes with
is all or nothing.

**Classes.** `GraphClosure` was proved from `ReferencesVisited`, an assumption about graphs. The
proofs about class graphs derive it from the handlers. `Covered(calls)` is what the direct visits of
a handler reach, and "not dumped" as well if one of its calls throws. For every pair of a children
handler and a data dumper of one class there is a lemma that what the dumper writes is covered by
what the handler calls, each from the lemma of its base class, as the C++ handlers call those of
theirs; loops are sequences of calls of any length (`FlattenedCalls`, by a least-number argument on
sets, `NatBySets`). The dispatch tables combine the lemmas (`DeclDispatch`, `StmtDispatch`,
`ExprDispatch`, `TypeDispatch`), their fallbacks included, and `OfNode` states the result for every
node. Two ids are written by one node and visited by another (`Indirect`): the desugared type of a
qualified type, and the type finally referred to by a reference to a reference. They are in every
set of nodes closed under direct visits, which is enough (`ClassGraphClosed`). That no data record
is cut short follows from the same lemmas: "not dumped" is covered as well, so a dumper that would
throw has a handler that throws (`DataThrowsLate`), while a handler that is done has made all of its
calls, none of them a throw (`PassedInv`). Three dumpers throw on what no handler looks at, and one
argument is visited without the qualifiers it is written with; there the lemmas rest on what Clang
makes (`MadeByClang`, below). The units of the consumer, whose graph is another one in
each group, are closed by the same argument (`ClassUnitClosed`).

**Consumer.** Every step of the consumer is a step of the core, leaves the core alone, or replaces
the graph while the stack is empty. `IInv`, `LevelInv` and `ListInv` survive all three, because they
speak of the graph only for nodes on the stack. What was true of a node when it was written is kept
about the graph of that moment, `WrittenAst(n)` (`PastInv`): its direct visits lead to known nodes,
and its list is one of the two. `Inside`, `HandlingInv` and `RootInv` say where the consumer is
while the dumper runs and that it calls it for user nodes, `ErrorsInv` that an error ends the
parsing, and `TraversalInv` and `GroupsInv` that what the visitor has met in user code is known, and
written when its group is done.

**Tool and plugin.** The invariants give, file by file, what the units so far have left in the
shared resources: for the tool the options, the result and the announced files (`OptionsInv`,
`LoopInv`, `FallbacksInv`, `ResultInv`, `AnnouncedInv`), for the plugin what each object finds when
it is made (`BeforeInv`), what `ParseArgs` has set by the argument it is at (`ParseInv`), that a
probe has reset it before the first unit begins (`ResetInv`), and the units and reports so far
(`UnitsInv`, `ReportsInv`).

**SDK scripts.** Publishers and setup change different variables. For setup, `HostInv` says where
the bundle on the disk is known to be good, and `RunInv` what a run that nothing disturbs has found:
either no file has changed since it began and the archives before the one it is at were whole, or
the first archive it missed was absent and the good bundle has replaced every archive.

**Enum generator.** Workers touch only headers the main thread has not taken (`WorkersApart`), and
it writes only files of the header it took last (`WritingApart`). `HeaderInv` says what it has
written of that header; `SuccessInv` that a worker without errors found every enum, that no error is
forgotten, and that no header taken was cut off unless a write failed.

**Assumptions.** Those the modules name about their constants, such as that `Null` is no node, that
the graphs have the declared shape, that headers do not share enums, or that an absent file is no
table; TLC evaluates each of them on every run. The others are hypotheses of single theorems:

- `ReferencesVisited`, and `ReferencesVisitedThroughout` for the graphs of a unit: what a data
  record mentions is reached by direct visits. They keep the core and the consumer independent of
  the classes; `ClassGraphs_proofs` proves both of class graphs and class units.
- `IsClassGraph`: there are descriptions of the nodes such that each node runs the handlers of its
  class on its own. The descriptions are outside of the gaps (`Supported`): the classes and cases of
  the five violation runs; and linkage specifications and static assertions have no attributes,
  which Clang does not attach to them and their handlers do not visit. Two facts are Clang's: a
  qualified type is desugared as its unqualified type is (`DesugaredAlike`), and the pointee of a
  reference as written leads through its sugar to the type finally referred to
  (`InnerReferenceReached`). `MCHandlers` has TLC evaluate all of this
  on the descriptions of `class_handlers` (`ClosedCasesAreSupported`, `SurroundingsAreSupported`),
  the last by the two visits that make it true.
- `MadeByClang`, a part of `IsClassGraph` and `IsClassUnit`: four more facts about the nodes that
  Clang makes, on which the code relies and which it does not check, or only in the middle of a data
  record. The type of a null pointer argument has no qualifiers, since those of a template parameter
  are ignored: the handler visits the type pointer (`ClangAstDumper.cpp:321`), the dumper writes the
  qualified type (`ClangNodes.cpp:426`), the pairing that the handler avoids for structural values.
  The language of a linkage specification is C or C++ (`ClavaDataDumperDecls.cpp:465`), a designator
  is one of a field, an element or a range (`ClangNodes.cpp:591`), and a qualified name ends in the
  name (`ClangNodes.cpp:564`): otherwise the dumper throws and no handler did before, so the record
  would be cut after its header. TLC evaluates it on the descriptions of `class_handlers` too.
- `IsClassUnit`: the same of the graph of each group, and the two facts across groups, since Clang
  does not change a type it has made. For a unit of one group it says what `IsClassGraph` says.
- `VisitorMeetsDecls`: the visitor starts at the declaration it is given. It is Clang's.
- `TablesAreRight`: the tables of an enum have every enumerator at its index. It is what
  `generate_cpp_array()` makes of enums that count up from zero, with aliases last
  (`EnumsAssumption`); the selection of elements of a list is a recursion that the prover cannot
  reason about, so `enum_generator` checks it on its enums.

The first one is evaluated by TLC for the graphs and units of the other runs as well
(`MCReferences`, `UnitsAreVisited`).

**Only model-checked.** Liveness (`CallsReturn`, `UnitEnds`, `ToolExits`, `PluginExits`,
`SetupEnds`, `RunEnds`), which is out of the prover's reach.

## Not modelled

Parts listed in `PROJECT.json` as not or partly modelled, and why:

- **Formatting** of values, strings, locations and enums in `ClavaDataDumper`, `ClangNodes` and
  `ClangEnums`: pure output that no other record refers to. Two node kinds at one address are not
  modelled either.
- **Include dumper**: each callback writes one record and keeps nothing.
- **Include packaging and build scripts**, and `setup_lld()`: one pass over files that are made anew,
  nothing shared and nothing kept. Of the enum generator, the regular expressions and the command
  line.
- **Test harness, build and CI**: no behaviour of the program. The harness's contract for the output
  is where `GraphClosure` comes from.
- **Clang** itself: the parser, the visitor, `ClangTool` and the order in which plugins are made are
  data or external actions.

Hazards without a property, with the reason in `PROJECT.json`: declarations of imported modules
handed over although they are implicit (needs a module import, which `UnitsAssumption` excludes);
the depth of the recursion (the stack of the model has no limit); diagnostics of Clang between two
lines of a record (records are atomic here); files of an older SDK that stay in the roots (the content of
archives is not modelled).

What could still be added: the names that `package_includes.py` gives its roots and archives, and
the two-address case of `getId`.
