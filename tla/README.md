# A verification development of bomly-sdk

`bomly-sdk` is the Go SDK that a Bomly host and its detector, matcher, auditor
and analyzer plugins share.  This directory holds TLA+ modules that model its
core logic, TLC configurations that check them on small instances, and TLAPS
proofs of the properties that matter most for every instance.

## The system

| Component | State | Operations | Interacts with | What makes it correct |
|---|---|---|---|---|
| Graph store, `model.Graph` (`model/graph.go`, `model/edge.go`) | slot table, index by ID, two adjacency tables, free list, size | `AddNode`, `InsertNode` (folds), `AddTypedEdge`, `RemoveEdge`, `RemoveNode`, `Clone` | every other part builds or reads one | the tables agree after any sequence of calls; a reused slot inherits nothing; an edge's kind only strengthens |
| Promotion (`detectorkit/nodes.go`) | none of its own | `PromoteToModule`, `PropagateScopes`, `EnsureNode` | rewrites a graph node through the store's operations | no edge and no kind is lost |
| Node fold (`foldNodes`, `model/usage.go`, `model/merge.go`) | node records | merge of two witnesses of an identity | `InsertNode`, `MergeGraph` | the result does not depend on the order of arrival, or documents where it does |
| Graph algorithms (`model/graph.go`) | none | topological sort, paths, relationships, trees, `Compare` | read the store | agreement with their reference definitions, also on cyclic graphs |
| Container and scope filter (`model/container.go`, `model/scope_filter.go`) | list of graphs with manifests | `ConsolidatedGraph`, `MergeGraph`, `CopyEdgesInto`, `FilterGraphByScope`, `SubgraphFrom` | build graphs from graphs | who may mutate the result; what a partial failure leaves |
| Component scope, `plugin.ComponentScope` (`plugin/module.go`) | mutex, context, closed flag, cleanups, error, done channel | `OnCleanup`, `Close` | called by hosts (embedded) and `ServeModule` (managed), from any goroutine | cleanups run after cancellation, newest first, once each, and every `Close` reports all failures |
| Managed process (`runtime/module.go`) | the scope, the lazily constructed component | `ServeModule`, `lazyComponent.get`, the served adapters | gRPC requests, the constructor's goroutine, the process's exit | the component outlives requests; shutdown ends; registered resources are released |
| Managed transport (`runtime/serve.go`) | the served implementation of one role | one RPC per protocol operation, payload bounds | go-plugin, gRPC | role and version checks, bounds |
| Package registry (`model/registry.go`, `model/package.go`) | packages by PURL, insertion order | `Add`, `Ensure`, `Merge`, `ApplyPackageUpdates` | matcher and analyzer results | index and order agree, callers' records are not shared |
| File cache (`filecache/cache.go`) | one file per key | `Get`, `Set` | several processes | a torn or expired entry is a miss |
| Scan record (`scan/`) | record of a scan | build, encode, decode, compare | graph, registry | two records compare as the two graphs do; a record is read exactly when its sections are what was written |
| SBOM codecs (`sbom/`) | documents | graph to document, encode, decode, document to graph | graph, registry, documents of other producers | an identity names one inventory; provenance, structure and claims survive repeated conversion as far as a format can hold them |
| Plugin contracts (`plugin/`) | descriptors, requirements, access, detection filter | validation, selection | hosts | a plan is explained before it runs |
| Identity (`purlkit/`, `model/purl.go`, ...) | lookup tables | parsing, spelling, normalisation | everything | string grammars |

The hard behaviours are these.  *Concurrency*: only the component scope, the
lazily constructed component and the conformance suite start goroutines or take
locks; there, registrations race closes, requests race construction and process
exit races everything.  *Long sequences*: the graph store reuses slots, and its
two adjacency tables are kept in agreement by every operation separately.
*Order*: nodes are folded and edges merged in whatever order detectors, plugins
and documents deliver them.  *Repetition*: what is exported is read and
exported again, in two formats and several versions of each, so a loss or an
invention that one conversion hides is found by the next.  *Failure*: panicking cleanups, operations that stop
half-way through a map iteration, a process that is killed.  `PROJECT.json`
lists each hazard at its line with the properties that would catch it.

## Modules

    EdgeKinds ---- PackageGraph (abstract)
        \                ^ implements (refinement mapping, proved)
         +---------- GraphStore ---- MCGraphStore, GraphStoreProofs

    Lifetime (abstract)
        ^ implements (proved)
    ComponentScope ---- MCComponentScope, ComponentScopeProofs
        ^ INSTANCE Scope
    ManagedComponent ---- MCManagedComponent, ManagedComponentProofs

    FixedGraph -+- TopologicalSort
                +- PathsTo ------------ Relationships
                +- ScopePropagation
                       (all three) ---- GraphQueries ---- MCGraphQueries
        FoldLemmas ---- GraphQueriesProofs: theorems of the three queries

    FileCache ---- MCFileCache, FileCacheProofs

    LicenseMerge ---- NodeFold --+
                 PackageRegistry +-- WitnessMerge ---- MCWitnessMerge
        FoldLemmas ---- WitnessMergeProofs: theorems of both

    DocumentAssertions ---- DocumentLineage ---+
    GraphView ------------- DocumentStructure -+
    LicenseExchange -+                         +-- DocumentExchange ---- MCDocumentExchange
    AdvisoryExchange +----- ComponentExchange -+
    ComponentClaims -+                         |
    GraphView, Relationships -- ScanRecord ----+
        FoldLemmas ---- DocumentExchangeProofs: theorems of DocumentLineage, ComponentExchange and ScanRecord

**EdgeKinds** is the vocabulary: node identities by kind, the kind an edge has
when nobody states one (`DeriveEdgeKind`) and how two statements merge
(`MergeEdgeKind`).  A node is its ID because the ID grammars of the three kinds
are disjoint and an ID is fixed at construction.

**PackageGraph** is what callers of `model.Graph` are promised: a set of
identities, the places each was seen at, one typed edge per ordered pair.  A
call that fails changes nothing.

**GraphStore** is the implementation.  The variable `graph` is a record with the
fields of the Go struct; slot `s` is Go index `s-1`.  `WithNode`, `Folded`,
`WithEdge`, `WithoutEdge`, `WithoutNode` are the effects of the operations on a
record, so that `InsertNode` and `PromoteToModule` are compositions of them, as
in the code.  `outgoing[s][t]` is the map entry `g.outgoing[s][t]`, with
`NoEdge` for "absent", which is also what reading an absent key of a Go map of
kinds returns.  Of a node's record only its locations are modelled here; the
fold of the other fields is NodeFold's.

**Lifetime** is what `HostContext.OnCleanup` and `Close` promise, without mutex
or channel.

**ComponentScope** is `plugin.ComponentScope` with any number of goroutines that
register (one per cleanup) or close.  A critical section is one action unless
somebody can see its middle: cancelling the context and publishing `closed` are
separate steps, and so are the check of `closed` and the append.  A cleanup's
body is outside: it starts, and later returns nil, returns an error or panics.
A cleanup that calls `Close` on its own scope waits for itself; that is not
modelled.

**ManagedComponent** is a plugin process: `ServeModule`'s goroutine (`Main`, the
only one that closes the scope), requests entering `lazyComponent.get`, the
constructor on its own goroutine, and the exit of the process, which ends every
other goroutine where it is.  It instantiates ComponentScope and takes its
actions as they are.  External, modelled from how the code uses them: the
component author's constructor (acquires a resource, hands OnCleanup a cleanup
for it, and goes on; may fail, panic, observe cancellation or never return), the
transport (stops serving, which ends the contexts of its requests without
waiting for their handlers) and the host's kill.

**ScopePropagation** is `detectorkit.PropagateScopes`: one action for the
seeding of the root's direct dependencies, one per turn of the queue, one for
the default at the end.  The graph, the root, the seed and the scopes the
dependencies come with are chosen in `Init` and stay.  Children are taken in
some order, any one, because the code sorts by ID and an ID may be anything.
What it promises is stated apart from the walk, as least sets closed under the
edges (`Reached`, `RuntimeReached`).  Only the *effective* scope is promised
there: which scopes a node lists besides runtime does depend on the order.

**FixedGraph** is a graph that is only read.  A node is a number, and the
numbers are in the order of the nodes' IDs, since order of ID is all the queries
ask of one.  That `Incoming` mirrors `Outgoing` is what GraphStore shows.

**TopologicalSort** is `Graph.TopologicalSort`: the counters, the heap of ready
nodes, and one action per turn of the loop.  Its reference is a definition of
the order itself: at each place the least node all of whose parents have come.

**PathsTo** is `Graph.CollectPathsTo`: the reverse walk that finds the relevant
nodes, then the recursion as a stack of frames, one action per call, return or
child that is passed over, and the sort at the end.  Its reference is the set of
all sequences of distinct nodes that follow the edges.  With **Relationships**
it has the two ways a relationship is derived, from a path and from the whole
graph.  They agree on
every dependency below a root.  On a root, and on a dependency only cycles lead
to, they do not: there is no owner to be related to, the graph says unknown or
transitive, and the path of one node says direct; `RelationshipsAgree` leaves
these two out.

**GraphQueries** is a caller that asks one question of one graph: an order,
paths, or the propagation of scopes.

**LicenseMerge** is the merge of licence claims.  A text is its words, the
spacing between them and the padding around them, because that is what minting,
`TrimSpace` and comparison by bytes tell apart; an expression is a reference,
with or without listed licences beside it.  `Resolve` is the collision rule with
the table it writes, and the sort at the end matters because the next merge
reads the claims in that order.

**NodeFold** is what several witnesses of one dependency become: `foldNodes` on
records, one action for a witness that arrives at a graph and one for merging a
graph, hence a fold of folds, into another.  Properties are about the node and
about the package `PackageFromDependencyNode` seeds from it, and refer to the
history of witnesses.  The first witness of an identity is stored as it is, so
its scopes are lifted from its sites only when a second one arrives, as in the
code.

**FileCache** is the file of one key, shared by every process given the same
directory.  A `Set` encodes, opens with truncation, writes piece by piece and
returns, or fails or dies at any of these; a `Get` opens, reads piece by piece
under the limit and decodes what it has.  The wall clock may be set back, since
a stamp read from a file has no monotonic part.  How `os.WriteFile` and
`io.ReadAll` cut a file into calls is external: a piece is what one call moves.
Two histories (`clobbered`, `raced`) say which reads a write overlapped, and the
properties are about reads none did: nothing orders a `Set` with another `Set`
or with the reads of a `Get`, so an overlapped read may put pieces of two
entries together, which the code accepts.

**PackageRegistry** is `model.PackageRegistry` with the merge of two packages
of one PURL: `Add`, `Ensure`, `Merge`, a clone handed to a component and merged
back or dropped, and a caller who writes a stored package in place, which the
pointer it was given allows.  A package has one field per way of merging: a
plain scalar (name), a gated scalar (homepage), a gated set (references), a
list merged by statement and issuer (attestations), a list merged by advisory
whose members merge in turn (vulnerabilities, with analysis).  The gates
themselves (URL and vocabulary normalisation) are a predicate on values.

**WitnessMerge** is NodeFold or PackageRegistry: the two places where what
several witnesses say of one package becomes one record.

**DocumentAssertions** and **DocumentLineage** are what a document says about
itself.  The archive holds foreign documents and the ones this program wrote; a
build reads some of them, perhaps beside a resolved manifest, perhaps filtered,
and is written once per format.  `Restates` decides whether the export goes out
under the identity of what it was read from, `Restated` what it then says, and
`Candidates` which documents it links.  An identity is a serial number with a
revision, a namespace in Bomly's form or another namespace, and has a spelling
in each format; a checksum is a SHA-1 or not, and under FIPS there is none.
Which inventory a document describes is a history: a foreign document's is what
its producer's name stands for, its own if it has none (`ForeignInventory`).

**GraphView** and **DocumentStructure** are the components and edges of a
document: `FromGraph` (manifests are stepped through, a project root may be
synthesized), both encoders with the identifiers they allocate, both decoders,
and the graph made of what was read.  An identifier is a word with suffixes,
because collision and suffixing are what allocation is about.

**LicenseExchange**, **AdvisoryExchange** and **ComponentClaims** are pure: how
each claim of a component is written in SPDX 2.3 and in CycloneDX 1.5, 1.6 and
1.7, and what is read from it.  A node's scopes are any words: known ones, in
another spelling, a newer build's, one that is no scope (it, or a list over the
reader's limit, spoils the whole list), and the unknown scope.
**ComponentExchange** takes two components through them, as often as
`MaxClaimHops` says, in any sequence of formats, from a graph and a registry or
from a foreign document.

**ScanRecord** is `model.Compare` of two scans, and package `scan`: the records
of both are built, canonicalised and encoded by this version, an older or a
later minor one or a writer without digests; they are indented or altered on
the way, refused or decoded, and compared through the graphs rebuilt from them.
A digest is the content it is taken of.  Three details of the code show in the
model and are worth knowing: manifests of equal path and subproject keep the
order they arrived in, so only scans without such a pair have canonical bytes;
`Encode` enforces no bounds and `Decode` does, so a record can be written that
is then refused; and `FromGraphEntries` only lists modules that have a name, so
the modules `graphOf` passes over do not occur.

**DocumentExchange** is a behaviour of one of the four.  They share no state:
what a document says of itself, which components it has, what it claims of each
and the record of the scan are separate fields of separate code paths.

## Runs

| Run | Instance | Shows |
|---|---|---|
| `graph_store` | one manifest, one module, one dependency promotable to it, two sites (symmetric), 4 slots | index, adjacency and free list agree in every reachable state; the store implements PackageGraph; a dependency claim never weakens; promotion keeps edges |
| `component_scope` | three registrations, two Closes, parent cancellation | cancellation first, reverse order, complete reports, implementation of Lifetime; under fairness every Close returns and every cleanup runs |
| `managed_component` | two resources, two requests | the component outlives requests, an orderly exit has run everything registered in time, shutdown ends, waits are bounded |
| `late_cleanup` | the same | *violated*: a cleanup handed over while the scope closes need not run before the process exits, although README.md and plugin/module.go say it does |
| `graph_queries` | a manifest, a module, three dependencies; every subset of eleven edges and every target, or of eight edges and every root, seed and scope carried | the sort is the least order and returns exactly the acyclic part; the paths are all there are, each once, in order; both derivations of a relationship agree; every effective scope is what the paths say, whatever order the walk took; every query ends, on cyclic graphs too |
| `file_cache` | two Sets (symmetric), one Get, entries that fit and that do not, a clock that may go back | a read no write overlapped hits on one whole entry, inside its TTL, and hits whenever such an entry is there, up to the limit and no further |
| `witness_merge` | six witnesses of one identity, three per graph, two graphs (symmetric), Swift or not; five packages over two PURLs, five additions or writes | ranks, usages, references and eligibility depend on the set of witnesses alone; the first publishable origin nobody pinned more precisely stays primary; every licence claim, stashed ones too, reaches the package, and no reference names two licences; a verification stays with its issuer; sets lose and invent nothing and a gated scalar is the first publishable value; a rationale stays with its state |
| `ungated_analysis` | the same | *violated*: the first record of an advisory carries its analysis into a package without the gate, although package.go says a merge never does |
| `document_exchange` | four foreign documents, two at a time, two builds; every subset of nine edges over two manifests, two modules and three dependencies, and foreign inventories of up to three entries, two hops; components that differ in one kind of claim (of scopes up to three of six, with five source words), three hops over four formats; every pair of 32 base and 161 head scans, four writers | see below |
| `fixed_point` | the same | *violated*: a conversion that changes nothing may reorder the tools, although document_assertions.go says it reproduces its bytes |
| `dangling_reference` | the same | *violated*: an SPDX export may cite a licence reference without its text, although spdx23.go says the texts come with it |
| `record_roots` | the same | *violated*: a module need not stand at the root of the graph rebuilt from a record, although scan/compare.go says so, and records then report changes graphs do not |

`document_exchange` shows, of a *document*: two documents of one identity have
one inventory; none links itself under any spelling; each names every document
it goes back to; a conversion that changes nothing says the same.  Of its
*structure*: packages and edges survive any sequence of formats, shared
identifiers and the synthesized root included, and no entry of a foreign
inventory is lost.  Of a *component*: the scopes this build knows, every
licence by name, the difference between declared and concluded, advisories with
their own ratings and analyses all survive as far as the formats allow; where
it was fetched from does not come back as a claim nobody made; and a second
export in one format changes nothing.  Of two *scans*: every change is told
once, and the same backwards; the records compare as the graphs do; and a
record is read exactly when its content is what was written.

*Bounds.*  Three identities of the three kinds give every edge kind, every
derived kind and a fold on promotion, and at most three slots are ever in use,
so that removing two nodes and inserting another reaches every shape of the
free list; `MaxSlots` is one more, to show that it is never reached.  Three
cleanups make an order that is neither forward nor backward distinguishable;
two Closes are the first and another.  Nothing is counted without a bound: a
cleanup is registered once, a goroutine closes once.  Three dependencies give a
cycle, a node reached by two paths of different scope and a node nothing
reaches; a seed is only asked for direct dependencies of the root, so only
those vary.  The eleven edges of `graph_queries` hold cycles of two and of
three, a cycle below a root and one no root reaches, a module below a
dependency, and a dependency that is direct of one owner and transitive of
another.  One Get suffices because a Get changes nothing another call sees; two
Sets are an entry and its replacement, and `Sizes` straddles `Limit`.  Of
pieces of two entries that line up, the model takes the worst case, that they
decode.  `MaxSteps` = 5 adds each shape of a package before and after each
other one, through the clone or not.  Three witnesses at a graph are what
associativity needs (one, merged with the fold of two); the six differ in every
field that folds, and between them define one reference for three texts. Two
builds over two foreign documents are a conversion of a conversion, a merge of
two and a merge of a conversion with what it came from; `MaxDocumentSources` is
above what they can list, as 256 is in the code, and the bound itself is
evaluated in the gates.  Three hops of a component are one format between two
exports of another, or the same one three times.  The scans pair workspaces
whose second module hangs below the first or below a dependency, may lead back
to the first, and lose, gain and update up to four versions of one package; one
head has more manifests than `RecordBounds` allows.

*Fairness.*  `FairScopeSpec`: a goroutine inside OnCleanup or Close that can go
on does (the Go scheduler runs every runnable goroutine, and the mutex is held
for a few statements by goroutines that are themselves fair), and a cleanup that
started returns.  Nobody has to call anything.  `ManagedComponent!Spec`: the same
for ServeModule's goroutine and OnCleanup calls, and for a handler's select.
`GraphQueries!Spec`: the function's own next step, since it is sequential and waits for nobody.  No fairness is assumed of the constructor, of a component's answer, of the host or
of the caller's context.

## Proofs

`GraphStoreProofs` proves, for every set of identities, sites, promotions and
every slot bound, from `KindsDisjoint` and `StoreAssumption`, that `StoreInv`
(types, index, adjacency, free list) is inductive, and from it the refinement of PackageGraph and both action
properties.  The invariant is needed as a whole: that `WithoutNode` clears every
edge to a slot needs the mirror, that `NextSlot` returns a dead slot needs the
free list, and that a new node finds empty edge sets needs both.  The argument
goes operation by operation on records (`WithNode` keeps `SoundStore`, ...), and
promotion is the composition.

`ComponentScopeProofs` proves from `ScopeAssumption`, for any number of
cleanups and closers, that `ScopeInv` is inductive: who holds the mutex, what
each place in the code knows about `closed`, that one Close at most takes the
cleanups, how far the run of them is, and what has been collected.  From it
follow the safety properties of the run and that the scope implements Lifetime.

`ManagedComponentProofs` proves from `ManagedAssumption`, for any resources and
any requests, that `ManagedInv` always holds. A managed process has one closer
(ServeModule's own goroutine) and no parent context, so the cancelled and closed
flags and the mutex follow from where that goroutine stands; the cleanups in
hand are exactly the registered ones, each once; and what has run and what was
collected follow from how many are left. Both safety properties of the
`managed_component` run (`ComponentOutlivesRequests`,
`ExitRunsRegisteredCleanups`) follow from it. The argument about Close is made
again here, for one closer, because tlapm does not cite a theorem of
`ComponentScopeProofs` through the INSTANCE that embeds the scope.

`FileCacheProofs` proves from `CacheAssumption`, for any number of Sets and Gets
and any sizes, limit and TTL, that `CacheInv` always holds: unless two Sets have
had the file open together, it holds the beginning of one entry, all of it
written by the one Set that is still writing, if any; and a Get that no Set
overlapped has read a prefix of a file nobody is writing.  The writer's half is
needed so that its next piece lands at the end, the reader's so that reaching the
end means having the file.  All three properties of `file_cache` follow.

`GraphQueriesProofs` has a part for each query.

About the sort it proves from `GraphAssumption`, for every finite graph, that
`SortInv` is inductive: a node's counter is the number of its parents not yet
ordered, the heap is the nodes with counter zero that are not yet ordered, what
is ordered is closed under parents, no set with a cycle above every member has
lost one to the order, and no node is ordered twice.  The counters need
finiteness: taking one parent away lowers a cardinality by one.  From it follow
both halves of `SortIsExact`; for the acyclic part, a node left out when the heap
is empty has a parent left out, so the nodes left out are themselves a set with a
cycle above every member.

About the scope walk it proves from `PropagationAssumption`, for every finite
set of dependencies and every graph, that `WalkInv` is inductive.  It says that
whatever has been propagated is founded in a path (so the walk claims too
little, never too much), that a node whose children do not yet follow it is
still in the queue (so nothing is forgotten), and that what was propagated is
carried.  When the queue is empty the first two meet: the propagated scopes are
a closed set inside the least one.  From it follow `RuntimeIsFounded`, at every
step, and `ScopesFollowPaths`, which the run checks.

About the paths it proves from `GraphAssumption`, for every finite graph and
every target, that `PathsInv` is inductive.  Its subject is the routes: the
sequences of nodes from a start to the target that follow the edges and repeat
no node but, at the end, the target.  The reverse search keeps every node it has
found leading to the target, and when no parents are left every route stays
among the nodes found (`Explored`, `WaysAreRelevant`).  The walk splits the
routes in two at every turn: a route is `Pending` if its start has not been taken
or it leaves the stack for a child that has not been looked at, and the paths
found are those of all other routes, each once (`Found`).  Entering a node,
turning back from one and leaving one each move at most one route across
(`FoundOneMore`, `FoundNoMore`).  At the end nothing is pending, and sorting by a
total order puts each path at the place that counts those before it
(`PlacesInAnOrder`).  `PathsAreExact` follows with `AllPathsAreRoutes`: the
routes are, in one form, the paths and cyclic paths that `AllPaths` defines.
`RelationshipsAgree` needs `RelationshipAssumption` too, and two more facts:
the owners are what is reached in rounds through structural nodes, so a target is
below one exactly when a route without hops reaches it (`DirectRoutes`; the
length of such a route is bounded by the number of nodes, which is why that many
rounds are enough); and the fold over the paths ends with the strongest thing
one of them says (`StrongestIsSaid`).

`QueriesAlwaysExact` puts the three together as invariants of `GraphQueries!Spec`,
the specification the run checks: a caller asks one query, and the other two
have not begun.

`FoldLemmas` gives induction and recursion a form the provers can use: over a set
of naturals instead of a predicate (`NatSetInduction`, from the least element of
a set), and with the step of a fold as a function instead of an operator
(`FoldFunctionExists`, `FoldInduction`: whatever every step keeps, the fold has
at the end); and it says that counting what comes before puts the members of a
finite set in a total order at places 0, 1, ... (`PlacesInAnOrder`).  The folds of
NodeFold, LicenseMerge, PackageRegistry, PathsTo and ScanRecord are proved about
with these.

`WitnessMergeProofs` proves from `WitnessAssumption`, for any packages and
witnesses and any interleaving of adds, merges and writes, that `RegistryInv`
always holds: each package of the registry, and of the clone a component holds,
has exactly the verifications, the references, the homepage and the advisory
identities of the witnesses heard under its PURL, tells every statement they
made, and publishes a reason only with the state one of them gave it for.  The
clone is in the invariant because it is written to on its own and merged back
later.  The history `heard` is what makes "exactly" sayable: a merge of two
packages is one hearing after the other (`Both`), whichever way it came about.
`VerificationStaysWithItsIssuer`, `WitnessesSurvive` and `RationaleHasItsState`
follow.

Of the node it proves from `ReportAssumption` that `NodeInv` always holds of a
folded node.  Usages, references and licence claims are read as sets of facts (a
path with a scope or a relationship somebody stated for it; a reference key with
a digest or a comment; a claim, and whether it is named), and the invariant says that the
facts of the node are those of the set of its witnesses, each key once.  Sets are
what makes it inductive: a merge of two nodes is the union of their facts, and a
union forgets the order.  That no key comes twice is needed since the next merge
looks for the first entry of a key.  `FoldIgnoresOrder`, `LicensesSurvive` and
`RefNamesOneLicense` follow.  `FirstStatedStands` is about order, so it has its
own invariant, `OrderInv`: the node `Retells` the list of its witnesses, that is,
the same origins stand in both and were first stated in the same order, and
finder and source scope are the first words of the list.  Retelling is kept by a
merge (`MergedRetells`), by lists that are joined (`JoinRetells`), and by a list
that says again what was said (`RetellsAgain`).

`DocumentExchangeProofs` proves five properties of `document_exchange`.

`ScopesSurvive` from no assumption, for any scopes, any documents of other
producers and any number of conversions.  A node may list any word as a scope
(the graph drops only the unknown one, and `canonicalScopeSet` drops none), so
that an export writes more than its reader knows.  The property is an equation:
what is held is what `ScopesLeft` leaves of the first scopes in the format of
the first export, and "runtime" in place of none where CycloneDX was involved.
`ScopesInv` says the same of the component projected (`ScopesNow`) and read
(`ScopesNext`).  On paper there are no scopes but a word and a list
(`WritesScopes`); `ReadingLeaves` is the heart of it, that either reader takes
from these exactly what is left, whatever word of a source goes with them:
where the list is of no use, no such word is written (`WordIsProjected`).
Known scopes are read as they are (`KnownScopesAreLeft`), so that a further
conversion leaves what the first one did (`ReadingAgainLeaves`).

`OriginsAreNotClaimed` from `HoldingsAssumption`, which says of references that
they are records of five fields with a locator each.  `CitesInv` says that
every address in hand, or on paper in a reference of a type the reader keeps,
is *fair*: the component was not fetched from it, or it was a reference or the
homepage to begin with.  What a writer adds for an origin is of a type the
reader drops (`CycloneDXRefsAreFair`, `SPDXRefsAreFair`), and no type is
changed on the way.  A homepage is part of the invariant since CycloneDX writes
it as a website and reads the least website as the homepage.

`DigestsFollowContent` from `ScanAssumption` and `RecordBoundsAssumption`, for any
scans, bounds and writers: `ScansInv` says of each wire that its sections, white
space aside, are the ones its writer wrote from the canonical record and its
digests are theirs (`AsSent`), unless its findings were taken out (`Stripped`).
That detection order is not in a record needs the insertion sort: it puts each
manifest behind what is not after it (`InsertManifestPuts`), so the result is
in order if no two manifests have one key (`ManifestsAreSorted`), and there is
one list in order of a set of manifests (`OrderedListsAreOne`).  That a reader
refuses nothing but alterations and size needs that sections are read as written
(`SectionIsRead`) and that sorting and the gates make none of them larger
(`CanonicalizeKeepsBounds`).  The assumptions say that a scan lists its entries,
that their graphs are finite sets of node records, that paths are ordered and
that the bounds are counts.

`ChangesAreToldOnce` from the same, for any two scans.  A merged graph has each
node ID once (`MergedNodes`, `MergedGraphNodes`), so `sortNodesForDiff` is a total order
of what is left of one identity on a side (`PlacesInDiff`), and pairing by place
is a bijection between the first places of the two sides that uses up the smaller
one (`PlacesPair`, `UpdatedPairs`).  Hence no node is told twice and none is left
over on both sides.  That comparing back says the same backwards is shown field by
field (`ComparedBack`): both the pairs and the transitions of a comparison turn
round with its sides.

`IdentityNamesOneInventory` from `ForeignAssumption`, for any foreign documents, any
number of builds and either setting of FIPS: `NamesInv` says that every name in the
archive was minted before the next build, and that a document of the archive is
called what the build under way is called only if the two are one inventory.
The names of a build are new in both formats, or they are the canonical name of
the one document it restates (`BuiltNames`); that rests on what a document is
called being read as it was written (`NamesAreRead`), in whichever spelling, with a
stated revision or without, and on `mintDocumentIdentity` filling only what is
empty (`MintedNames`).  A build that restates is declared unchanged and has one
source and no manifest beside it, so it has that source's inventory.  The
assumption says what foreign identities look like and that this program's UUIDs
and clock are apart from theirs.

What stays with TLC: liveness under fairness (`EveryCallEnds`, `EveryWaitEnds`,
`QueriesReturn`), and the other properties of `document_exchange`:
`NoDocumentLinksItself`, `ProvenanceSurvives`, `RestatementIsFixedPoint`,
`StructureSurvives`, `EveryComponentIsRead`, `EveryLicenseIsNamed`,
`ConclusionsStayApart`, `AdvisoriesStayTheirOwn`,
`ClaimsSettle` and `RecordsCompareAlike`.  They are about what comes out of filters,
sorts and flattened lists, several times over the same lists.  The prover has no
definition of `SelectSeq` and of `SortSeq`, and so none of `SetToSortSeq`; not even
that a filtered list has only members of the list can be cited.

## Findings

Five statements of the repository's own documentation are refuted, each by a
run of its own: `late_cleanup`, `ungated_analysis`, `fixed_point`,
`dangling_reference` and `record_roots`.  `PROJECT.json` quotes the statements
and says what each counterexample shows.

## Not modelled

- The transport (`runtime/serve.go`): a stateless table from RPCs to the served
  implementation, over gRPC and go-plugin.  Its interleavings with construction
  and exit are ManagedComponent's requests.
- A document that is decoded and encoded again without becoming a graph, and
  the strict mode that measures what a conversion loses.
- `CopyEdgesInto`'s partial failure, `FilterGraphByScope`, `SubgraphFrom` and who
  owns the graphs they return: the code makes no promise to check.
- The subject, run, policy, waivers and warnings of a scan record and its
  summary; policy evaluation, the detection filter and plugin descriptors: pure
  functions of one record that table-driven tests cover.
- A scope that holds the separator of a carrier (`,`, or `;` in an SPDX comment)
  and so reads as two; and `UnknownScopeTokens`, the list of tokens a document's
  reader could not read, which nothing in the repository acts on.
- String grammars and tables (purlkit, spdxkit, coordinates, ecosystems), JSON
  and XML encodings, HTTP and logging configuration, the conformance suite and
  test helpers: formatting, parsing and I/O that no property here is about.
- Whether a handler the transport stopped is still running while cleanups run
  depends on grpc's Stop.  ManagedComponent allows it, and the code promises
  nothing about it.
