------------------------------- MODULE CodeGraph -------------------------------
(***************************************************************************)
(* The tables of the code graph -- symbols, edges, edge_evidence,          *)
(* usage_examples, symbol_metrics, todos, framework_patterns -- under      *)
(* edits and index runs.                                                   *)
(*                                                                         *)
(* Every foreign key of these tables cascades (schema.rs), so deleting the *)
(* rows of a file takes with it the edges of other files into it.  A run   *)
(* handles a file in two steps here, its rows and what is derived from     *)
(* them; SequentialIndexer and ParallelIndexer have the statements.  With  *)
(* one worker the names of a run are collected file after file, with a     *)
(* pool each file has its own and the steps of files interleave.           *)
(***************************************************************************)
EXTENDS EdgeExtraction, GraphQueries, TLC

CONSTANTS
    Contents,    \* the contents a file goes through: a sequence for each file
    Pools,       \* which modes are looked at: TRUE for a pool of workers
    Unit,        \* parts of a PageRank score
    Damping, Iterations,   \* pagerank_damping, pagerank_iterations
    MaxCuts,     \* bound: runs cut short by a crash or an error
    Depths, Limits         \* depths and limits of the queries looked at

Source == Contents @@ <<>>   \* for TLC to compute them once
Files == DOMAIN Source
Absent == 0

ASSUME GraphFilesAssumption == Files \subseteq Nat \ {0} /\ IsFiniteSet(Files)
ASSUME GraphBoundsAssumption ==
    Pools \subseteq BOOLEAN /\ MaxCuts \in Nat /\ Depths \cup Limits \subseteq Nat

\* The shape of the contents, as far as anything depends on it.
IsSeq(s) == s \in Seq({s[i] : i \in DOMAIN s})
IsContent(c) ==
    /\ IsSeq(c.symbols) /\ IsSeq(c.text) /\ IsSeq(c.dataflow)
    /\ IsSeq(c.todos) /\ \A i \in DOMAIN c.todos : c.todos[i].line \in Nat
    /\ IsSeq(c.patterns) /\ \A i \in DOMAIN c.patterns : c.patterns[i].line \in Nat
    /\ \A i \in DOMAIN c.symbols :
           LET s == c.symbols[i]
           IN  /\ s.start \in Nat /\ s.exported \in BOOLEAN
               /\ \A q \in {s.text, s.extends, s.implements, s.aliases} : IsSeq(q)
    /\ \A imp \in c.imports : IsSeq(imp.paths) /\ imp.at \in Nat
    /\ \A t \in c.typeEdges : t[2] \in Int
    /\ \A i \in DOMAIN c.dataflow : c.dataflow[i].flow \in {"reads", "writes"}
ASSUME SourceAssumption ==
    \A f \in Files :
        /\ IsSeq(Source[f]) /\ Source[f] # <<>>
        /\ \A v \in DOMAIN Source[f] : IsContent(Source[f][v])

\* A hash is a number, and no two different symbols, of the contents or made up
\* for an import, have the same.
Hashed(f, c) ==
    {<<f, FileRoot, 0>>}
    \cup {<<f, c.symbols[i].name, IF c.symbols[i].exported THEN 0 ELSE c.symbols[i].start>> :
              i \in DOMAIN c.symbols}
    \cup {<<imp.paths[1], imp.name, 0>> : imp \in {m \in c.imports : m.paths # <<>>}}
AllHashed == UNION {UNION {Hashed(f, Source[f][v]) : v \in DOMAIN Source[f]} : f \in Files}
ASSUME HashAssumption ==
    \A x, y \in AllHashed :
        /\ SymbolId(x[1], x[2], x[3]) \in Nat /\ SymbolId(x[1], x[2], x[3]) # None
        /\ SymbolId(x[1], x[2], x[3]) = SymbolId(y[1], y[2], y[3]) => x = y

VARIABLES
    pool,      \* configuration: parallel_workers > 1
    disk,      \* which content a file has
    stamp,     \* file_fingerprints: the content the stored stamp stands for
    symbols,   \* table symbols, with the texts the edges come from
    edges,     \* table edges
    evidence,  \* table edge_evidence
    usage,     \* table usage_examples
    metrics,   \* table symbol_metrics: pagerank by symbol
    todos,     \* table todos, one row for each file and line
    patterns,  \* table framework_patterns, one row for each place in a file
    pc,        \* "idle", "files" or "rank"
    todo,      \* files the run has still to look at
    busy,      \* files between their two steps, with the content read
    names,     \* name_to_id of a run with one worker
    touched,   \* stats.files_indexed + stats.files_deleted > 0
    cuts       \* runs cut short so far

graph == <<symbols, edges, evidence, usage, metrics>>
notes == <<todos, patterns>>
tables == <<graph, notes>>
run == <<pc, todo, busy, names, touched>>
vars == <<pool, disk, stamp, tables, run, cuts>>

EdgeTypes == {TypeOrder[i] : i \in DOMAIN TypeOrder}
Ids == {r.id : r \in symbols}

\* The rows made of each content.
Rows == [f \in Files |-> [v \in DOMAIN Source[f] |-> SymbolRows(f, Source[f][v])]]
Content(f) == Source[f][disk[f]]

\* What identifies an edge.
Key(e) == <<e.from, e.to, e.type>>

TypeOK ==
    /\ pool \in BOOLEAN
    /\ \A f \in Files : disk[f] \in 0 .. Len(Source[f]) /\ stamp[f] \in 0 .. Len(Source[f])
    /\ \A r, s \in symbols : r.id = s.id => r = s
    /\ \A e \in edges : e.type \in EdgeTypes /\ e.count \in Nat \ {0}
    /\ \A d, e \in edges : Key(d) = Key(e) => d = e
    /\ pc \in {"idle", "files", "rank"}
    /\ todo \subseteq Files /\ DOMAIN busy \subseteq Files
    /\ touched \in BOOLEAN /\ cuts \in 0 .. MaxCuts
    /\ DOMAIN metrics \subseteq Ids

Init ==
    /\ pool \in Pools
    /\ disk = [f \in Files |-> 1]
    /\ stamp = [f \in Files |-> Absent]
    /\ symbols = {} /\ edges = {} /\ evidence = {} /\ usage = {}
    /\ metrics = <<>> /\ todos = {} /\ patterns = {}
    /\ pc = "idle" /\ todo = {} /\ busy = <<>> /\ names = <<>> /\ touched = FALSE
    /\ cuts = 0

-----------------------------------------------------------------------------
(* The user, between runs: SequentialIndexer has edits during a run.  A file *)
(* goes through its contents once, a content has a time stamp of its own.    *)

Edit(f) ==
    /\ pc = "idle"
    /\ disk[f] \in 1..(Len(Source[f]) - 1)
    /\ disk' = [disk EXCEPT ![f] = @ + 1]
    /\ UNCHANGED <<pool, stamp, tables, run, cuts>>

Delete(f) ==
    /\ pc = "idle"
    /\ disk[f] = Len(Source[f])
    /\ disk' = [disk EXCEPT ![f] = Absent]
    /\ UNCHANGED <<pool, stamp, tables, run, cuts>>

-----------------------------------------------------------------------------
(* Statements on the tables. *)

\* Mutant: only the edges out of the deleted symbols go.
DeleteSymbolsOfOneWay(fs, stored) ==
    LET gone == {r.id : r \in {s \in symbols : s.file \in fs}}
    IN  /\ symbols' = {r \in symbols : r.file \notin fs} \cup stored
        /\ edges' = {e \in edges : e.from \notin gone}
        /\ evidence' = {e \in evidence : e.from \notin gone}
        /\ usage' = {u \in usage : u.from \notin gone /\ u.file \notin fs}
        /\ metrics' = [id \in DOMAIN metrics \ gone |-> metrics[id]]

\* DELETE FROM symbols WHERE file_path IN fs, and the cascade; the usage
\* examples found in the files go too.
DeleteSymbolsOf(fs, stored) ==
    LET gone == {r.id : r \in {s \in symbols : s.file \in fs}}
    IN  /\ symbols' = {r \in symbols : r.file \notin fs} \cup stored
        /\ edges' = {e \in edges : e.from \notin gone /\ e.to \notin gone}
        /\ evidence' = {e \in evidence : e.from \notin gone /\ e.to \notin gone}
        /\ usage' = {u \in usage : u.to \notin gone /\ u.from \notin gone /\ u.file \notin fs}
        /\ metrics' = [id \in DOMAIN metrics \ gone |-> metrics[id]]

\* Rows of one id overwrite each other, the last one stays.
LastOfEachId(rows) ==
    {rows[i] : i \in {j \in DOMAIN rows : \A k \in DOMAIN rows : j < k => rows[k].id # rows[j].id}}

\* INSERT ... ON CONFLICT: the greater count and the resolution of greater rank
\* stay.  An edge to or from a symbol there is not violates a foreign key, the
\* statement fails and the failure is ignored.
UpsertEdges(old, new, ids) ==
    LET ok == {e \in new : e.from \in ids /\ e.to \in ids}
        merged(e) ==
            LET prior == {d \in old : Key(d) = Key(e)}
                all == prior \cup {[from |-> e.from, to |-> e.to, type |-> e.type,
                                    resolution |-> e.resolution, count |-> e.evidence.total]}
                best == CHOOSE d \in all : \A c \in all :
                            \/ ResolutionRank(d.resolution) > ResolutionRank(c.resolution)
                            \/ ResolutionRank(d.resolution) = ResolutionRank(c.resolution)
                               /\ (d \in prior \/ c \notin prior)
            IN  [best EXCEPT !.count = CHOOSE n \in {d.count : d \in all} : \A d \in all : d.count <= n]
    IN  {d \in old : Key(d) \notin {Key(e) : e \in ok}} \cup {merged(e) : e \in ok}

\* What is found at the places 0 to n is stored one after the other.
UpsertInTurn(old, found, n, ids) ==
    LET after[i \in 0..n] ==
            UpsertEdges(IF i = 0 THEN old ELSE after[i - 1], found[i], ids)
    IN  after[n]

UpsertEvidence(old, new, ids) ==
    LET rows == UNION {{[from |-> e.from, to |-> e.to, type |-> e.type, line |-> l.line, count |-> l.count] :
                            l \in e.evidence.lines} : e \in {d \in new : d.from \in ids /\ d.to \in ids}}
        all == old \cup rows
        sameKey(d, e) == [d EXCEPT !.count = 0] = [e EXCEPT !.count = 0]
    IN  {e \in all : \A d \in all : sameKey(d, e) => d.count <= e.count}

UpsertUsage(old, new, ids) ==
    old \cup {u \in new : u.to \in ids /\ (u.from = None \/ u.from \in ids)}

NotesOfOthers(rows, fs) == {n \in rows : n.file \notin fs}

\* The id is the file and the line of the comment, so the last TODO of a comment
\* of several lines is the one that stays.
UpsertTodos(old, f, found) ==
    LET last == {i \in DOMAIN found : \A j \in (i + 1)..Len(found) : found[j].line # found[i].line}
        rows == {[file |-> f, line |-> found[i].line, kind |-> found[i].kind,
                  symbol |-> found[i].symbol] : i \in last}
        same(a, b) == a.file = b.file /\ a.line = b.line
    IN  {o \in old : \A n \in rows : ~same(o, n)} \cup rows

\* The id is the file, the place and the number of the pattern in the file.
UpsertPatterns(old, f, found) ==
    LET rows == {[file |-> f, nth |-> i, is |-> found[i]] : i \in DOMAIN found}
        same(a, b) == a.file = b.file /\ a.nth = b.nth /\ a.is.line = b.is.line
    IN  {o \in old : \A n \in rows : ~same(o, n)} \cup rows

-----------------------------------------------------------------------------
(* An index run. *)

\* The patterns of a deleted file are not deleted with it.
StartRun ==
    /\ pc = "idle"
    /\ LET gone == {f \in Files : stamp[f] # Absent /\ disk[f] = Absent}
       IN  /\ DeleteSymbolsOf(gone, {})
           /\ stamp' = [f \in Files |-> IF f \in gone THEN Absent ELSE stamp[f]]
           /\ todos' = NotesOfOthers(todos, gone)
           /\ touched' = (gone # {})
    /\ pc' = "files"
    /\ todo' = {f \in Files : disk[f] # Absent}
    /\ busy' = <<>> /\ names' = <<>>
    /\ UNCHANGED <<pool, disk, patterns, cuts>>

\* A worker takes any file, a run without workers the next.
Next1(f) == f \in todo /\ (pool \/ (busy = <<>> /\ f = Min(todo)))

PassOver(f) ==
    /\ pc = "files" /\ Next1(f)
    /\ disk[f] = Absent \/ stamp[f] = disk[f]
    /\ todo' = todo \ {f}
    /\ UNCHANGED <<pool, disk, stamp, tables, pc, busy, names, touched, cuts>>

\* Mutant: the new rows are stored without the deletion of the old ones.
StoreSymbolsOverOld(f) ==
    /\ pc = "files" /\ Next1(f)
    /\ disk[f] # Absent /\ stamp[f] # disk[f]
    /\ LET rows == Rows[f][disk[f]]
       IN  /\ DeleteSymbolsOf({}, LastOfEachId(rows))
           /\ names' = IF pool THEN names ELSE RecordNames(names, rows)
    /\ todo' = todo \ {f}
    /\ busy' = [g \in DOMAIN busy \cup {f} |-> IF g = f THEN disk[f] ELSE busy[g]]
    /\ todos' = NotesOfOthers(todos, {f}) /\ patterns' = NotesOfOthers(patterns, {f})
    /\ UNCHANGED <<pool, disk, stamp, pc, touched, cuts>>

\* The old rows are deleted, the new rows stored and their names collected.
StoreSymbols(f) ==
    /\ pc = "files" /\ Next1(f)
    /\ disk[f] # Absent /\ stamp[f] # disk[f]
    /\ LET rows == Rows[f][disk[f]]
       IN  /\ DeleteSymbolsOf({f}, LastOfEachId(rows))
           /\ names' = IF pool THEN names ELSE RecordNames(names, rows)
    /\ todo' = todo \ {f}
    /\ busy' = [g \in DOMAIN busy \cup {f} |-> IF g = f THEN disk[f] ELSE busy[g]]
    /\ todos' = NotesOfOthers(todos, {f}) /\ patterns' = NotesOfOthers(patterns, {f})
    /\ UNCHANGED <<pool, disk, stamp, pc, touched, cuts>>

\* Mutant: with a pool the names of the file itself are not recorded.
NamesOfPool(rows) == names

\* name_to_id of a file: of a pool's file its own names alone.
KnownNames(rows) == IF pool THEN RecordNames(<<>>, rows) ELSE names

\* The edges and examples of the content read, against the symbols there are
\* now, and last the stamp.
StoreEdges(f) ==
    /\ pc = "files" /\ f \in DOMAIN busy
    /\ LET c == Source[f][busy[f]]
           rows == Rows[f][busy[f]]
           known == KnownNames(rows)
           batch == {rows[j] : j \in DOMAIN rows}
           last == Len(c.symbols)
           found == [i \in 0..last |-> IF i \in DOMAIN rows
                                       THEN EdgesOfSymbol(rows[i], c, known, symbols, batch)
                                       ELSE {}]
       IN  /\ edges' = UpsertInTurn(edges, found, last, Ids)
           /\ evidence' = UpsertEvidence(evidence, UNION {found[i] : i \in 0..last}, Ids)
           /\ usage' = UpsertUsage(usage, UsageExamples(f, c, known, rows), Ids)
           /\ todos' = UpsertTodos(todos, f, c.todos)
           /\ patterns' = UpsertPatterns(patterns, f, c.patterns)
    /\ stamp' = [stamp EXCEPT ![f] = busy[f]]
    /\ busy' = [g \in DOMAIN busy \ {f} |-> busy[g]]
    /\ touched' = TRUE
    /\ UNCHANGED <<pool, disk, symbols, metrics, pc, todo, names, cuts>>

\* Mutant: the scores are computed when there are none.
EndFilesRankingOnce ==
    /\ pc = "files" /\ todo = {} /\ busy = <<>>
    /\ pc' = IF touched /\ symbols # {} /\ metrics = <<>> THEN "rank" ELSE "idle"
    /\ UNCHANGED <<pool, disk, stamp, tables, todo, busy, names, touched, cuts>>

EndFiles ==
    /\ pc = "files" /\ todo = {} /\ busy = <<>>
    /\ pc' = IF touched THEN "rank" ELSE "idle"
    /\ UNCHANGED <<pool, disk, stamp, tables, todo, busy, names, touched, cuts>>

Ranked == {r.id : r \in {s \in symbols : s.kind # "file"}}
Ranks == PageRank(Ranked, edges, Unit, Damping, Iterations)

\* compute_and_store_pagerank; scores of symbols not ranked now stay.
Rank ==
    /\ pc = "rank"
    /\ metrics' = [id \in Ranked \cup DOMAIN metrics |->
                      IF id \in Ranked THEN Ranks[id] ELSE metrics[id]]
    /\ pc' = "idle"
    /\ UNCHANGED <<pool, disk, stamp, symbols, edges, evidence, usage, notes, todo, busy, names,
                   touched, cuts>>

\* The process dies or an error leaves the run.
Cut ==
    /\ pc # "idle" /\ cuts < MaxCuts
    /\ cuts' = cuts + 1
    /\ pc' = "idle" /\ todo' = {} /\ busy' = <<>> /\ names' = <<>>
    /\ UNCHANGED <<pool, disk, stamp, tables, touched>>

Next ==
    \/ StartRun \/ EndFiles \/ Rank \/ Cut
    \/ \E f \in Files : Edit(f) \/ Delete(f) \/ PassOver(f) \/ StoreSymbols(f) \/ StoreEdges(f)

Spec == Init /\ [][Next]_vars

-----------------------------------------------------------------------------
(* Properties. *)

RowOf(id) == CHOOSE r \in symbols : r.id = id
Stored(f) == {r \in symbols : r.file = f}
Settled(f) == disk[f] # Absent /\ stamp[f] = disk[f] /\ f \notin DOMAIN busy
Calls(r) == {o.name : o \in {r.text[i] : i \in {j \in DOMAIN r.text : r.text[j].call}}}

(* The content the rows of a file come from. *)
ReadFrom(f) == IF f \in DOMAIN busy THEN busy[f] ELSE stamp[f]

(* No edge outlives the text it was found in: in the content its file was  *)
(* last stored from, a symbol of the edge's source mentions a name of its  *)
(* target, and the ends of every edge, piece of evidence and example are   *)
(* symbols that are stored now.  Nor does a TODO or a pattern, a pattern   *)
(* as long as its file is known.                                           *)
EdgesFollowText ==
    /\ \A e \in edges \cup evidence : e.from \in Ids /\ e.to \in Ids
    /\ \A u \in usage : u.to \in Ids /\ (u.from = None \/ u.from \in Ids)
    /\ \A e \in edges : e.type \in {"call", "reference"} =>
        LET f == RowOf(e.from).file
            c == Source[f][ReadFrom(f)]
            t == RowOf(e.to)
            meant(n) == n = t.name \/ \E imp \in c.imports : imp.local = n /\ imp.name = t.name
        IN  \E k \in DOMAIN Rows[f][ReadFrom(f)] :
                LET r == Rows[f][ReadFrom(f)][k]
                IN  /\ r.id = e.from
                    /\ \E i \in DOMAIN r.text :
                           meant(r.text[i].name) /\ (e.type = "call" => r.text[i].call)
    /\ \A v \in evidence : \E e \in edges : e.from = v.from /\ e.to = v.to /\ e.type = v.type
    /\ \A n \in todos : ReadFrom(n.file) # Absent /\ \E i \in DOMAIN Source[n.file][ReadFrom(n.file)].todos :
           LET t == Source[n.file][ReadFrom(n.file)].todos[i]
           IN  t.line = n.line /\ t.kind = n.kind
    /\ \A n \in patterns : ReadFrom(n.file) # Absent =>
           n.is = Source[n.file][ReadFrom(n.file)].patterns[n.nth]

(* With a pool, the calls between the symbols of a file that is not due to *)
(* be indexed have their edges, whatever was indexed before, after or at   *)
(* the same time.                                                          *)
LocalCallsHaveEdges ==
    pool => \A f \in {g \in Files : Settled(g)} : \A r, s \in Stored(f) :
        /\ r # s /\ s.name \in Calls(r) /\ s.name # r.name
        /\ \A t \in Stored(f) : t.name = s.name => t = s
        => \E e \in edges : e.from = r.id /\ e.to = s.id /\ e.type = "call"

(* While no run has been cut short, the stored scores between runs are the *)
(* PageRank of the edges there are: no step changes the graph and leaves   *)
(* the ranking behind.                                                     *)
RanksAreCurrent ==
    pc = "idle" /\ cuts = 0 => \A id \in Ranked : id \in DOMAIN metrics /\ metrics[id] = Ranks[id]

Degree(id, down) == Cardinality({e \in edges : IF down THEN e.from = id ELSE e.to = id})

\* The LIMIT of the queries leaves no edge of these symbols out.
Unlimited(q, nodes) ==
    \A n \in nodes : (q.down => Degree(n, TRUE) <= q.limit) /\ (q.up => Degree(n, FALSE) <= q.limit)

Queries ==
    {DependencyQuery(d, n, l) : d \in {"upstream", "downstream", "bidirectional"}, n \in Depths, l \in Limits}
    \cup {CallQuery(d, n, l) : d \in {"callers", "callees"}, n \in Depths, l \in Limits}
    \cup {TypeQuery(n, l) : n \in Depths, l \in Limits}

(* On the graph a run leaves, before it is ranked: a graph answer lists no *)
(* more edges than asked for, shows only symbols within the depth, each    *)
(* with an edge that leads to it, lists no edge twice when it looks one    *)
(* way, and when the limit cuts nothing off shows every symbol within the  *)
(* depth, cycles or not.                                                   *)
TraversalsAreExact ==
    pc = "rank" => \A q \in Queries, root \in Ids :
        LET g == Traverse(q, edges, root)
            near == Within(q, edges, root)
        IN  /\ Len(g.edges) <= q.limit
            /\ g.nodes \subseteq near
            /\ \A n \in g.nodes \ {root} : \E i \in DOMAIN g.edges : n \in {g.edges[i].from, g.edges[i].to}
            /\ ~(q.up /\ q.down) => Cardinality({g.edges[i] : i \in DOMAIN g.edges}) = Len(g.edges)
            /\ Len(g.edges) < q.limit /\ Unlimited(q, near) => g.nodes = near

(* find_affected_code loses none of the symbols its graph shows to the     *)
(* second cut at the limit.                                                *)
AffectedAreComplete(root, depth, limit) ==
    LET affected == Affected(edges, root, depth, limit, {}, {s.id : s \in {r \in symbols : r.exported}})
    IN  {affected[i] : i \in DOMAIN affected}
            = Traverse(DependencyQuery("upstream", depth, limit), edges, root).nodes \ {root}

(* trace_data_flow reports each symbol once, with a number of steps in     *)
(* which the root reaches it, the least there is when the limit cuts       *)
(* nothing off.                                                            *)
TracedDown(depth, limit) ==
    [types |-> TracedTypes, up |-> FALSE, down |-> TRUE, depth |-> depth, limit |-> limit]

FlowsAreShortest(root, depth, limit) ==
    LET flows == TraceDataFlow(edges, root, depth, limit, "both")
        near(d) == Within(TracedDown(d, limit), edges, root)
    IN  /\ \A i, j \in DOMAIN flows : flows[i].id = flows[j].id => i = j
        /\ \A i \in DOMAIN flows : flows[i].id \in near(flows[i].steps)
        /\ Len(flows) < limit /\ Unlimited(TracedDown(depth, limit), near(depth))
           => \A i \in DOMAIN flows : flows[i].id \notin near(flows[i].steps - 1)

(* find_references finds every edge of a type into a symbol that has no    *)
(* more edges than the limit.                                              *)
ReferencesAreComplete(root, limit) ==
    LET into == {e \in edges : e.to = root}
    IN  Cardinality(into) <= limit => \A t \in EdgeTypes :
            LET refs == FindReferences(edges, <<root>>, t, limit)
            IN  {refs[i] : i \in DOMAIN refs} = {e \in into : e.type = t}

(* search_todos finds all TODOs of a kind in a file that has no more TODOs *)
(* than the limit.                                                         *)
TodosAreComplete(limit) ==
    \A kind \in {"todo", "fixme"}, f \in Files :
        LET asked == {n \in todos : n.file = f}
            found == SearchTodos(todos, f, kind, limit)
        IN  Cardinality(asked) <= limit =>
                {found[i] : i \in DOMAIN found} = {n \in asked : n.kind = kind}

(* search_framework_patterns finds as many patterns of a kind as there are *)
(* and are asked for.                                                      *)
PatternsAreComplete(limit) ==
    \A f \in Files :
        LET asked == {n \in patterns : n.file = f /\ n.is.kind = "route"}
            found == SearchFrameworkPatterns(patterns, f, "route", limit)
        IN  Len(found) = Min2(limit, Cardinality(asked)) /\ \A i \in DOMAIN found : found[i] \in asked

(* The five tools built on the traversals and the stored notes answer      *)
(* exactly what their names promise, each in the sense stated above.       *)
ToolsAreExact ==
    pc = "rank" => \A root \in Ids, depth \in Depths, limit \in Limits :
        /\ AffectedAreComplete(root, depth, limit)
        /\ FlowsAreShortest(root, depth, limit)
        /\ ReferencesAreComplete(root, limit)
        /\ TodosAreComplete(limit)
        /\ PatternsAreComplete(limit)

(* What the documentation says of the call hierarchy: it finds all callers *)
(* of a function.  When nothing is left to index, a symbol that calls an   *)
(* imported function is among the callers of that function.                *)
CallersAreFound ==
    (pc = "idle" /\ \A f \in Files : Settled(f)) =>
        \A f \in Files : \A r \in Stored(f) : \A imp \in Content(f).imports : \A t \in symbols :
            /\ imp.local \in Calls(r) /\ imp.local \notin {s.name : s \in Stored(f)}
            /\ imp.paths # <<>> /\ t.file = imp.paths[1] /\ t.name = imp.name /\ t.exported
            => r.id \in Traverse(CallQuery("callers", 1, 100), edges, t.id).nodes
=============================================================================
