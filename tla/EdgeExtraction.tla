---------------------------- MODULE EdgeExtraction ----------------------------
(***************************************************************************)
(* What an index run derives from the text of one file: its symbol rows,   *)
(* the edges and edge evidence out of each row and its usage examples      *)
(* (pipeline/edges.rs, usage.rs, utils.rs and the part of mod.rs that      *)
(* builds the rows).                                                       *)
(*                                                                         *)
(* A file is its place in the order of the paths, a name a number.  The    *)
(* content of a file is what the extractors find in it, a record           *)
(*   symbols     its symbols in order, each [name, kind, exported, start,  *)
(*               text, extends, implements, aliases], the text a sequence  *)
(*               of identifiers [name, line, call]                         *)
(*   imports     a set of [local, name, paths, at]: the name looked up,    *)
(*               the name where it comes from, the files tried, its place  *)
(*   typeEdges   a set of pairs of names                                   *)
(*   dataflow    a sequence of [from, flow, line, context]                 *)
(*   todos, patterns   its TODO comments and framework patterns in order   *)
(*   text        of the whole file                                         *)
(* Extraction computes it from a syntax tree.                              *)
(***************************************************************************)
EXTENDS Integers, SequencesExt

CONSTANTS
    None,
    PackageOf,     \* the package of a file, or None
    ReferenceLimit,\* how many identifiers of a row are looked up (20)
    EvidenceLimit  \* how many lines of an edge are kept (5)

Min2(a, b) == IF a < b THEN a ELSE b

\* The id hashes path, name and start; exported symbols hash the start 0.
SymbolId(f, name, start) == (f * 100 + name) * 100 + start
FileRoot == 0      \* the name hashed for the row of the file itself

FileRow(f, c) ==
    [id |-> SymbolId(f, FileRoot, 0), file |-> f, name |-> FileRoot, kind |-> "file",
     exported |-> FALSE, start |-> 0, extends |-> <<>>, implements |-> <<>>, aliases |-> <<>>,
     text |-> c.text]

\* Mutant: the id of every symbol hashes the start 0.
SymbolRowWithoutStart(f, s) ==
    [id |-> SymbolId(f, s.name, 0), file |-> f, name |-> s.name,
     kind |-> s.kind, exported |-> s.exported, start |-> s.start, extends |-> s.extends,
     implements |-> s.implements, aliases |-> s.aliases, text |-> s.text]

SymbolRow(f, s) ==
    [id |-> SymbolId(f, s.name, IF s.exported THEN 0 ELSE s.start), file |-> f, name |-> s.name,
     kind |-> s.kind, exported |-> s.exported, start |-> s.start, extends |-> s.extends,
     implements |-> s.implements, aliases |-> s.aliases, text |-> s.text]

\* The rows of a file: at place 0 the file itself, then each symbol that has a
\* text, at the place of the symbol.
SymbolRows(f, c) ==
    [i \in {0} \cup {j \in DOMAIN c.symbols : c.symbols[j].text # <<>>} |->
        IF i = 0 THEN FileRow(f, c) ELSE SymbolRow(f, c.symbols[i])]

\* A name stands for the last exported row that has it, else for what it stood
\* for before, else for the first row that has it.
RecordNames(names, rows) ==
    LET called(n) == {i \in DOMAIN rows : rows[i].name = n}
        exported(n) == {i \in called(n) : rows[i].exported}
    IN  [n \in DOMAIN names \cup {rows[i].name : i \in DOMAIN rows} |->
            IF exported(n) # {} THEN rows[CHOOSE i \in exported(n) : \A j \in exported(n) : j <= i].id
            ELSE IF n \in DOMAIN names THEN names[n]
            ELSE rows[CHOOSE i \in called(n) : \A j \in called(n) : i <= j].id]

-----------------------------------------------------------------------------
(* Imports. *)

\* The row a query by exact name returns first: exported, then path, then start.
FirstByName(rows) ==
    CHOOSE r \in rows : \A s \in rows \ {r} :
        \/ r.exported /\ ~s.exported
        \/ r.exported = s.exported /\ r.file < s.file
        \/ r.exported = s.exported /\ r.file = s.file /\ r.start <= s.start

\* The exported symbol in the first of the files tried that has one, else the
\* first exported symbol of that name anywhere, else an id made up for it.
ResolveImport(imp, symbols) ==
    LET inFile(f) == {r \in symbols : r.file = f /\ r.name = imp.name}
        hits == {i \in DOMAIN imp.paths :
                     inFile(imp.paths[i]) # {} /\ FirstByName(inFile(imp.paths[i])).exported}
        anywhere == {r \in symbols : r.name = imp.name /\ r.exported}
    IN  IF hits # {}
        THEN FirstByName(inFile(imp.paths[CHOOSE i \in hits : \A j \in hits : i <= j])).id
        ELSE IF anywhere # {} THEN FirstByName(anywhere).id
        ELSE IF imp.paths # <<>> THEN SymbolId(imp.paths[1], imp.name, 0)
        ELSE None

\* build_import_map: the last import of a name is the one there is.
ImportOf(c, name) ==
    {imp \in c.imports : /\ imp.local = name
                         /\ \A other \in c.imports : other.local = name => other.at <= imp.at}

\* What a name in a row of content c stands for: names of the file (and of the
\* files before it in a sequential run) go before imports.  A name that stands
\* for the row itself gives nothing.
Target(row, c, names, symbols, name) ==
    IF name \in DOMAIN names
    THEN IF names[name] = row.id THEN None ELSE names[name]
    ELSE IF ImportOf(c, name) # {}
    THEN ResolveImport(CHOOSE imp \in ImportOf(c, name) : TRUE, symbols)
    ELSE None

-----------------------------------------------------------------------------
(* Edges. *)

\* The resolution of an edge by the files and packages of its ends.
DetermineResolution(fromFile, toFile, wasImport) ==
    LET known == PackageOf[fromFile] # None /\ PackageOf[toFile] # None
        same == PackageOf[fromFile] = PackageOf[toFile]
    IN  CASE fromFile = toFile -> "local"
          [] fromFile # toFile /\ wasImport /\ known ->
                 IF same THEN "package-import" ELSE "cross-package-import"
          [] fromFile # toFile /\ wasImport /\ ~known -> "import"
          [] fromFile # toFile /\ ~wasImport /\ known ->
                 IF same THEN "package" ELSE "cross-package"
          [] OTHER -> "unknown"

\* Only rows of the file being indexed (the batch) are looked up.
Resolution(row, batch, to, wasImport) ==
    LET found == {r \in batch : r.id = to}
    IN  IF found # {}
        THEN DetermineResolution(row.file, (CHOOSE r \in found : TRUE).file, wasImport)
        ELSE IF wasImport THEN "import" ELSE "unknown"

ResolutionRank(r) ==
    CASE r = "local" -> 3 [] r = "import" -> 2 [] r = "heuristic" -> 1 [] OTHER -> 0

\* Where a name occurs in the text of a row: how often, and how often on each
\* line, the lines with most occurrences first and at most EvidenceLimit lines.
Evidence(row, name) ==
    LET at == {i \in DOMAIN row.text : row.text[i].name = name}
        lines == {row.text[i].line : i \in at}
        on(l) == Cardinality({i \in at : row.text[i].line = l})
        before(l) == {k \in lines : on(k) > on(l) \/ (on(k) = on(l) /\ k < l)}
    IN  [total |-> IF at = {} THEN 1 ELSE Cardinality(at),
         lines |-> {[line |-> l, count |-> on(l)] :
                        l \in {k \in lines : Cardinality(before(k)) < EvidenceLimit}}]

\* One edge of a type to each target of the names ns, from the first that has it.
\* ns has each name at its place in the text, or in the list it is from.
EdgesTo(row, c, names, symbols, batch, type, ns) ==
    LET target(i) == Target(row, c, names, symbols, ns[i])
        first == {i \in DOMAIN ns : target(i) # None /\ \A j \in DOMAIN ns : j < i => target(j) # target(i)}
    IN  {[from |-> row.id, to |-> target(i), type |-> type,
          resolution |-> Resolution(row, batch, target(i), ns[i] \notin DOMAIN names),
          evidence |-> Evidence(row, ns[i])] : i \in first}

Callees(row) ==
    [i \in {j \in DOMAIN row.text : row.text[j].call} |-> row.text[i].name]

\* The identifiers that are looked up: those naming the row itself are passed
\* over and do not count, all others do.
References(row, names) ==
    LET counts(o) == o.name # row.name /\ (o.name \in DOMAIN names => names[o.name] # row.id)
        idents == {i \in DOMAIN row.text : counts(row.text[i])}
    IN  [i \in {j \in idents : Cardinality({k \in idents : k < j}) < ReferenceLimit} |->
            row.text[i].name]

TypeNames(row, c) ==
    [n \in {te[2] : te \in {t \in c.typeEdges : t[1] = row.name}} |-> n]

\* The first data flow to each target by each kind of flow, whatever its
\* context; without evidence.
DataflowEdges(row, c, names, symbols, batch) ==
    LET d == c.dataflow
        target(i) == Target(row, c, names, symbols, d[i].from)
        first == {i \in DOMAIN d :
                     /\ target(i) # None
                     /\ \A j \in DOMAIN d : j < i => target(j) # target(i) \/ d[j].flow # d[i].flow}
    IN  {[from |-> row.id, to |-> target(i), type |-> d[i].flow,
          resolution |-> Resolution(row, batch, target(i), d[i].from \notin DOMAIN names),
          evidence |-> [total |-> 1, lines |-> {}]] : i \in first}

EdgesOfSymbol(row, c, names, symbols, batch) ==
    LET to(type, ns) == EdgesTo(row, c, names, symbols, batch, type, ns)
        typed == row.kind \in {"class", "interface", "type_alias"}
    IN  to("call", Callees(row)) \cup to("reference", References(row, names))
        \cup (IF typed
              THEN to("extends", row.extends) \cup to("implements", row.implements)
                   \cup to("alias", row.aliases)
              ELSE {})
        \cup to("type", TypeNames(row, c))
        \cup DataflowEdges(row, c, names, symbols, batch)

-----------------------------------------------------------------------------
(* Usage examples, one per target and kind in the first row that uses it. *)

\* Imports are resolved by path alone here: to the id an exported symbol of
\* that name would have in the first file tried.
UsageTarget(row, c, names, name) ==
    IF name \in DOMAIN names
    THEN IF names[name] = row.id THEN None ELSE names[name]
    ELSE IF \E imp \in ImportOf(c, name) : imp.paths # <<>>
    THEN LET imp == CHOOSE imp \in ImportOf(c, name) : imp.paths # <<>>
         IN  SymbolId(imp.paths[1], imp.name, 0)
    ELSE None

\* The names of a row that are looked up for references: in the order in which
\* they occur, those that stand for something, at most ReferenceLimit.
UsedNames(row, c, names) ==
    LET found == {row.text[i].name : i \in DOMAIN row.text} \ {row.name}
        meant == {n \in found : UsageTarget(row, c, names, n) # None}
        firstAt(n) == CHOOSE i \in DOMAIN row.text :
                          row.text[i].name = n /\ \A j \in 1..(i - 1) : row.text[j].name # n
    IN  {n \in meant : Cardinality({m \in meant : firstAt(m) < firstAt(n)}) < ReferenceLimit}

\* The examples of a file.  Their lines and snippets are left out.
UsageExamples(f, c, names, rows) ==
    LET uses(row, type, ns) ==
            {[to |-> UsageTarget(row, c, names, n), from |-> row.id, type |-> type, file |-> f] :
                 n \in ns}
        used(row) == uses(row, "call", ToSet(Callees(row)))
                     \cup uses(row, "reference", UsedNames(row, c, names))
        imported == {[to |-> SymbolId(imp.paths[1], imp.name, 0), from |-> None,
                      type |-> "import", file |-> f] : imp \in {i \in c.imports : i.paths # <<>>}}
    IN  {u \in imported \cup UNION {used(rows[i]) : i \in DOMAIN rows} : u.to # None}
=============================================================================
