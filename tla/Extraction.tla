------------------------------- MODULE Extraction -------------------------------
(***************************************************************************)
(* What the extractors of indexer/extract find in the syntax tree of one   *)
(* file: symbols, imports, type edges, data flow, TODO comments and the    *)
(* patterns of a web framework.  tree-sitter itself is left out.           *)
(*                                                                         *)
(* A tree is a record [language, nodes, imports].  nodes holds the         *)
(* declarations, comments and loose statements in the order of the file,   *)
(* each a record                                                           *)
(*   what     syntactic class: "function", "method", "class", "const", ... *)
(*   name, parent, start, line   parent 0 is the file; a declaration in a  *)
(*            function's body stands in it directly                        *)
(*   mark     what the language reads the visibility from: "export",       *)
(*            "pub", "restricted", "public", "upper", "underscore" or ""   *)
(*   types    the type expressions of signature, fields, members or value  *)
(*   value    of a const, let or var: "none", "function" for an arrow      *)
(*            function with a block, "arrow" for one with an expression,   *)
(*            "plain" for any other; of a struct "tuple" when its fields   *)
(*            have no names                                                *)
(*   body     its expressions, before those of the nodes within it         *)
(*   extends, implements, aliases   the names its own text relates it to   *)
(*   marks    of a comment: "todo" or "fixme" for each line that has one   *)
(* and imports the import clauses, each [form, name, alias, paths].        *)
(*                                                                         *)
(* A type is [shape, name, args], shape "named", "generic", "wrapper" (a   *)
(* reference, array or tuple) or "other"; an expression [op, name, args,   *)
(* line].  A declaration of several variables is one node for each.        *)
(***************************************************************************)
EXTENDS Integers, Sequences, FiniteSets, TLC
LOCAL INSTANCE SequencesExt

CONSTANTS
    ElysiaMethods, \* the kind of pattern of each method name that makes one
    None

Concat(s, Op(_)) == FlattenSeq([i \in DOMAIN s |-> Op(s[i])])

Nodes(tree) == DOMAIN tree.nodes

\* Node i and the nodes within it, in the order of the file.
Inside(tree, i) ==
    LET in[j \in Nodes(tree) \cup {0}] == j = i \/ (j # 0 /\ in[tree.nodes[j].parent])
    IN  SelectSeq([j \in Nodes(tree) |-> j], LAMBDA j : in[j])

-----------------------------------------------------------------------------
(* Texts: the identifiers of a node with their lines, those before a "("    *)
(* marked as calls.                                                         *)

Token(name, line, call) == [name |-> name, line |-> line, call |-> call]

RECURSIVE TypeNamesOf(_)
TypeNamesOf(t) ==
    (IF t.shape \in {"named", "generic"} THEN <<t.name>> ELSE <<>>) \o Concat(t.args, TypeNamesOf)

RECURSIVE Tokens(_)
Tokens(e) ==
    LET own == <<Token(e.name, e.line, FALSE)>>
        parts == Concat(e.args, Tokens)
        callee == Tokens(e.args[1])
    IN  CASE e.op \in {"ident", "string"} -> own
          [] e.op = "new" -> <<Token(e.name, e.line, TRUE)>> \o parts
          [] e.op = "member" -> parts \o own
          [] e.op = "call" -> [callee EXCEPT ![Len(callee)].call = TRUE]
                              \o Concat(Tail(e.args), Tokens)
          [] OTHER -> parts

OwnText(n) ==
    IF n.what \in {"comment", "statement"} THEN Concat(n.body, Tokens)
    ELSE LET at(name) == <<Token(name, n.line, FALSE)>>
         IN  <<Token(n.name, n.line, n.what \in {"function", "method"})>>
             \o Concat(n.extends \o n.implements \o Concat(n.types, TypeNamesOf), at)
             \o Concat(n.body, Tokens)

Text(tree, i) == Concat(Inside(tree, i), LAMBDA j : OwnText(tree.nodes[j]))

\* The extractors number lines from 1 for TypeScript and Rust and from 0 for
\* the other languages; the lines of a row's text are counted from there.
LineBase(language) == IF language \in {"typescript", "rust"} THEN 0 ELSE -1

SymbolText(tree, i) ==
    Concat(Text(tree, i), LAMBDA t : <<[t EXCEPT !.line = @ + LineBase(tree.language)]>>)

\* parse_type_relations: every name after an extends or implements anywhere in
\* the text, and the first after a "=".
Related(tree, i, how) == Concat(Inside(tree, i), LAMBDA j : tree.nodes[j][how])

\* A symbol of node i whose position and text are those of node at.
Symbol(tree, i, kind, exported, at) ==
    [name |-> tree.nodes[i].name, kind |-> kind, exported |-> exported,
     start |-> tree.nodes[at].start, text |-> SymbolText(tree, at),
     extends |-> Related(tree, at, "extends"),
     implements |-> Related(tree, at, "implements"),
     aliases |-> LET all == Related(tree, at, "aliases")
                 IN  SubSeq(all, 1, IF all = <<>> THEN 0 ELSE 1)]

-----------------------------------------------------------------------------
(* Symbols by language: what is one, of which kind, and whether it counts   *)
(* as exported.                                                             *)

RustKinds == [function |-> "function", struct |-> "struct", enum |-> "enum",
              trait |-> "trait", impl |-> "impl", module |-> "module"]

\* A restricted visibility, pub(crate), does not count.
RustIsPublic(n) == n.mark = "pub"

\* The row of an impl is named for the type and the trait, left out here.
ImplDisplayName(n) == 50 + n.name

RustSymbols(tree, i) ==
    LET n == tree.nodes[i]
        s == Symbol(tree, i, RustKinds[n.what], RustIsPublic(n), i)
    IN  IF n.what \notin DOMAIN RustKinds THEN <<>>
        ELSE IF n.what = "impl" THEN <<[s EXCEPT !.name = ImplDisplayName(n)]>>
        ELSE <<s>>

GoKinds == [function |-> "function", method |-> "function", struct |-> "struct",
            interface |-> "interface", type |-> "type_alias"]
GoIsExported(n) == n.mark = "upper"

PythonKinds == [function |-> "function", class |-> "class"]
PythonIsExported(n) == n.mark # "underscore"

JavaKinds == [class |-> "class", interface |-> "interface", enum |-> "enum",
              method |-> "function"]
JavaIsPublic(n) == n.mark = "public"

\* A struct or enum is found wherever its specifier stands, also where it is
\* only used: a node of its own.
CKinds == [function |-> "function", struct |-> "struct", enum |-> "enum", type |-> "type_alias"]
CppKinds == [class |-> "class", namespace |-> "module", alias |-> "type_alias"] @@ CKinds

JavaScriptKinds == [function |-> "function", class |-> "class", method |-> "function",
                    const |-> "const", let |-> "const", var |-> "const"]
\* The export has to be of the declaration itself.
JavaScriptIsExported(n) == n.mark = "export" /\ n.what # "method"

TypeScriptKinds == [function |-> "function", class |-> "class", method |-> "function",
                    interface |-> "interface", type |-> "type_alias", enum |-> "enum"]

\* The export statement up to four levels above a declaration: its own or that
\* of the function or namespace whose body it stands in; None without one.
ExportAncestor(tree, i) ==
    LET p == tree.nodes[i].parent
    IN  IF tree.nodes[i].mark = "export" THEN i
        ELSE IF p # 0 /\ tree.nodes[p].what \in {"function", "namespace"}
                /\ tree.nodes[p].mark = "export" THEN p
        ELSE None

\* An exported declaration is defined by the export statement, be it the one
\* around the function it stands in.
DefinitionNode(tree, i) == IF ExportAncestor(tree, i) = None THEN i ELSE ExportAncestor(tree, i)

IsDeclarator(n) == n.what \in {"const", "let", "var"}

\* Every variable with a value declared anywhere within a const declaration,
\* each with the position, text and export of that declaration.
ConstDeclarators(tree, i) ==
    LET given == SelectSeq(Inside(tree, i),
                           LAMBDA j : IsDeclarator(tree.nodes[j]) /\ tree.nodes[j].value # "none")
    IN  Concat(given, LAMBDA j : <<Symbol(tree, j, "const", ExportAncestor(tree, i) # None,
                                          DefinitionNode(tree, i))>>)

TypeScriptSymbols(tree, i) ==
    LET n == tree.nodes[i]
    IN  IF n.what = "const" THEN ConstDeclarators(tree, i)
        ELSE IF n.what = "method" THEN <<Symbol(tree, i, "function", FALSE, i)>>
        ELSE IF n.what \in DOMAIN TypeScriptKinds
        THEN <<Symbol(tree, i, TypeScriptKinds[n.what], ExportAncestor(tree, i) # None,
                      DefinitionNode(tree, i))>>
        ELSE <<>>

SymbolsOfNode(tree, i) ==
    LET n == tree.nodes[i]
        by(kinds, exported) == IF n.what \in DOMAIN kinds
                               THEN <<Symbol(tree, i, kinds[n.what], exported, i)>> ELSE <<>>
    IN  CASE tree.language = "rust" -> RustSymbols(tree, i)
          [] tree.language = "typescript" -> TypeScriptSymbols(tree, i)
          [] tree.language = "javascript" -> by(JavaScriptKinds, JavaScriptIsExported(n))
          [] tree.language = "go" -> by(GoKinds, GoIsExported(n))
          [] tree.language = "python" -> by(PythonKinds, PythonIsExported(n))
          [] tree.language = "java" -> by(JavaKinds, JavaIsPublic(n))
          [] tree.language = "c" -> by(CKinds, TRUE)
          [] tree.language = "cpp" -> by(CppKinds, TRUE)

\* symbols.sort_by_key: stable, by start; with \o for TLC to sort once.
ByStart(s) ==
    LET before(i) == {j \in DOMAIN s : s[j].start < s[i].start \/ (s[j].start = s[i].start /\ j < i)}
    IN  [k \in DOMAIN s |-> s[CHOOSE i \in DOMAIN s : Cardinality(before(i)) = k - 1]] \o <<>>

Symbols(tree) ==
    ByStart(FlattenSeq([i \in Nodes(tree) |-> SymbolsOfNode(tree, i)]))

-----------------------------------------------------------------------------
(* Type edges, of TypeScript and Rust alone. *)

\* A type annotation gives the names in it, of a generic type its arguments'
\* too; types of other shapes give nothing, whatever they contain.
RECURSIVE TypesFromAnnotation(_)
TypesFromAnnotation(t) ==
    (IF t.shape \in {"named", "generic"} THEN <<t.name>> ELSE <<>>)
    \o (IF t.shape = "generic" THEN Concat(t.args, TypesFromAnnotation) ELSE <<>>)

\* The value of an alias is taken for an annotation itself, and so is each
\* argument of it: the types directly in one of another shape are found.
RECURSIVE TypesFromValue(_)
TypesFromValue(t) ==
    CASE t.shape = "named" -> <<t.name>>
      [] t.shape = "generic" -> <<t.name>> \o Concat(t.args, TypesFromValue)
      [] OTHER -> Concat(t.args, TypesFromAnnotation)

TypeScriptTypes(n) ==
    CASE n.what \in {"function", "method", "interface"} -> Concat(n.types, TypesFromAnnotation)
      [] n.what = "type" -> Concat(n.types, TypesFromValue)
      [] OTHER -> <<>>

\* Of a const declaration the signature of each arrow function in it.
ConstTypes(tree, i) ==
    LET arrows == SelectSeq(Inside(tree, i),
                            LAMBDA j : /\ IsDeclarator(tree.nodes[j])
                                       /\ tree.nodes[j].value \in {"function", "arrow"})
        of(n) == Concat(Concat(n.types, TypesFromAnnotation), LAMBDA t : << <<n.name, t>> >>)
    IN  Concat(arrows, LAMBDA j : of(tree.nodes[j]))

RECURSIVE RustTypeRef(_)
RustTypeRef(t) ==
    (IF t.shape \in {"named", "generic"} THEN <<t.name>> ELSE <<>>)
    \o (IF t.shape \in {"generic", "wrapper"} THEN Concat(t.args, RustTypeRef) ELSE <<>>)

\* The fields of a tuple struct are not looked at.
RustTypes(n) ==
    IF n.what = "function" \/ (n.what = "struct" /\ n.value # "tuple")
    THEN Concat(n.types, RustTypeRef) ELSE <<>>

TypeEdges(tree) ==
    LET named(i, types) == {<<tree.nodes[i].name, types[k]>> : k \in DOMAIN types}
        of(i) ==
            CASE tree.language = "rust" -> named(i, RustTypes(tree.nodes[i]))
              [] tree.language = "typescript" ->
                     IF tree.nodes[i].what = "const" THEN ToSet(ConstTypes(tree, i))
                     ELSE named(i, TypeScriptTypes(tree.nodes[i]))
              [] OTHER -> {}
    IN  UNION {of(i) : i \in Nodes(tree)}

-----------------------------------------------------------------------------
(* Imports: the name that is looked up in the file, the name it has where   *)
(* it comes from, and the files tried.                                      *)

AnyName == -2       \* the name "*"
Imported(local, imp, name) == [local |-> local, name |-> name, paths |-> imp.paths]
LocalName(imp) == IF imp.alias = None THEN imp.name ELSE imp.alias

\* Of an export from another file, under the name it has there.
TypeScriptImport(imp) == Imported(imp.name, imp, imp.name)

JavaScriptImport(imp) ==
    IF imp.form = "namespace" THEN Imported(imp.name, imp, AnyName)
    ELSE Imported(LocalName(imp), imp, imp.name)

\* The last part of the path, unless it is renamed.
GoImport(imp) == Imported(LocalName(imp), imp, LocalName(imp))
PythonImport(imp) == Imported(LocalName(imp), imp, imp.name)
JavaImport(imp) == Imported(imp.name, imp, imp.name)

\* The extractor of TypeScript asks an import clause for fields where the
\* grammar has children, and finds the names of an export from another file
\* alone; that of JavaScript finds all but those.
IsFound(language, imp) ==
    CASE language = "typescript" -> imp.form = "export"
      [] language = "javascript" -> imp.form # "export"
      [] OTHER -> TRUE

\* Each at its place in the file.  Includes of C and C++ bind names of files,
\* which are no identifiers.
Imports(tree) ==
    LET found == {i \in DOMAIN tree.imports : IsFound(tree.language, tree.imports[i])}
        placed(Op(_)) == {Op(tree.imports[i]) @@ [at |-> i] : i \in found}
    IN  CASE tree.language = "typescript" -> placed(TypeScriptImport)
          [] tree.language = "javascript" -> placed(JavaScriptImport)
          [] tree.language = "go" -> placed(GoImport)
          [] tree.language = "python" -> placed(PythonImport)
          [] tree.language = "java" -> placed(JavaImport)
          [] OTHER -> {}

-----------------------------------------------------------------------------
(* Data flow of TypeScript: which identifiers a function reads and writes.  *)

Flow(name, flow, line, context) == [from |-> name, flow |-> flow, line |-> line, context |-> context]

\* The method of a member call, the function of any other; <<>> without a name.
CalleeName(e) == IF e.op \in {"ident", "member"} THEN <<e.name>> ELSE <<>>

\* The identifiers read by an expression: not those of functions in it, and of
\* an object the values alone.
RECURSIVE Identifiers(_)
Identifiers(e) ==
    CASE e.op \in {"ident", "new"} -> <<e.name>> \o Concat(e.args, Identifiers)
      [] e.op = "call" -> CalleeName(e.args[1]) \o Concat(Tail(e.args), Identifiers)
      [] e.op = "function" -> <<>>
      [] OTHER -> Concat(e.args, Identifiers)

Reads(e, line, context) ==
    Concat(Identifiers(e), LAMBDA name : <<Flow(name, "reads", line, context)>>)

\* The identifier written by an assignment: the object of a member, the first
\* of a pattern.
RECURSIVE AssignmentLeft(_)
AssignmentLeft(e) ==
    CASE e.op = "ident" -> <<e.name>>
      [] e.op = "member" -> AssignmentLeft(e.args[1])
      [] e.op = "pattern" ->
             LET ids == SelectSeq(e.args, LAMBDA a : a.op = "ident")
             IN  IF ids = <<>> THEN <<>> ELSE <<ids[1].name>>
      [] OTHER -> <<>>

DataflowFromAssignment(e, context) ==
    Concat(AssignmentLeft(e.args[1]), LAMBDA name : <<Flow(name, "writes", e.line, context)>>)
    \o Reads(e.args[2], e.line, context)

DataflowFromCall(e, context) ==
    Concat(CalleeName(e.args[1]), LAMBDA name : <<Flow(name, "reads", e.line, context)>>)
    \o Concat(Tail(e.args), LAMBDA a : Reads(a, e.line, context))

\* The bodies of if, for, while and do are looked for under names that no child
\* of theirs has, so nothing is found in them ("control").
RECURSIVE DataflowFromNode(_, _)
DataflowFromNode(e, context) ==
    CASE e.op = "assign" -> DataflowFromAssignment(e, context)
      [] e.op = "call" -> DataflowFromCall(e, context)
      [] e.op = "control" -> <<>>
      [] OTHER -> Concat(e.args, LAMBDA a : DataflowFromNode(a, context))

\* A body with everything declared in it, which is searched like any statement.
DataflowFromBody(tree, i) ==
    Concat(Inside(tree, i), LAMBDA j :
        Concat(tree.nodes[j].body, LAMBDA e : DataflowFromNode(e, tree.nodes[i].name)))

DataflowFromDeclarator(tree, i) ==
    LET n == tree.nodes[i]
        read == Concat(n.body, LAMBDA e : Reads(e, e.line, n.name))
    IN  CASE n.value = "function" -> DataflowFromBody(tree, i)
          [] n.value = "arrow" -> read
          [] n.value = "plain" -> Append(read, Flow(n.name, "writes", n.line, None))
          [] OTHER -> <<>>

Dataflow(tree) ==
    LET of(i) == CASE tree.nodes[i].what \in {"function", "method"} -> DataflowFromBody(tree, i)
                   [] tree.nodes[i].what \in {"const", "let"} -> DataflowFromDeclarator(tree, i)
                   [] OTHER -> <<>>
    IN  IF tree.language # "typescript" THEN <<>>
        ELSE FlattenSeq([i \in Nodes(tree) |-> of(i)])

-----------------------------------------------------------------------------
(* TODO comments, of TypeScript alone.  One is associated with the next      *)
(* declaration that has a name of its own: variables are passed over,        *)
(* anything else -- an export statement, a comment -- ends the search.       *)

NextSymbol(tree, i) ==
    LET next == SelectSeq([j \in Nodes(tree) |-> j],
                          LAMBDA j : /\ j > i /\ tree.nodes[j].parent = tree.nodes[i].parent
                                     /\ ~(tree.nodes[j].what \in {"const", "let"}
                                          /\ tree.nodes[j].mark # "export"))
        n == tree.nodes[next[1]]
    IN  IF next # <<>> /\ n.what \in DOMAIN TypeScriptKinds /\ n.mark # "export"
        THEN n.name ELSE None

TodoComments(tree) ==
    LET of(i) == Concat(tree.nodes[i].marks, LAMBDA kind :
                     <<[kind |-> kind, line |-> tree.nodes[i].line, symbol |-> NextSymbol(tree, i)]>>)
    IN  IF tree.language # "typescript" THEN <<>>
        ELSE FlattenSeq([i \in Nodes(tree) |-> of(i)])

-----------------------------------------------------------------------------
(* Calls of a web framework, of TypeScript and JavaScript: any method call   *)
(* whose method has one of the framework's names.                            *)

\* The variable or class at the start of a chain of calls and members.
RECURSIVE FindChainRoot(_)
FindChainRoot(member) ==
    LET object == member.args[1]
    IN  CASE object.op \in {"ident", "new"} -> object.name
          [] object.op = "call" /\ object.args[1].op = "member" -> FindChainRoot(object.args[1])
          [] object.op = "member" -> FindChainRoot(object)
          [] OTHER -> None

TextOf(e) == LET t == Tokens(e) IN IF t = <<>> THEN None ELSE t[Len(t)].name

\* The path, name or plugin given first; not what an object or function holds.
PatternLabel(kind, args) ==
    LET first == args[1]
    IN  IF args = <<>> THEN None
        ELSE CASE kind \in {"route", "websocket", "group", "state", "decorate"} ->
                      IF first.op = "string" THEN first.name ELSE None
               [] kind = "plugin" -> CASE first.op = "ident" -> first.name
                                       [] first.op = "call" -> TextOf(first.args[1])
                                       [] OTHER -> None
               [] kind = "listen" -> TextOf(first)
               [] OTHER -> None

Anonymous == -3    \* the handler "<anonymous>"

PatternHandler(kind, args) ==
    IF kind \notin {"route", "websocket", "group"} \/ Len(args) < 2 THEN None
    ELSE CASE args[2].op = "ident" -> args[2].name
           [] args[2].op = "function" -> Anonymous
           [] args[2].op = "call" -> TextOf(args[2].args[1])
           [] OTHER -> None

\* The pattern a call is, and those in what it is made of, inner calls of a
\* chain before outer ones as they stand in the text.
RECURSIVE PatternsIn(_)
PatternsIn(e) ==
    LET f == e.args[1]
        args == Tail(e.args)
        inner == Concat(e.args, PatternsIn)
    IN  IF e.op = "call" /\ f.op = "member" /\ f.name \in DOMAIN ElysiaMethods
        THEN PatternsIn(f)
             \o <<[kind |-> ElysiaMethods[f.name], method |-> f.name, line |-> f.line,
                   label |-> PatternLabel(ElysiaMethods[f.name], args),
                   handler |-> PatternHandler(ElysiaMethods[f.name], args),
                   chain |-> FindChainRoot(f)]>>
             \o Concat(args, PatternsIn)
        ELSE inner

FrameworkPatterns(tree) ==
    IF tree.language \notin {"typescript", "javascript"} THEN <<>>
    ELSE FlattenSeq([i \in Nodes(tree) |-> Concat(tree.nodes[i].body, PatternsIn)])

-----------------------------------------------------------------------------

ExtractedFile(tree) ==
    [symbols |-> Symbols(tree), imports |-> Imports(tree), typeEdges |-> TypeEdges(tree),
     dataflow |-> Dataflow(tree), todos |-> TodoComments(tree),
     patterns |-> FrameworkPatterns(tree), text |-> Text(tree, 0)]
=============================================================================
