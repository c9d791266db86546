------------------------------ MODULE MCCodeGraph ------------------------------
(***************************************************************************)
(* Three small files for GraphOfTrees.  File 1 (JavaScript) calls across   *)
(* files and within itself and imports from a package that is not in the   *)
(* workspace, file 2 (TypeScript) has a class hierarchy, a method named    *)
(* like a function and calls of a web framework, file 3 (Rust) has two     *)
(* public and two private functions of one name.                           *)
(***************************************************************************)
EXTENDS GraphOfTrees

foo == 1
bar == 2
Base == 3
helper == 4
alias == 5
Derived == 6
open == 7
Conn == 8
Pool == 9
get == 10
app == 12
users == 13

Expression(op, name, args, line) == [op |-> op, name |-> name, args |-> args, line |-> line]
Id(n, line) == Expression("ident", n, <<>>, line)
CallOf(f, args, line) == Expression("call", None, <<f>> \o args, line)
Call(n, line) == CallOf(Id(n, line), <<>>, line)
Member(e, n, line) == Expression("member", n, <<e>>, line)
Assign(e, d, line) == Expression("assign", None, <<e, d>>, line)
Named(n) == [shape |-> "named", name |-> n, args |-> <<>>]
Of(shape, n, args) == [shape |-> shape, name |-> n, args |-> args]

Node(what, n, start, line, body) ==
    [what |-> what, name |-> n, parent |-> 0, start |-> start, line |-> line, mark |-> "",
     types |-> <<>>, value |-> "none", body |-> body, extends |-> <<>>, implements |-> <<>>,
     aliases |-> <<>>, marks |-> <<>>]
Marked(n, mark) == [n EXCEPT !.mark = mark]
In(parent, n) == [n EXCEPT !.parent = parent]
Comment(start, line, marks) == [Node("comment", None, start, line, <<>>) EXCEPT !.marks = marks]
Import(name, as, paths) == [form |-> "named", name |-> name, alias |-> as, paths |-> paths]
Tree(language, nodes, imports) == [language |-> language, nodes |-> nodes, imports |-> imports]

JavaScript1 ==
    Tree("javascript",
         << Marked(Node("function", foo, 10, 1, <<Call(bar, 2), Call(helper, 2), Call(bar, 2)>>), "export"),
            Node("function", helper, 20, 5, <<Id(Base, 5), Call(foo, 6), Call(open, 6)>>) >>,
         << Import(bar, None, <<2>>), Import(Base, None, <<2>>), Import(open, None, <<>>) >>)
JavaScript2 ==
    Tree("javascript",
         << Marked(Node("function", foo, 10, 1, <<Call(helper, 2)>>), "export"),
            Node("function", helper, 30, 5, <<Call(alias, 6)>>) >>,
         << Import(bar, alias, <<2, 1>>) >>)

TypeScript1 ==
    Tree("typescript",
         << Marked([Node("function", bar, 10, 1,
                         <<Assign(Id(Derived, 1), Call(helper, 1), 1)>>)
                    EXCEPT !.types = <<Of("generic", Base, <<Named(Derived)>>)>>], "export"),
            Comment(14, 2, <<"todo", "fixme">>), Comment(14, 3, <<"todo">>),
            Node("function", helper, 15, 3, <<Id(Base, 3)>>),
            Marked(Node("class", Base, 20, 4, <<>>), "export"),
            [Node("class", Derived, 30, 7, <<>>) EXCEPT !.extends = <<Base>>],
            Node("statement", None, 40, 9,
                 <<CallOf(Member(Id(app, 9), get, 9),
                          <<Expression("string", users, <<>>, 9), Id(helper, 9)>>, 9)>>),
            Node("statement", None, 50, 10,
                 <<CallOf(Member(Id(app, 10), get, 10), <<Expression("string", app, <<>>, 10)>>, 10)>>) >>,
         <<>>)
TypeScript2 ==
    Tree("typescript",
         << Marked(Node("class", Base, 20, 4, <<>>), "export"),
            In(1, Comment(22, 4, <<"todo">>)),
            In(1, Node("method", bar, 24, 5, <<Call(bar, 5)>>)),
            Marked(Node("function", bar, 40, 9, <<>>), "export"),
            In(4, [Node("const", helper, 44, 9, <<Call(bar, 9)>>) EXCEPT !.value = "arrow"]) >>,
         <<>>)

Rust1 ==
    Tree("rust",
         << Node("impl", Conn, 10, 2, <<>>),
            In(1, Marked([Node("function", open, 12, 3, <<Call(foo, 3)>>)
                          EXCEPT !.types = <<Of("wrapper", None, <<Named(Conn)>>)>>], "pub")),
            In(1, Node("function", helper, 14, 4, <<Call(bar, 4)>>)),
            Node("impl", Pool, 20, 5, <<>>),
            In(4, Marked(Node("function", open, 22, 6, <<Call(helper, 6)>>), "pub")),
            In(4, Node("function", helper, 24, 7, <<>>)) >>,
         <<>>)

MCTrees == << <<JavaScript1, JavaScript2>>, <<TypeScript1, TypeScript2>>, <<Rust1>> >>

MCPackageOf == <<"app", "lib", "app">>
MCDamping == <<17, 20>>
MCElysiaMethods == get :> "route"

\* The TODO comments of a TypeScript file are one for each line of a comment that
\* has one, and other files have none.
ASSUME TodosAssumption ==
    \A f \in DOMAIN Trees : \A v \in DOMAIN Trees[f] :
        LET tree == Trees[f][v]
            todosOf(n) == IF n.what = "comment" /\ tree.language = "typescript"
                          THEN {[line |-> n.line, kind |-> n.marks[k]] : k \in DOMAIN n.marks} ELSE {}
            found == Extracted[f][v].todos
        IN  {[line |-> found[i].line, kind |-> found[i].kind] : i \in DOMAIN found}
            = UNION {todosOf(tree.nodes[i]) : i \in DOMAIN tree.nodes}

\* One declaration of every syntactic class, each with the mark given.
Classes == <<"namespace", "class", "method", "function", "struct", "enum", "trait", "impl", "module",
             "interface", "type", "alias", "const", "let", "var", "comment", "statement">>
Mixed(language, mark) ==
    Tree(language, [i \in DOMAIN Classes |-> Marked(Node(Classes[i], i, 3 * i, i, <<>>), mark)],
         << Import(foo, bar, <<1>>), [Import(foo, None, <<>>) EXCEPT !.form = "default"],
            [Import(bar, None, <<1>>) EXCEPT !.form = "namespace"],
            [Import(open, alias, <<1>>) EXCEPT !.form = "export"] >>)
Marks == [rust |-> "pub", go |-> "upper", python |-> "", java |-> "public", c |-> "", cpp |-> "",
          javascript |-> "export", typescript |-> "export"]

\* In every language the symbols come in the order of the file, the text of
\* each has its name (but for an impl, which is named for its type), what bears
\* the language's mark is exported unless it is a method of a script, and an
\* import is looked up by the name it is given.  In TypeScript only a name that
\* is exported from another file is.
ASSUME ExtractionAssumption ==
    \A language \in DOMAIN Marks :
        LET c == ExtractedFile(Mixed(language, Marks[language]))
            s == c.symbols
            script == language \in {"javascript", "typescript"}
        IN  /\ s # <<>>
            /\ \A i \in DOMAIN s : i > 1 => s[i - 1].start <= s[i].start
            /\ \A i \in DOMAIN s : s[i].kind = "impl" \/ s[i].text[1].name = s[i].name
            /\ \A i \in DOMAIN s :
                   s[i].exported = (s[i].kind # "impl" /\ ~(script /\ Classes[s[i].name] = "method"))
                   \/ language = "rust"
            /\ language \in {"go", "python", "javascript"} => \E imp \in c.imports : imp.local = bar
            /\ language = "typescript" => {imp.local : imp \in c.imports} = {open}

\* Of two imports of one name the last is looked up.
ASSUME ImportMapAssumption ==
    LET c == ExtractedFile(Tree("python", <<>>, << Import(foo, bar, <<1>>), Import(foo, bar, <<2>>) >>))
    IN  {imp.paths : imp \in ImportOf(c, bar)} = {<<2>>}

\* The fields of a struct have its edges to types, those of a tuple struct not.
ASSUME StructAssumption ==
    LET of(value) == [Node("struct", Conn, 1, 1, <<>>) EXCEPT !.types = <<Named(Pool)>>, !.value = value]
        found(value) == ExtractedFile(Tree("rust", <<of(value)>>, <<>>)).typeEdges
    IN  found("none") = {<<Conn, Pool>>} /\ found("tuple") = {}
=============================================================================
