-------------------------------- MODULE MCSearch --------------------------------
(***************************************************************************)
(* Six symbols of three files for Search: two functions and a test around  *)
(* auth, three of them alike, and a type with its user in a second         *)
(* language.  The queries are one for each way search goes: a name, the    *)
(* same for exported symbols, two sub-queries, callers, an id, filters,    *)
(* controls without a text, a text whose trimmed copy splits a character.  *)
(***************************************************************************)
EXTENDS Search

Symbol(name, kind, file, exported, lang) ==
    [name |-> name, kind |-> kind, file |-> file, exported |-> exported, lang |-> lang]

MCSym == <<
    Symbol(<<"auth">>, "function", "auth", TRUE, "rust"),
    Symbol(<<"check">>, "function", "auth", FALSE, "rust"),
    Symbol(<<"check", "auth">>, "function", "test", FALSE, "rust"),
    Symbol(<<"db">>, "interface", "db", TRUE, "typescript"),
    Symbol(<<"login">>, "function", "auth", TRUE, "rust"),
    Symbol(<<"open", "db">>, "function", "db", FALSE, "typescript") >>

FileOf(test, about, parts, source) ==
    [test |-> test, index |-> FALSE, build |-> FALSE, source |-> source, about |-> about, parts |-> parts]
MCFile == [f \in {"auth", "test", "db"} |->
    CASE f = "auth" -> FileOf(FALSE, {}, {"auth"}, TRUE)
      [] f = "test" -> FileOf(TRUE, {}, {"tests", "auth"}, FALSE)
      [] f = "db" -> FileOf(FALSE, {"db"}, {"db"}, TRUE)]
MCPaths == [f \in {"auth", "test", "db"} |->
    CASE f = "auth" -> <<"src", "auth">> [] f = "test" -> <<"tests", "auth">> [] f = "db" -> <<"src", "db">>]
MCUpdatedAt == [f \in {"auth", "test", "db"} |-> IF f = "db" THEN 2 ELSE 1]

MCWeights == [rrf_keyword |-> 10000, rrf_vector |-> 10000, rrf_graph |-> 5000,
              rank_vector |-> 7000, rank_keyword |-> 3000,
              exported |-> 1000, popularity |-> 500, selection |-> 1000, affinity |-> 500]

Link(from, to, type, evidence, resolution) ==
    [from |-> from, to |-> to, type |-> type, evidence |-> evidence, resolution |-> resolution]
MCEdges == {Link(1, 2, "call", 1, "local"), Link(5, 1, "call", 2, "import"), Link(3, 1, "call", 1, "import"),
            Link(6, 1, "reference", 1, "heuristic"), Link(2, 4, "reference", 1, "import"),
            Link(6, 4, "type", 1, "local"), Link(5, 3, "call", 4, "local")}
MCCluster == <<"c", None, "c", None, "c", None>>
MCMetrics == <<400, 100, 100, 300, 200, 100>>
\* A row of packages is the path of a manifest, which no source file is below.
MCPackages == <<[id |-> "p1", manifest |-> <<"src", "Cargo.toml">>]>>

Line(tokens, words) == [tokens |-> tokens, words |-> words]
MCTextOf == <<
    <<Line(3, {"auth"}), Line(2, {"check"}), Line(2, {"db"}), Line(1, {})>>,
    <<Line(4, {"check"}), Line(5, {"db"}), Line(1, {})>>,
    <<Line(3, {"auth"}), Line(4, {"check", "auth"}), Line(1, {})>>,
    <<Line(2, {"db"}), Line(2, {}), Line(2, {}), Line(1, {})>>,
    <<Line(5, {"login"}), Line(3, {"auth"}), Line(3, {}), Line(1, {})>>,
    <<Line(2, {"db"}), Line(1, {})>> >>
MCDocTokens == <<2, 0, 0, 1, 0, 0>>
MCUsagesOf == <<<<<<Line(2, {"auth"})>>, <<Line(2, {"login"})>>>>, <<>>, <<>>, <<<<Line(2, {"auth"})>>>>, <<>>, <<>>>>

Entry0 == [parts |-> <<>>, has |-> {}, code |-> FALSE,
           also |-> [synonyms |-> <<>>, acronyms |-> <<>>], bytes |-> 5, width |-> 1]
Word(w) == [Entry0 EXCEPT !.parts = <<w>>]
MCWords == {"auth", "db", "and", "who", "calls", "login", "s1", "s2", "tsx",
            "function", "src", "p1", "umlaut", "schema", "check"}
MCLexicon == [w \in MCWords |->
    CASE w = "auth" -> [Word(w) EXCEPT !.also.synonyms = <<"login">>]
      [] w = "db" -> [Word(w) EXCEPT !.also.acronyms = <<"schema">>]
      [] w = "schema" -> [Word(w) EXCEPT !.has = {"Schema"}]
      [] w = "umlaut" -> [Word(w) EXCEPT !.bytes = 26, !.width = 2]
      [] OTHER -> Word(w)]
MCMatches == [w \in {"auth", "login", "db", "check"} |->
    CASE w = "auth" -> <<1, 3, 5>> [] w = "login" -> <<5>> [] w = "db" -> <<4, 6, 2>> [] w = "check" -> <<2, 3, 1>>]
MCIdOf == [w \in {"s1", "s2"} |-> IF w = "s1" THEN 1 ELSE 2]

T(w) == [key |-> "", word |-> w]
C(c, w) == [key |-> c, word |-> w]
Ask1(query, limit, exported) == [query |-> query, limit |-> limit, exported |-> exported]
MCRequests == {
    Ask1(<<T("auth")>>, 4, FALSE), Ask1(<<T("auth")>>, 3, TRUE),
    Ask1(<<T("auth"), T("and"), T("db")>>, 2, FALSE),
    Ask1(<<T("who"), T("calls"), T("auth")>>, 2, TRUE),
    Ask1(<<C("id", "s2")>>, 1, FALSE), Ask1(<<C("id", "s2"), T("auth")>>, 1, TRUE),
    Ask1(<<T("db"), C("language", "tsx")>>, 2, FALSE),
    Ask1(<<T("schema"), T("db"), C("kind", "function"), C("path", "src"), C("pkg", "p1")>>, 3, FALSE),
    Ask1(<<C("kind", "function")>>, 3, FALSE),
    Ask1(<<T("umlaut")>>, 1, FALSE), Ask1(<<T("check"), T("umlaut")>>, 1, FALSE) }

\* diversify_by_file does not keep a file from taking every place: of four hits
\* three are chosen, all of the file auth, and the one of db is left out.
ASSUME FileAssumption ==
    LET hits == <<Hit(5, 9, "rust"), Hit(1, 8, "rust"), Hit(2, 7, "rust"), Hit(4, 6, "typescript")>>
    IN  /\ IdsOf(Diversify(hits, 3, MCCluster)) = {5, 1, 2}
        /\ \A id \in {5, 1, 2} : MCSym[id].file = "auth"

MCVectorOrders == {<<1, 5, 3, 2, 6, 4>>, <<4, 6, 3, 5, 1, 2>>}
MCRerankScores == {<<1000, 9000, 8000, 100, 200, 7000>>}
=============================================================================
