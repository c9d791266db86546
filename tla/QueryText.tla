------------------------------- MODULE QueryText -------------------------------
(***************************************************************************)
(* The text of a query as src/src/retrieval/query.rs and src/src/text.rs   *)
(* treat it.  A query is a sequence of tokens, records [key, word]: a word *)
(* has the key "", a control such as lang:ts the key "lang" and its value  *)
(* as the word.  Of a word Lexicon says what the code looks at:            *)
(*   parts  the words normalize_query_text splits it into (none for a word *)
(*          made of separators only), a word of one part being that part   *)
(*   has    the keywords of Keywords it contains                           *)
(*   code   whether contains_code_snippet finds a mark of code in it       *)
(*   also   what the tables of synonyms and acronyms add for it            *)
(*   bytes  its length in bytes with the space before it, width the bytes of *)
(*          each of its characters                                           *)
(***************************************************************************)
EXTENDS Orders

CONSTANTS
    Lexicon,        \* word -> the record described above
    None            \* no value: Option::None

\* A word is not empty, and leads to words.
ASSUME LexiconAssumption ==
    /\ "" \notin DOMAIN Lexicon
    /\ \A w \in DOMAIN Lexicon :
          /\ Lexicon[w].parts \in Seq(DOMAIN Lexicon)
          /\ \A t \in {"synonyms", "acronyms"} : Lexicon[w].also[t] \in Seq(DOMAIN Lexicon)

Controls == {"id", "file", "path", "lang", "kind", "package"}

Words(tokens) == [i \in DOMAIN tokens |-> tokens[i].word]

\* "language" and "pkg" are other names of a control.
ControlOf(key) ==
    CASE key = "language" -> "lang" [] key = "pkg" -> "package" [] OTHER -> key

NormalizeLang(word) ==
    CASE word \in {"ts", "tsx"} -> "typescript" [] word \in {"js", "jsx"} -> "javascript" [] OTHER -> word

\* The controls are taken out of the query, the last of a name wins; a token
\* whose key is no control stays in the text, as the word it is.
ParseQueryControls(q) ==
    [text |-> Words(Select(q, LAMBDA t : ControlOf(t.key) \notin Controls)),
     controls |-> [c \in Controls |->
        LET named == Select(q, LAMBDA t : ControlOf(t.key) = c)
        IN  IF named = <<>> THEN None
            ELSE IF c = "lang" THEN NormalizeLang(Last(named).word) ELSE Last(named).word]]

-----------------------------------------------------------------------------
(* Intent.  The classes are tried in this order and the first whose keyword *)
(* occurs anywhere in the text is the intent.                               *)

IntentOrder == <<"Test", "Migration", "Schema", "Implementation", "Config", "Error",
                 "Api", "Hook", "Middleware", "Definition">>

\* Two words that are a keyword together.
PhraseIntent(v, w) ==
    CASE v = "schema" /\ w = "change" -> "Migration"
      [] v = "how" /\ w \in {"is", "does"} -> "Implementation"
      [] OTHER -> None

Mentions(text) ==
    UNION {Lexicon[text[i]].has : i \in DOMAIN text}
        \cup {PhraseIntent(text[i], text[i + 1]) : i \in 1..(Len(text) - 1)}

CallersOpenings == {<<"who", "calls">>, <<"callers", "of">>, <<"references", "to">>, <<"usages", "of">>}

\* The words a callers question is about; the whole query was lower-cased, so
\* a word with a capital is looked up under a name no symbol has.
CallersSubject(text) ==
    IF Len(text) > 2 /\ SubSeq(text, 1, 2) \in CallersOpenings THEN SubSeq(text, 3, Len(text))
    ELSE IF Len(text) > 3 /\ SubSeq(text, 1, 2) = <<"where", "is">> /\ Last(text) = "used"
         THEN SubSeq(text, 3, Len(text) - 1)
    ELSE <<>>

DetectIntent(text) ==
    LET hits == Select(IntentOrder, LAMBDA c : c \in Mentions(text))
    IN  IF hits # <<>> THEN [class |-> hits[1], name |-> <<>>]
        ELSE IF CallersSubject(text) # <<>> THEN [class |-> "Callers", name |-> CallersSubject(text)]
        ELSE [class |-> None, name |-> <<>>]

-----------------------------------------------------------------------------
(* Normalisation, expansion and the sub-queries.                            *)

NormalizeQueryText(text) == FlattenSeq([i \in DOMAIN text |-> Lexicon[text[i]].parts])

\* What the tables add is appended to the query, unless it is there already.
ExpandWith(text, table) ==
    LET extra == FlattenSeq([i \in DOMAIN text |-> Lexicon[text[i]].also[table]])
    IN  text \o Select(extra, LAMBDA w : w \notin ToSet(text))

NormalizeAndExpand(text, synonyms, acronyms) ==
    LET normal == NormalizeQueryText(text)
        wide == IF synonyms THEN ExpandWith(normal, "synonyms") ELSE normal
    IN  IF acronyms THEN ExpandWith(wide, "acronyms") ELSE wide

\* A separator splits when there is text on its left and on its right.
SplitAt(text, separator) ==
    LET cuts == {i \in 2..(Len(text) - 1) : text[i] = separator}
        Part(i) == LET later == {c \in cuts : c > i}
                       end == IF later = {} THEN Len(text)
                              ELSE (CHOOSE c \in later : \A d \in later : c <= d) - 1
                   IN  SubSeq(text, i + 1, end)
        starts == Sorted({0} \cup cuts, LAMBDA a, b : a < b)
    IN  Select([k \in DOMAIN starts |-> Part(starts[k])], LAMBDA p : p # <<>>)

\* No sub-query for an empty text.  "and" goes before "&"; the nesting the code
\* allows (three levels) is more than the two separators can make.
DecomposeQuery(text) ==
    IF text = <<>> THEN <<>>
    ELSE LET parts == SplitAt(text, "and")
         IN  FlattenSeq([i \in DOMAIN parts |-> SplitAt(parts[i], "&")])

ContainsCodeSnippet(text) == \E i \in DOMAIN text : Lexicon[text[i]].code

\* The pool asked of the stores: small for code, larger for natural language.
PoolSize(text, limit, vectorLimit) ==
    LET larger(a, b) == IF a > b THEN a ELSE b
    IN  IF ContainsCodeSnippet(text) THEN larger(vectorLimit, larger(limit, 5))
        ELSE larger(vectorLimit, larger(3 * limit, 40))

\* String::truncate panics when the byte count lies within a character.
BytesOf(q) ==
    FlattenSeq([i \in DOMAIN q |->
        [b \in 1..Lexicon[q[i].word].bytes |-> b % Lexicon[q[i].word].width = 0]])

TrimPanics(q, max) == LET b == BytesOf(q) IN Len(b) > max /\ ~b[max]
=============================================================================
