----------------------------- MODULE GraphOfTrees -----------------------------
(***************************************************************************)
(* The code graph of given syntax trees: CodeGraph with the contents that  *)
(* Extraction finds in them, and what can be said of the tables by looking *)
(* at the trees.                                                           *)
(***************************************************************************)
EXTENDS CodeGraph

CONSTANTS
    Trees,         \* the syntax trees a file goes through: a sequence for each file
    ElysiaMethods  \* the kind of pattern of each method name that makes one

INSTANCE Extraction

\* What the extractors find in each tree, the value of Contents; written with @@
\* for TLC to compute each of them once.
Extracted ==
    LET contents(f) == [v \in DOMAIN Trees[f] |-> ExtractedFile(Trees[f][v])] @@ <<>>
    IN  [f \in DOMAIN Trees |-> contents(f)] @@ <<>>
ASSUME ExtractedAssumption == Contents = Extracted

\* Whether the text includes the tokens of another, by name.
Includes(text, part) ==
    \E at \in 0..(Len(text) - Len(part)) : \A k \in DOMAIN part : text[at + k].name = part[k].name

\* The declarations of a file that its language makes symbols of by themselves.
Declared(tree) ==
    LET kinds == CASE tree.language = "rust" -> DOMAIN RustKinds \ {"impl"}
                   [] tree.language = "javascript" -> DOMAIN JavaScriptKinds
                   [] tree.language = "typescript" -> DOMAIN TypeScriptKinds
                   [] OTHER -> {}
    IN  {i \in DOMAIN tree.nodes : tree.nodes[i].what \in kinds}

(* Every function, class and other declaration of a file that is not due   *)
(* to be indexed has a row of its name with its own text, whatever else in *)
(* the file, in other files or in earlier contents has that name; only an  *)
(* exported namesake, which hashes to the same id, can have taken its row. *)
OnlyNamesakesAreLost ==
    \A f \in {g \in Files : Settled(g)} :
        LET tree == Trees[f][disk[f]]
        IN  \A i \in Declared(tree) :
                LET namesakes == {r \in Stored(f) : r.name = tree.nodes[i].name}
                    exported == {r \in namesakes : r.exported}
                IN  \/ \E r \in namesakes : Includes(r.text, Text(tree, i))
                    \/ \E r \in exported : \E j \in Declared(tree) \ {i} :
                           tree.nodes[j].name = r.name /\ Includes(r.text, Text(tree, j))

==============================================================================
