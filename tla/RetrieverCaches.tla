-------------------------- MODULE RetrieverCaches --------------------------
(***************************************************************************)
(* Searches, their caches and the index runs they have to notice.  A       *)
(* search reads two stamps from SQLite, takes the lock of the caches,      *)
(* empties them when the stamps are not those they were filled under, and  *)
(* looks its query up; on a miss it queries the index without the lock,    *)
(* assembles the context through a second cache, and takes the lock again  *)
(* to insert its response.  The stamps have a resolution of a second.      *)
(*                                                                         *)
(* The index is the content it holds of each file.  The ids of a file's    *)
(* symbols stay the same when its content changes (they are made of path,  *)
(* name and position).  The cache of query embeddings, emptied with the    *)
(* two others, does not depend on the index and is left out.               *)
(***************************************************************************)
EXTENDS LruCaches

CONSTANTS
    Files,
    Queries,
    Searchers,     \* concurrent calls of search
    Capacity,      \* entries of the response and of the context cache
    MaxWrites,     \* bound: contents written to the index
    MaxClock,      \* bound: seconds
    RunsPerSecond, \* "one" or "many" index runs may start in a second
    MaxFaults      \* bound: index runs that fail

ASSUME RetrieverBoundsAssumption ==
    {Capacity, MaxWrites, MaxFaults} \subseteq Nat /\ MaxClock \in Nat \ {0}
ASSUME RunsPerSecondAssumption == RunsPerSecond \in {"one", "many"}

VARIABLES
    clock,      \* seconds
    index,      \* content of each file in the index, with its updated_at
    writes,     \* contents written so far
    indexRun,   \* the index run that is under way
    runStarted, \* started_at of the row latest_index_run returns
    faults,
    search,     \* the local state of each searcher
    stamps,     \* the stamps the caches were filled under
    responses,  \* LruCache of responses
    contexts    \* LruCache of contexts

indexVars == <<clock, index, writes, indexRun, runStarted, faults>>
cacheVars == <<stamps, responses, contexts>>
vars == <<indexVars, search, cacheVars>>

None == 0
Time == 1 .. MaxClock
Content == 1 .. MaxWrites
Missing == [content |-> None, updated |-> None]

(* What the index answers: the content of every file it holds.             *)
Contents == [f \in Files |-> index[f].content]
Found(hits) == {f \in Files : hits[f] # None}

Snapshot == [Files -> Content \cup {None}]

(* most_recent_symbol_update: NULL when there is no symbol.                *)
LastUpdate == Max({index[f].updated : f \in Files} \cup {None})

IndexStamps == <<LastUpdate, runStarted>>

SearchPC == {"idle", "readUpdate", "readRun", "lookup", "query", "context", "assemble",
             "insertContext", "insertResponse"}

SearchState == [pc : SearchPC, query : Queries \cup {None},
                seen : (Time \cup {None}) \X (Time \cup {None}),
                hits : Snapshot, context : Snapshot]

Nothing == [f \in Files |-> None]
Idle == [pc |-> "idle", query |-> None, seen |-> <<None, None>>,
         hits |-> Nothing, context |-> Nothing]

TypeOK ==
    /\ clock \in Time
    /\ index \in [Files -> [content : Content \cup {None}, updated : Time \cup {None}]]
    /\ writes \in 0 .. MaxWrites
    /\ indexRun \in [state : {"none", "done", "active", "failed"}, started : Time \cup {None}]
    /\ runStarted \in Time \cup {None}
    /\ faults \in 0 .. MaxFaults
    /\ search \in [Searchers -> SearchState]
    /\ stamps \in (Time \cup {None}) \X (Time \cup {None})
    /\ Keys(responses) \subseteq Queries /\ Len(responses.order) <= Capacity
    /\ Len(contexts.order) <= Capacity

Init ==
    /\ clock = 1
    /\ index = [f \in Files |-> Missing]
    /\ writes = 0
    /\ indexRun = [state |-> "none", started |-> None]
    /\ runStarted = None
    /\ faults = 0
    /\ search = [s \in Searchers |-> Idle]
    /\ stamps = <<None, None>>
    /\ responses = EmptyCache
    /\ contexts = EmptyCache

-----------------------------------------------------------------------------
(* The clock and the index runs, one at a time. *)

Tick ==
    /\ clock < MaxClock
    /\ clock' = clock + 1
    /\ UNCHANGED <<index, writes, indexRun, runStarted, faults, search, cacheVars>>

BeginRun ==
    /\ indexRun.state # "active"
    /\ RunsPerSecond = "one" => indexRun.started # clock
    /\ indexRun' = [state |-> "active", started |-> clock]
    /\ UNCHANGED <<clock, index, writes, runStarted, faults, search, cacheVars>>

(* The symbols of a file replaced, updated_at = unixepoch().               *)
IndexFile ==
    /\ indexRun.state = "active"
    /\ writes < MaxWrites
    /\ writes' = writes + 1
    /\ \E f \in Files :
          index' = [index EXCEPT ![f] = [content |-> writes + 1, updated |-> clock]]
    /\ UNCHANGED <<clock, indexRun, runStarted, faults, search, cacheVars>>

CleanFile ==
    /\ indexRun.state = "active"
    /\ \E f \in Files :
          /\ index[f] # Missing
          /\ index' = [index EXCEPT ![f] = Missing]
    /\ UNCHANGED <<clock, writes, indexRun, runStarted, faults, search, cacheVars>>

(* Mutant: the run leaves its row only when it has indexed a file.         *)
EndRunWithRowIfNewer ==
    /\ indexRun.state = "active"
    /\ indexRun' = [indexRun EXCEPT !.state = "done"]
    /\ runStarted' = IF LastUpdate >= indexRun.started THEN indexRun.started ELSE runStarted
    /\ UNCHANGED <<clock, index, writes, faults, search, cacheVars>>

(* The row of the run is inserted when it is over, with its start.         *)
EndRun ==
    /\ indexRun.state = "active"
    /\ indexRun' = [indexRun EXCEPT !.state = "done"]
    /\ runStarted' = Max({runStarted, indexRun.started})
    /\ UNCHANGED <<clock, index, writes, faults, search, cacheVars>>

(* No row.                                                                 *)
FailRun ==
    /\ indexRun.state = "active"
    /\ faults < MaxFaults
    /\ faults' = faults + 1
    /\ indexRun' = [indexRun EXCEPT !.state = "failed"]
    /\ UNCHANGED <<clock, index, writes, runStarted, search, cacheVars>>

-----------------------------------------------------------------------------
(* A search. *)

limits == [entries |-> Capacity, bytes |-> NoLimit]

At(s, label) == search[s].pc = label

Call(s) ==
    /\ At(s, "idle")
    /\ \E q \in Queries :
          search' = [search EXCEPT ![s] = [Idle EXCEPT !.pc = "readUpdate", !.query = q]]
    /\ UNCHANGED <<indexVars, cacheVars>>

ReadLastUpdate(s) ==
    /\ At(s, "readUpdate")
    /\ search' = [search EXCEPT ![s].pc = "readRun", ![s].seen = <<LastUpdate, @[2]>>]
    /\ UNCHANGED <<indexVars, cacheVars>>

ReadLatestRun(s) ==
    /\ At(s, "readRun")
    /\ search' = [search EXCEPT ![s].pc = "lookup", ![s].seen = <<@[1], runStarted>>]
    /\ UNCHANGED <<indexVars, cacheVars>>

(* A cache as the search finds it once the stamps are compared.            *)
Valid(cache, seen) == IF seen = stamps THEN cache ELSE EmptyCache

(* Under the lock; a hit ends the search.                                  *)
Lookup(s) ==
    LET me == search[s]
        found == Valid(responses, me.seen)
    IN
    /\ At(s, "lookup")
    /\ stamps' = me.seen
    /\ contexts' = Valid(contexts, me.seen)
    /\ IF me.query \in Keys(found)
         THEN /\ responses' = Get(found, me.query)
              /\ search' = [search EXCEPT ![s] = Idle]
         ELSE /\ responses' = found
              /\ search' = [search EXCEPT ![s].pc = "query"]
    /\ UNCHANGED indexVars

(* Keyword and vector search, ranking, the rows of the hits.               *)
Query(s) ==
    /\ At(s, "query")
    /\ search' = [search EXCEPT ![s].pc = "context", ![s].hits = Contents]
    /\ UNCHANGED <<indexVars, cacheVars>>

ContextKey(s) == <<search[s].query, Found(search[s].hits)>>

LookupContext(s) ==
    /\ At(s, "context")
    /\ LET key == ContextKey(s) IN
         IF key \in Keys(contexts)
           THEN /\ contexts' = Get(contexts, key)
                /\ search' = [search EXCEPT ![s].pc = "insertResponse",
                                 ![s].context = contexts.entries[key].value]
           ELSE /\ search' = [search EXCEPT ![s].pc = "assemble"]
                /\ UNCHANGED contexts
    /\ UNCHANGED <<indexVars, stamps, responses>>

(* The text of the hits' symbols, from the rows the search has read.       *)
AssembleContext(s) ==
    /\ At(s, "assemble")
    /\ search' = [search EXCEPT ![s].pc = "insertContext", ![s].context = search[s].hits]
    /\ UNCHANGED <<indexVars, cacheVars>>

InsertContext(s) ==
    /\ At(s, "insertContext")
    /\ contexts' = Insert(contexts, ContextKey(s), search[s].context, 1, limits)
    /\ search' = [search EXCEPT ![s].pc = "insertResponse"]
    /\ UNCHANGED <<indexVars, stamps, responses>>

(* Whatever the stamps are by now.                                         *)
InsertResponse(s) ==
    /\ At(s, "insertResponse")
    /\ responses' = Insert(responses, search[s].query,
                           [hits |-> search[s].hits, context |-> search[s].context], 1, limits)
    /\ search' = [search EXCEPT ![s] = Idle]
    /\ UNCHANGED <<indexVars, stamps, contexts>>

-----------------------------------------------------------------------------
RunStep == BeginRun \/ IndexFile \/ CleanFile \/ EndRun \/ FailRun

SearchStep(s) ==
    \/ Call(s) \/ ReadLastUpdate(s) \/ ReadLatestRun(s) \/ Lookup(s) \/ Query(s)
    \/ LookupContext(s) \/ AssembleContext(s) \/ InsertContext(s) \/ InsertResponse(s)

Next == Tick \/ RunStep \/ \E s \in Searchers : SearchStep(s)

Spec == Init /\ [][Next]_vars

-----------------------------------------------------------------------------
(* Properties. *)

(* Once an index run has succeeded and until the next one begins, what a   *)
(* search finds in the cache under the present stamps is what the index    *)
(* would answer it: the hits and the context alike.                        *)
HitsAreFresh ==
    indexRun.state = "done" /\ stamps = IndexStamps =>
        \A q \in Keys(responses) :
            responses.entries[q].value = [hits |-> Contents, context |-> Contents]
=============================================================================
