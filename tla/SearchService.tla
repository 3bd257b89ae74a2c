------------------------------ MODULE SearchService ------------------------------
(***************************************************************************)
(* app/SearchService: what fills the index of SearchIndexStore and what is *)
(* answered from it.  A build of the index and a read that adds what it    *)
(* decompiled hold the one CLASS_READ lease there is (Exclusion of         *)
(* OperationCoordinator); a search takes a copy of the index and keeps its *)
(* hits, for the pages its cursor may ask for later.                       *)
(*                                                                         *)
(* The publication may change at any time, and searches may come at any    *)
(* time, more often than the leases allow: what is shown here is shown of  *)
(* the checks of the store alone.                                          *)
(***************************************************************************)
EXTENDS SearchIndexStore

CONSTANTS Build, Read, Query,
          DomainSets,      \* domains a build may be asked for
          Catalogs, NoCode, CatalogSizes,  \* what a catalog may be like
          ResultSizes,     \* bytes the hits of a search may take
          MaxResults,      \* results retained, 256 in retain
          ResultBudget,    \* RESULT_BUDGET
          MaxPublications, MaxBegun  \* bounds of the model

ASSUME ServiceAssumption ==
    /\ DomainSets \subseteq SUBSET Domain
    /\ Catalogs \subseteq SUBSET Class
    /\ CatalogSizes \subseteq Nat
    /\ ResultSizes \subseteq Nat
    /\ MaxResults \in Nat \ {0} /\ ResultBudget \in Nat
    /\ None \notin Build \cup Read /\ None \notin Text
    /\ Build \cap Read = {} /\ Query \cap (Build \cup Read) = {}
    /\ IsFiniteSet(Query)

VARIABLES primary,    \* who holds the CLASS_READ lease
          at,         \* where each build, read and search is
          captured,   \* the publication a build or a read was admitted for
          domains,    \* of a build
          todo,       \* fragments a build has still to visit in this pass
          emitted,    \* emittedSources of a build: the last text of each owner
          lastBuild,  \* the last build begun of each domain, for this key
          seen,       \* the view the hits of a search are from
          paged,      \* the view a request for another page has taken
          results, resultSize, resultsOlder,  \* results and the order of their use
          resultBytes

buildVars == <<captured, domains, todo, emitted, lastBuild>>
queryVars == <<seen, paged, results, resultSize, resultsOlder, resultBytes>>
vars == <<publication, latest, storeVars, primary, at, buildVars, queryVars>>

Building == {"reset", "begin", "classes", "first", "second", "finish"}

Init ==
    /\ StoreInit
    /\ primary = None
    /\ at = [a \in Build \cup Read \cup Query |-> "idle"]
    /\ captured = [a \in Build \cup Read |-> None]
    /\ domains = [b \in Build |-> {}]
    /\ todo = [b \in Build |-> {}]
    /\ emitted = [b \in Build |-> [c \in Class |-> None]]
    /\ lastBuild = [d \in Domain |-> None]
    /\ seen = [q \in Query |-> None] /\ paged = [q \in Query |-> None]
    /\ results = {} /\ resultSize = [q \in Query |-> 0]
    /\ resultsOlder = {} /\ resultBytes = 0

GoTo(a, place) == at' = [at EXCEPT ![a] = place]

\* The lease is taken in one section with what it is for; the publication is
\* the one found there.
admit(a) == /\ at[a] = "idle" /\ primary = None /\ publication # None
            /\ primary' = a
            /\ captured' = [captured EXCEPT ![a] = publication]

fromEngine(a, text) == [of |-> captured[a], text |-> text]

-----------------------------------------------------------------------------
(* runBuild                                                                *)

buildStarts(b) ==
    /\ admit(b)
    /\ \E ds \in DomainSets : domains' = [domains EXCEPT ![b] = ds]
    /\ \/ GoTo(b, "reset")   \* force
       \/ GoTo(b, "begin")
    /\ UNCHANGED <<publication, latest, storeVars, todo, emitted, lastBuild, queryVars>>

resets(b) ==
    /\ at[b] = "reset"
    /\ resetDomains(captured[b], domains[b])
    /\ GoTo(b, "begin")
    /\ UNCHANGED <<publication, latest, primary, buildVars, queryVars>>

begins(b) ==
    /\ at[b] = "begin"
    /\ beginBuild(captured[b], domains[b])
    /\ lastBuild' = [d \in Domain |-> IF d \in domains[b] THEN b ELSE lastBuild[d]]
    /\ todo' = [todo EXCEPT ![b] = {f \in Known : f[1] \in domains[b]}]
    /\ GoTo(b, "classes")
    /\ UNCHANGED <<publication, latest, primary, captured, domains, emitted, queryVars>>

\* One fragment of the pass over all classes.
visits(b) ==
    /\ at[b] = "classes"
    /\ \E c \in Class :
         \/ /\ Member(c) \in todo[b]
            /\ todo' = [todo EXCEPT ![b] = @ \ {Member(c)}]
            /\ \/ \E text \in Text : publishMembers(captured[b], c, fromEngine(b, text))
               \/ mark(captured[b], Member(c), "FAILED")
            /\ UNCHANGED emitted
         \/ /\ Source(c) \in todo[b]
            /\ todo' = [todo EXCEPT ![b] = @ \ {Source(c)}]
            /\ \/ /\ \E next \in {"SKIPPED", "FAILED"} : mark(captured[b], Source(c), next)
                  /\ UNCHANGED emitted
               \/ \E text \in Text :
                    /\ publishSource(captured[b], c, fromEngine(b, text))
                    /\ emitted' = [emitted EXCEPT ![b][c] = text]
    /\ UNCHANGED <<publication, latest, primary, at, captured, domains, lastBuild, queryVars>>

\* One owner of the two consistency passes.
observesAgain(b) ==
    /\ at[b] \in {"first", "second"}
    /\ \E c \in Class :
         /\ Source(c) \in todo[b]
         /\ todo' = [todo EXCEPT ![b] = @ \ {Source(c)}]
         /\ \/ /\ mark(captured[b], Source(c), "FAILED")
               /\ emitted' = [emitted EXCEPT ![b][c] = None]
            \/ \E text \in Text \ {emitted[b][c]} :
                 /\ at[b] = "second"
                 /\ mark(captured[b], Source(c), "FAILED")
                 /\ UNCHANGED emitted
            \/ \E text \in Text :
                 /\ at[b] = "second" => text = emitted[b][c]
                 /\ publishSource(captured[b], c, fromEngine(b, text))
                 /\ emitted' = [emitted EXCEPT ![b][c] = text]
    /\ UNCHANGED <<publication, latest, primary, at, captured, domains, lastBuild, queryVars>>

\* Only a build of SOURCE_TEXT makes the two passes over the owners.
passAfter(b) == CASE at[b] = "classes" -> IF "SOURCE_TEXT" \in domains[b] THEN "first" ELSE "finish"
                  [] at[b] = "first" -> "second"
                  [] at[b] = "second" -> "finish"

\* The end of one pass is the beginning of the next.
nextPass(b) ==
    /\ at[b] \in {"classes", "first", "second"}
    /\ todo[b] = {}
    /\ GoTo(b, passAfter(b))
    /\ todo' = [todo EXCEPT ![b] =
                   IF passAfter(b) = "finish" THEN {}
                   ELSE {Source(c) : c \in {o \in Class : emitted[b][o] # None}}]
    /\ UNCHANGED <<publication, latest, storeVars, primary, captured, domains, emitted,
                   lastBuild, queryVars>>

finishes(b) ==
    /\ at[b] = "finish"
    /\ finishBuild(captured[b], domains[b])
    /\ GoTo(b, "finished") /\ primary' = None
    /\ UNCHANGED <<publication, latest, buildVars, queryVars>>

\* Cancellation, a deadline, a stale identity or an exception, anywhere.
breaksOff(b) ==
    /\ at[b] \in Building
    /\ GoTo(b, "broken") /\ primary' = None
    /\ UNCHANGED <<publication, latest, storeVars, buildVars, queryVars>>

-----------------------------------------------------------------------------
(* ingest and ensureCatalog, in a read that holds the lease.               *)

readStarts(r) ==
    /\ admit(r)
    /\ GoTo(r, "captured")
    /\ UNCHANGED <<publication, latest, storeVars, domains, todo, emitted, lastBuild, queryVars>>

initializes(r) ==
    /\ at[r] = "captured"
    /\ \E cat \in Catalogs, base \in CatalogSizes :
          initialize(captured[r], cat, NoCode, base)
    /\ lastBuild' = IF key' = key THEN lastBuild ELSE [d \in Domain |-> None]
    /\ GoTo(r, "initialized")
    /\ UNCHANGED <<publication, latest, primary, captured, domains, todo, emitted, queryVars>>

ingestsMembers(r) ==
    /\ at[r] = "initialized"
    /\ \E c \in Class, text \in Text : publishMembers(captured[r], c, fromEngine(r, text))
    /\ GoTo(r, "members")
    /\ UNCHANGED <<publication, latest, primary, buildVars, queryVars>>

ingestsSource(r) ==
    /\ at[r] = "members"
    /\ \E c \in Class :
         \/ mark(captured[r], Source(c), "FAILED")
         \/ \E text \in Text :
               publishSource(captured[r], c, fromEngine(r, text))
    /\ GoTo(r, "ingested")
    /\ UNCHANGED <<publication, latest, primary, buildVars, queryVars>>

\* At any time: ensureCatalog ends after initialize, a class that is not
\* resolved is not ingested, and exceptions are swallowed by the caller.
readEnds(r) ==
    /\ at[r] \in {"captured", "initialized", "members", "ingested"}
    /\ GoTo(r, "done") /\ primary' = None
    /\ UNCHANGED <<publication, latest, storeVars, buildVars, queryVars>>

-----------------------------------------------------------------------------
(* query: a search, then pages of it.                                      *)

takesView(q) ==
    /\ at[q] = "idle" /\ accept(publication)
    /\ seen' = [seen EXCEPT ![q] = view]
    /\ GoTo(q, "viewed")
    /\ UNCHANGED <<publication, latest, storeVars, primary, buildVars, paged, results,
                   resultSize, resultsOlder, resultBytes>>

sameIndex(v, w) == v.key = w.key /\ v.generation = w.generation

\* Results of another index, and any that have expired, go; then the least
\* recently used, while there are too many or they take too much.
retain(q) ==
    /\ at[q] = "viewed"
    /\ \E expired \in SUBSET results, size \in ResultSizes :
         LET left == {r \in results \ expired : sameIndex(seen[r], seen[q])}
             bytes(S) == resultBytes - Bytes(resultSize, results \ S)
         IN \E kept \in SUBSET left :
              /\ Keeps(resultsOlder, left, kept,
                       {S \in SUBSET left : Cardinality(S) >= MaxResults
                                            \/ bytes(S) + size > ResultBudget})
              /\ IF size > ResultBudget
                 THEN /\ results' = kept
                      /\ resultBytes' = bytes(kept)
                      /\ resultsOlder' = among(resultsOlder, kept)
                      /\ GoTo(q, "done")
                      /\ UNCHANGED resultSize
                 ELSE /\ results' = kept \cup {q}
                      /\ resultBytes' = bytes(kept) + size
                      /\ resultsOlder' = lastUsed(among(resultsOlder, kept), kept, q)
                      /\ resultSize' = [resultSize EXCEPT ![q] = size]
                      /\ GoTo(q, "retained")
    /\ UNCHANGED <<publication, latest, storeVars, primary, buildVars, seen, paged>>

\* A request with the cursor of q.
turnsPage(q) ==
    /\ at[q] = "retained" /\ accept(publication)
    /\ paged' = [paged EXCEPT ![q] = view]
    /\ GoTo(q, "paging")
    /\ UNCHANGED <<publication, latest, storeVars, primary, buildVars, seen, results,
                   resultSize, resultsOlder, resultBytes>>

\* The cursor and the result agree with the view that was taken.
serves(q) == q \in results /\ sameIndex(seen[q], paged[q])

pageFromCursor(q) ==
    /\ at[q] = "paging"
    /\ \/ /\ ~ sameIndex(seen[q], paged[q]) \/ q \notin results   \* stale
          /\ UNCHANGED <<results, resultsOlder, resultBytes>>
       \/ /\ serves(q)
          /\ resultsOlder' = lastUsed(resultsOlder, results, q)
          /\ UNCHANGED <<results, resultBytes>>
       \/ /\ serves(q)                                            \* expired
          /\ results' = results \ {q}
          /\ resultBytes' = resultBytes - resultSize[q]
          /\ resultsOlder' = among(resultsOlder, results \ {q})
    /\ GoTo(q, "retained")
    /\ paged' = [paged EXCEPT ![q] = None]
    /\ UNCHANGED <<publication, latest, storeVars, primary, buildVars, seen, resultSize>>

-----------------------------------------------------------------------------
Elsewhere == UNCHANGED <<primary, at, buildVars, queryVars>>

BuildStep(b) == \/ buildStarts(b) \/ resets(b) \/ begins(b) \/ visits(b) \/ observesAgain(b)
                \/ nextPass(b) \/ finishes(b) \/ breaksOff(b)
ReadStep(r) == \/ readStarts(r) \/ initializes(r) \/ ingestsMembers(r) \/ ingestsSource(r)
               \/ readEnds(r)
QueryStep(q) == takesView(q) \/ retain(q) \/ turnsPage(q) \/ pageFromCursor(q)

\* Bound of the model: how many of them take part in one behavior.
mayBegin(a) == at[a] = "idle" => Cardinality({x \in DOMAIN at : at[x] # "idle"}) < MaxBegun

Next == \/ latest < MaxPublications /\ publish /\ Elsewhere
        \/ publication # None /\ withdraw /\ Elsewhere
        \/ \E b \in Build : mayBegin(b) /\ BuildStep(b)
        \/ \E r \in Read : mayBegin(r) /\ ReadStep(r)
        \/ \E q \in Query : mayBegin(q) /\ QueryStep(q)

Spec == Init /\ [][Next]_vars

-----------------------------------------------------------------------------
(* Properties.                                                             *)

IsLru(order, S) ==
    /\ order \subseteq S \X S
    /\ \A x, y \in S : <<x, y>> \in order <=> (x # y /\ <<y, x>> \notin order)

\* A fragment counted as indexed is held, and all that is held was extracted
\* from the publication the index is of.
HeldAsReported ==
    /\ \A f \in Held : /\ held[f].of = key
                       /\ \/ status[f] = "INDEXED"
                          \/ status[f] = "FAILED" /\ f[1] = "SOURCE_TEXT" /\ held[f].text \in Partial
    /\ \A f \in Fragment : status[f] = "INDEXED" => f \in Held

\* A domain is COMPLETE only if the build last begun of it has been through.
CompleteMeansBuilt ==
    \A d \in Domain \ {"CLASS_NAME"} :
        complete(d) /\ lastBuild[d] # None => at[lastBuild[d]] = "finished"

\* A build that is about to finish counts as indexed the text it saw last.
FinalTexts ==
    \A b \in Build, c \in Class :
        /\ at[b] = "finish" /\ accept(captured[b]) /\ "SOURCE_TEXT" \in domains[b]
        /\ status[Source(c)] = "INDEXED"
        => held[Source(c)].text = emitted[b][c]

(* What coverage reports is what a search finds, over builds that are      *)
(* broken off, publications that change under them, classes that are read  *)
(* in between, and evictions (publishSource, evict, initialize,            *)
(* beginBuild, finishBuild, runBuild).                                     *)
CoverageHonest == HeldAsReported /\ CompleteMeansBuilt /\ FinalTexts

(* The index and the retained results stay within their budgets whatever   *)
(* is stored, replaced, marked, reset, evicted or expired, because their   *)
(* counters are the exact sums of what is there, and nothing is held that  *)
(* eviction cannot find (evict, remove, retain).                           *)
BudgetsKept ==
    /\ retainedBytes = catalogBytes + Bytes(sizes(held), Held) /\ retainedBytes <= MaxBytes
    /\ resultBytes = Bytes(resultSize, results) /\ resultBytes <= ResultBudget
    /\ Cardinality(results) <= MaxResults
    /\ IsLru(older, Held) /\ IsLru(resultsOlder, results)

(* A page is served only while the index is the one the hits were found    *)
(* in: whatever changes a view of the same publication changes its         *)
(* generation too (pageFromCursor, generation).                            *)
PagesAreCurrent == \A q \in Query : at[q] = "paging" /\ serves(q) => seen[q] = paged[q]

=============================================================================
