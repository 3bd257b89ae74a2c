---------------------------- MODULE SearchIndexStore ----------------------------
(***************************************************************************)
(* core/search/SearchIndexStore: copies of what was extracted from the     *)
(* engine, by class, for one publication of the project at a time.  What   *)
(* the monitor `lock' guards are variables under the names of the fields,  *)
(* and every synchronized section is an operator that says what it does to *)
(* them; SearchService calls them.                                         *)
(*                                                                         *)
(* A publication (SearchIndexKey) is a number, later ones are greater, and *)
(* none comes back (IdentityNeverReused of ProjectRuntime).  A fragment is *)
(* a domain and a class: "M:" + descriptor or "S:" + owner in the code.    *)
(* The lists and texts stored are model values with a size.                *)
(***************************************************************************)
EXTENDS Integers, FiniteSets

CONSTANTS Class, Text,
          SourceOwner,   \* the class whose source contains a class
          Size,          \* bytes estimated for a text
          Partial,       \* texts Jadx emitted with errors: decompileStatus
          TooLong,       \* texts publishSource refuses
          MaxBytes,      \* maxBytes
          None

\* A fragment as it is stored, with the publication it was extracted from.
Content == [of : Nat, text : Text]

ASSUME StoreAssumption ==
    /\ IsFiniteSet(Class)
    /\ SourceOwner \in [Class -> Class]
    /\ Size \in [Text -> Nat \ {0}]
    /\ Partial \subseteq Text /\ TooLong \subseteq Text
    /\ MaxBytes \in Nat
    /\ None \notin Nat /\ None \notin Content

VARIABLES publication,       \* ProjectRuntime.searchIdentity, read through the supplier
          latest,            \* the last publication there was
          key, generation, unfinishedBuilds,
          status,            \* memberStatus and sourceStatus
          held,              \* members and sources
          older,             \* lru, as the order in which fragments were last used
          retainedBytes, catalogBytes

storeVars == <<key, generation, unfinishedBuilds, status, held, older,
               retainedBytes, catalogBytes>>

Domain == {"CLASS_NAME", "MEMBER_NAME", "SOURCE_TEXT"}
Fragment == {"MEMBER_NAME", "SOURCE_TEXT"} \X Class

Member(c) == <<"MEMBER_NAME", c>>
Source(c) == <<"SOURCE_TEXT", c>>

\* "none": the fragment is not one of the catalog.
FragmentState == {"none", "PENDING", "INDEXED", "SKIPPED", "FAILED", "EVICTED"}

Known == {f \in Fragment : status[f] # "none"}
Held == {f \in Fragment : held[f] # None}

\* What the entries S take, one element for each byte.
Bytes(size, S) == Cardinality(UNION {{x} \X (1..size[x]) : x \in S})

\* What each fragment of h takes.
sizes(h) == [f \in Fragment |-> IF h[f] = None THEN 0 ELSE Size[h[f].text]]

StoreInit ==
    /\ publication = None /\ latest = 0
    /\ key = None /\ generation = 0 /\ unfinishedBuilds = {}
    /\ status = [f \in Fragment |-> "none"]
    /\ held = [f \in Fragment |-> None]
    /\ older = {}
    /\ retainedBytes = 0 /\ catalogBytes = 0

-----------------------------------------------------------------------------
(* The publication, as ProjectRuntime changes it.                          *)

publish == /\ latest' = latest + 1
           /\ publication' = latest'
           /\ UNCHANGED storeVars

withdraw == /\ publication' = None
            /\ UNCHANGED <<latest, storeVars>>

-----------------------------------------------------------------------------
(* The order of use.                                                       *)

\* f becomes the most recently used of S.
lastUsed(order, S, f) == {p \in order : f \notin {p[1], p[2]}} \cup ((S \ {f}) \X {f})

among(order, S) == order \cap (S \X S)

\* The least recently used of S go, one by one, while what is left is one of
\* the sets that are tooMuch: the loop that removes the first entry of an
\* access-ordered map.
Keeps(order, S, kept, tooMuch) ==
    /\ kept \subseteq S
    /\ \A gone \in S \ kept, f \in kept : <<gone, f>> \in order
    /\ kept # {} => kept \notin tooMuch
    /\ \A last \in S \ kept :
          (\A gone \in (S \ kept) \ {last} : <<gone, last>> \in order)
             => kept \cup {last} \in tooMuch

-----------------------------------------------------------------------------
(* The sections.                                                           *)

initialized(k) == k # None /\ k = key

accept(k) == k # None /\ k = key /\ k = publication

\* initialize: the catalog has the classes cat, of which those in noCode have
\* no code, and takes base bytes.  The statuses are those of the catalog alone.
pendingCatalog(cat, noCode) ==
    [f \in Fragment |->
        IF f[1] = "MEMBER_NAME" THEN IF f[2] \in cat THEN "PENDING" ELSE "none"
        ELSE IF f[2] \notin {SourceOwner[c] : c \in cat} THEN "none"
        ELSE IF f[2] \in cat \cap noCode /\ SourceOwner[f[2]] = f[2] THEN "SKIPPED"
        ELSE "PENDING"]

initialize(k, cat, noCode, base) ==
    IF k # publication \/ initialized(k) THEN UNCHANGED storeVars
    ELSE /\ base <= MaxBytes               \* IndexLimitException otherwise
         /\ key' = k /\ generation' = generation + 1
         /\ unfinishedBuilds' = {}
         /\ status' = pendingCatalog(cat, noCode)
         /\ held' = [f \in Fragment |-> None] /\ older' = {}
         /\ catalogBytes' = base /\ retainedBytes' = base

\* What publishMembers and publishSource do once they have accepted: put the
\* fragment, and evict what no longer fits.
store(f, content, next) ==
    /\ UNCHANGED <<key, unfinishedBuilds, catalogBytes>>
    /\ IF held[f] = content /\ status[f] = next
       THEN /\ older' = lastUsed(older, Held, f)
            /\ UNCHANGED <<generation, status, held, retainedBytes>>
       ELSE LET put == [held EXCEPT ![f] = content]
                all == Held \cup {f}
                order == lastUsed(older, Held, f)
                bytes == retainedBytes - sizes(held)[f] + sizes(put)[f]
                left(S) == bytes - Bytes(sizes(put), all \ S)
            IN \E kept \in SUBSET all :
                 /\ Keeps(order, all, kept, {S \in SUBSET all : left(S) > MaxBytes})
                 /\ held' = [g \in Fragment |-> IF g \in kept THEN put[g] ELSE None]
                 /\ status' = [g \in Fragment |-> IF g \in all \ kept THEN "EVICTED"
                                                  ELSE IF g = f THEN next ELSE status[g]]
                 /\ older' = among(order, kept)
                 /\ retainedBytes' = left(kept)
                 /\ generation' = generation + 1 + Cardinality(all \ kept)

\* The fragments S leave the maps and get a status in which nothing is held.
dropKeepingBytes(S, next) ==  \* bug: what is removed is still counted
    /\ held' = [f \in Fragment |-> IF f \in S THEN None ELSE held[f]]
    /\ status' = [f \in Fragment |-> IF f \in S THEN next ELSE status[f]]
    /\ older' = among(older, Held \ S)
    /\ generation' = generation + 1
    /\ UNCHANGED <<key, unfinishedBuilds, catalogBytes, retainedBytes>>
drop(S, next) ==
    /\ held' = [f \in Fragment |-> IF f \in S THEN None ELSE held[f]]
    /\ status' = [f \in Fragment |-> IF f \in S THEN next ELSE status[f]]
    /\ older' = among(older, Held \ S)
    /\ retainedBytes' = retainedBytes - Bytes(sizes(held), Held \cap S)
    /\ generation' = generation + 1
    /\ UNCHANGED <<key, unfinishedBuilds, catalogBytes>>

\* failMembers, failSource and skipSource.
mark(k, f, next) ==
    IF accept(k) /\ f \in Known THEN drop({f}, next) ELSE UNCHANGED storeVars

publishMembers(k, c, content) ==
    IF accept(k) /\ Member(c) \in Known THEN store(Member(c), content, "INDEXED")
    ELSE UNCHANGED storeVars

publishSource(k, c, content) ==
    IF content.text \in TooLong THEN mark(k, Source(c), "FAILED")
    ELSE IF accept(k) /\ Source(c) \in Known
         THEN store(Source(c), content, IF content.text \in Partial THEN "FAILED" ELSE "INDEXED")
         ELSE UNCHANGED storeVars

resettable(f, domains) == /\ f \in Known /\ f[1] \in domains
                          /\ f[1] = "SOURCE_TEXT" => status[f] # "SKIPPED"

\* These three throw StaleIndexException unless they accept.
resetDomains(k, domains) ==
    accept(k) /\ drop({f \in Fragment : resettable(f, domains)}, "PENDING")

setUnfinishedUnseen(domains) ==  \* bug: views before and after have one generation
    /\ unfinishedBuilds' = domains
    /\ UNCHANGED <<key, generation, status, held, older, retainedBytes, catalogBytes>>
setUnfinished(domains) ==
    /\ unfinishedBuilds' = domains
    /\ generation' = IF domains = unfinishedBuilds THEN generation ELSE generation + 1
    /\ UNCHANGED <<key, status, held, older, retainedBytes, catalogBytes>>

beginBuild(k, domains) == accept(k) /\ setUnfinished(unfinishedBuilds \cup domains)

finishBuild(k, domains) == accept(k) /\ setUnfinished(unfinishedBuilds \ domains)

-----------------------------------------------------------------------------
(* What is read from the index.                                            *)

view == [key |-> key, generation |-> generation, status |-> status, held |-> held,
         unfinished |-> unfinishedBuilds]

\* View.coverage
completeOnceIndexed(domain) ==  \* bug: builds that were broken off do not count
    \/ domain = "CLASS_NAME"
    \/ \A f \in Known : f[1] = domain => status[f] \in {"INDEXED", "SKIPPED"}
complete(domain) ==
    \/ domain = "CLASS_NAME"
    \/ /\ \A f \in Known : f[1] = domain => status[f] \in {"INDEXED", "SKIPPED"}
       /\ domain \notin unfinishedBuilds

=============================================================================
