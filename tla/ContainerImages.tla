--------------------------- MODULE ContainerImages ---------------------------
(***************************************************************************)
(* Runs of update_container_image_versions over the files of a repository: *)
(* the image references of the Docker files are looked up in parallel, in  *)
(* registries that answer page by page, and every reference that has a     *)
(* better tag is replaced in the Docker files and in the documentation,    *)
(* one file after the other.                                               *)
(*                                                                         *)
(* A page that cannot be fetched ends its lookup with the tags so far; any *)
(* other error, or an interrupt, ends the run where it is.  Registries     *)
(* publish tags at any time.                                               *)
(***************************************************************************)
EXTENDS ContainerTags

Seqs == INSTANCE SequencesExt

CONSTANTS
    Repositories,
    Pathed,         \* repositories with a "/" in their name
    Skipped,        \* references to local images
    Definitions,    \* Dockerfiles and Compose files
    Documents,      \* README.md and the files of docs/
    Order,          \* all files, sorted by path
    Longer,         \* all references, the longest text first
    Published,      \* [Repositories -> Seq(Seq(Tags))]: the pages at the start
    Upcoming,       \* bound: <<repository, tag>> that may be published, again or for the first time
    InitialRefs,    \* bound: [Files -> SUBSET Refs], what the files may hold at the start
    Runs,           \* bound: runs of the updater
    MaxPages        \* _MAX_REGISTRY_PAGES

Files == Definitions \cup Documents
Refs  == Repositories \X (Tags \cup {None})

ASSUME RefsAssumption == Skipped \subseteq Refs /\ InitialRefs \subseteq [Files -> SUBSET Refs]
ASSUME UpcomingAssumption == Upcoming \subseteq Repositories \X Tags
ASSUME OrderAssumption ==
    /\ Order \in Seq(Files)
    /\ {Order[i] : i \in DOMAIN Order} = Files
    /\ \A i, j \in DOMAIN Order : Order[i] = Order[j] => i = j
ASSUME LongerAssumption == Longer \in Seq(Refs) /\ {Longer[i] : i \in DOMAIN Longer} = Refs
ASSUME PublishedAssumption == Published \in [Repositories -> Seq(Seq(Tags))]
ASSUME BoundsAssumption == Runs \in Nat /\ MaxPages \in Nat \ {0}

VARIABLES
    registry,       \* the pages of each repository's tag list
    files,          \* the references in each file
    pc,             \* where the run is
    runs,           \* how many runs have started
    images,         \* the references of the Docker files, as the run read them
    listed,         \* the tags that each lookup has received
    page,           \* the page that each lookup fetches next, or 0 at its end
    replacements,   \* [old reference -> new reference]
    todo,           \* the files that the run has yet to rewrite
    whole,          \* history: the lookups that fetched the last page
    fresh,          \* history: nothing was published since the run started
    aligned         \* history: the documents were in line when the run started

vars == <<registry, files, pc, runs, images, listed, page, replacements, todo, whole, fresh, aligned>>

AllTags(pages) == UNION {{pages[i][j] : j \in DOMAIN pages[i]} : i \in DOMAIN pages}

DefinitionRefs == UNION {files[f] : f \in Definitions}

\* The documents name no image but those that the Docker files use, with
\* their tag or without one.
Aligned ==
    \A f \in Documents : \A ref \in files[f] :
        \/ ref \in DefinitionRefs
        \/ ref[2] = None /\ \E used \in DefinitionRefs : used[1] = ref[1]

TypeOK ==
    /\ registry \in [Repositories -> Seq(Seq(Tags))]
    /\ files \in [Files -> SUBSET Refs]
    /\ pc \in {"idle", "lookup", "write", "done", "failed"}
    /\ runs \in 0 .. Runs
    /\ images \subseteq Refs \ Skipped
    /\ listed \in [images -> Seq(Tags)]
    /\ page \in [images -> 0 .. MaxPages]
    /\ DOMAIN replacements \subseteq Refs
    /\ replacements \in [DOMAIN replacements -> Repositories \X Tags]
    /\ \E n \in 0 .. Len(Order) : todo = SubSeq(Order, n + 1, Len(Order))
    /\ whole \subseteq images
    /\ fresh \in BOOLEAN /\ aligned \in BOOLEAN

Init ==
    /\ registry = Published
    /\ files \in InitialRefs
    /\ pc = "idle"
    /\ runs = 0
    /\ images = {}
    /\ listed = <<>> /\ page = <<>> /\ replacements = <<>>
    /\ todo = <<>>
    /\ whole = {}
    /\ fresh = TRUE /\ aligned = TRUE

-----------------------------------------------------------------------------
(* Reading and looking up.                                                 *)

\* _container_image_references and _remote_container_images.
Start ==
    /\ pc \in {"idle", "done", "failed"}
    /\ runs < Runs
    /\ runs' = runs + 1
    /\ images' = DefinitionRefs \ Skipped
    /\ listed' = [i \in images' |-> <<>>]
    /\ page' = [i \in images' |-> 1]
    /\ replacements' = <<>>
    /\ todo' = <<>>
    /\ whole' = {}
    /\ fresh' = TRUE /\ aligned' = Aligned
    /\ pc' = IF images' = {} THEN "done" ELSE "lookup"
    /\ UNCHANGED <<registry, files>>

\* _docker_hub_tags and _ghcr_tags: the next page, until the last one or the
\* last one that is asked for.
FetchPage(i) ==
    LET pages == registry[i[1]]
        last  == page[i] = Len(pages)
    IN  /\ pc = "lookup"
        /\ page[i] # 0
        /\ page[i] <= Len(pages)
        /\ listed' = [listed EXCEPT ![i] = @ \o pages[page[i]]]
        /\ page' = [page EXCEPT ![i] = IF last \/ @ = MaxPages THEN 0 ELSE @ + 1]
        /\ whole' = IF last THEN whole \cup {i} ELSE whole
        /\ UNCHANGED <<registry, files, pc, runs, images, replacements, todo, fresh, aligned>>

\* _json_response returns None: the lookup makes do with what it has.
PageFails(i) ==
    /\ pc = "lookup"
    /\ page[i] # 0
    /\ page' = [page EXCEPT ![i] = 0]
    /\ UNCHANGED <<registry, files, pc, runs, images, listed, replacements, todo, whole, fresh, aligned>>

\* The run ends by an exception or an interrupt; a file that is being written
\* was truncated and may be left so.
Abort ==
    /\ pc \in {"lookup", "write"}
    /\ pc' = "failed"
    /\ \/ UNCHANGED files
       \/ pc = "write" /\ files' = [files EXCEPT ![Head(todo)] = {}]
    /\ UNCHANGED <<registry, runs, images, listed, page, replacements, todo, whole, fresh, aligned>>

-----------------------------------------------------------------------------
(* Replacing.                                                              *)

\* Variant: the results of the lookups are matched to the images by position.
SwappedLookup(i) == CHOOSE k \in images : k # i \/ images = {i}

\* _resolve_in_parallel keeps the result of each lookup under its own key.
Lookup(i) == i

NewTag(i) == latest_container_image_tag(i[1], i[2], listed[Lookup(i)])

\* Variant: a lookup that found nothing counts as an answer.
ImprovedByAnyAnswer == {i \in images : NewTag(i) # i[2]}

Improved == {i \in images : NewTag(i) \notin {None, i[2]}}

\* References without a tag to an image that was pinned as "latest"; a
\* reference that is replaced in its own right keeps its replacement.
\* setdefault takes the first image of a repository in sorted order, and
\* only one reference of a repository has the tag "latest".
BareRefs == {<<i[1], None>> : i \in {k \in Improved : k[2] = Latest /\ k[1] \in Pathed}} \ Improved

container_image_replacements ==
    [old \in Improved \cup BareRefs |->
        <<old[1], NewTag(IF old \in Improved THEN old ELSE <<old[1], Latest>>)>>]

Replace ==
    /\ pc = "lookup"
    /\ \A i \in images : page[i] = 0
    /\ replacements' = container_image_replacements
    /\ IF Improved = {}
         THEN pc' = "done" /\ UNCHANGED todo
         ELSE pc' = "write" /\ todo' = Order
    /\ UNCHANGED <<registry, files, runs, images, listed, page, whole, fresh, aligned>>

\* What the replacements, applied one after the other and the longest text
\* first, make of a reference: one may replace what another has written.
Rewritten(ref) ==
    LET after[n \in 0 .. Len(Longer)] ==
          IF n = 0 THEN ref
          ELSE LET before == after[n - 1]
               IN  IF before = Longer[n] /\ before \in DOMAIN replacements
                     THEN replacements[before]
                     ELSE before
    IN  after[Len(Longer)]

\* Variant: only the Docker files are rewritten.
ReplacedInDefinitions(f) ==
    IF f \in Definitions THEN {Rewritten(ref) : ref \in files[f]} ELSE files[f]

Replaced(f) == {Rewritten(ref) : ref \in files[f]}

WriteFile ==
    /\ pc = "write"
    /\ todo # <<>>
    /\ files' = [files EXCEPT ![Head(todo)] = Replaced(Head(todo))]
    /\ todo' = Tail(todo)
    /\ pc' = IF Tail(todo) = <<>> THEN "done" ELSE "write"
    /\ UNCHANGED <<registry, runs, images, listed, page, replacements, whole, fresh, aligned>>

-----------------------------------------------------------------------------
\* A page without a tag, which a registry lists once.
Without(tags, t) ==
    IF \E n \in DOMAIN tags : tags[n] = t
      THEN Seqs!RemoveAt(tags, CHOOSE n \in DOMAIN tags : tags[n] = t)
      ELSE tags

\* A registry publishes a tag, or publishes it again, and lists it first
\* (Docker Hub) or last (ghcr.io).
Publish(r, t) ==
    LET others == [n \in DOMAIN registry[r] |-> Without(registry[r][n], t)]
        last   == Len(registry[r])
    IN  /\ registry[r] # <<>>
        /\ \/ registry' = [registry EXCEPT ![r] = [others EXCEPT ![1] = <<t>> \o @]]
           \/ registry' = [registry EXCEPT ![r] = [others EXCEPT ![last] = Append(@, t)]]
        /\ registry' # registry
        /\ fresh' = FALSE
        /\ UNCHANGED <<files, pc, runs, images, listed, page, replacements, todo, whole, aligned>>

Stop == pc \in {"done", "failed"} /\ runs = Runs /\ UNCHANGED vars

Next ==
    \/ Start
    \/ \E i \in images : FetchPage(i) \/ PageFails(i)
    \/ Abort
    \/ Replace
    \/ WriteFile
    \/ \E u \in Upcoming : Publish(u[1], u[2])
    \/ Stop

Spec == Init /\ [][Next]_vars

-----------------------------------------------------------------------------
(* Properties.                                                             *)

\* The lookups of this run saw whole tag lists, all of the same moment.
Undisturbed == fresh /\ images \subseteq whole

\* `new` may take the place of `old`: the same variant of the same major
\* version and not a lower version, or a version that `old` is the floating
\* name of.
IsUpgrade(repository, old, new) ==
    \/ /\ Versioned(old) /\ Versioned(new)
       /\ ~Lower(Rank(new), Rank(old))
       /\ Parsed[new].prefix = Parsed[old].prefix
       /\ Parsed[new].suffix = Parsed[old].suffix
       /\ Parsed[new].version[1] = Parsed[old].version[1]
       /\ repository \in PythonRuntimes /\ Len(Parsed[old].version) >= 2 =>
            Parsed[new].version[2] = Parsed[old].version[2]
    \/ old \in EndsWith[new]

\* A lookup that received the current tag itself never lowers the version and
\* never leaves the variant, the major version or, for Python, the minor
\* version, whatever else the registry answered, omitted or changed meanwhile
\* (update_container_image_versions.py:419-467).
ListedTagsOnlyRise ==
    \A old \in DOMAIN replacements :
        /\ old \in images /\ old[2] \notin {None, Latest}
        /\ \E n \in DOMAIN listed[old] : listed[old][n] = old[2]
        => IsUpgrade(old[1], old[2], replacements[old][2])

\* test_update_container_image_versions_does_not_downgrade_dotted_versions
\* (tests/management/test_dependency_updater.py:311), whatever the registry
\* answers: the version of a replacement is not below the replaced one.
NeverDowngrades ==
    \A old \in DOMAIN replacements :
        old[2] \notin {None, Latest} => IsUpgrade(old[1], old[2], replacements[old][2])

\* What a bare reference of the documents becomes is not replaced in turn.
\* Otherwise the Docker files, where the tag "latest" stood, take that second
\* replacement too and the documents, whose bare reference has the shortest
\* text and comes last, do not.
Unchained ==
    \A old \in DOMAIN replacements :
        old[2] = None /\ old \notin images => replacements[old] \notin DOMAIN replacements

\* Documents that name the images of the Docker files still do after a
\* completed run, with the same tags, although the run never reads which
\* images a document names and its lookups may see different registries
\* (test_update_container_image_versions_updates_docker_files_and_docs).
DocumentsFollow == pc = "done" /\ aligned /\ Unchained => Aligned

\* The tags on the first n pages of a repository's list, and on all of them.
FirstPages(pages) ==
    LET upto[n \in 0 .. Len(pages)] == IF n = 0 THEN <<>> ELSE upto[n - 1] \o pages[n]
    IN  upto

WholeList(pages) == FirstPages(pages)[Len(pages)]

\* Repeated runs come to rest when the registry does: the successors that the
\* run chooses from a whole list have no cycle, so no two tags replace each
\* other in turn (update_container_image_versions.py:430-440).
SuccessorsHaveNoCycle ==
    \A r \in Repositories :
        LET list    == WholeList(registry[r])
            chosen  == {<<t, latest_container_image_tag(r, t, list)>> : t \in AllTags(registry[r])}
            changes == {c \in chosen : c[2] \notin {None, c[1]}}
        IN  \A cycle \in SUBSET changes :
              cycle # {} => \E c \in cycle : \A d \in cycle : d[1] # c[2]

\* After one undisturbed run, whatever aborted runs or partial lists left
\* before it, the Docker files hold nothing that a further run would change
\* (update_container_image_versions.py:117-186), except floating names, which
\* that run pins, and a tag that this run has pinned a floating name to, which
\* that run may raise to one that no longer ends with the floating name.
DefinitionsConverge ==
    pc = "done" /\ Undisturbed =>
        \A ref \in DefinitionRefs \ Skipped :
            LET next == latest_container_image_tag(ref[1], ref[2], WholeList(registry[ref[1]]))
            IN  \/ next \in {None, ref[2]}
                \/ ref[2] \in EndsWith[next]
                \/ \E old \in DOMAIN replacements :
                     /\ replacements[old] = ref
                     /\ old[2] \in EndsWith[ref[2]] \ EndsWith[next]
=============================================================================
