------------------------- MODULE BlobLinkMigration --------------------------
(***************************************************************************)
(* MigrateRepositoryBlobLinks: a start of the server on data of an older   *)
(* layout, which knows no links from repositories to blobs, makes a link   *)
(* for every blob that a manifest refers to, and leaves a marker when all  *)
(* are made.  The server listens after that.  Crashes and errors may end   *)
(* the process at any step; it is started again.                           *)
(*                                                                         *)
(* "owed" and "unlinked" are history: the blobs that manifests could be    *)
(* pulled with, and the links that clients have removed.  A name ending in *)
(* "Faulty" is a deliberately wrong variant of the definition that follows *)
(* it; nothing uses it but the mutation runs.                              *)
(***************************************************************************)
CONSTANTS
    Repositories,
    Blobs

VARIABLES
    marker,      \* .repository-blob-links-migrated exists
    stored,      \* the blobs in the blob store
    references,  \* <<r, b>>: a manifest of r refers to b
    links,       \* <<r, b>>: r has a link to b
    phase,       \* of the process
    todo,        \* references the migration has not looked at
    admitted,    \* the references of the push under way, after its check
    owed,        \* references to blobs that were there with their manifest
    unlinked

vars == <<marker, stored, references, links, phase, todo, admitted, owed, unlinked>>

Pairs == Repositories \X Blobs

\* Data of the older layout, or none; some blobs may be missing.
Init ==
    /\ marker = FALSE
    /\ stored \in SUBSET Blobs
    /\ references \in SUBSET Pairs
    /\ links = {}
    /\ phase = "down"
    /\ todo = {}
    /\ admitted = {}
    /\ owed = {pair \in references : pair[2] \in stored}
    /\ unlinked = {}

-----------------------------------------------------------------------------
MarkerAtStartFaulty == TRUE
MarkerAtStart == marker

\* The marker decides; nothing else writes while the process starts.
Start ==
    /\ phase = "down"
    /\ phase' = IF marker THEN "serving" ELSE "migrating"
    /\ todo' = IF marker THEN {} ELSE references
    /\ marker' = MarkerAtStart
    /\ UNCHANGED <<stored, references, links, admitted, owed, unlinked>>

\* One blob of one manifest; a link that exists already is no error.
Link ==
    /\ phase = "migrating"
    /\ \E pair \in todo :
          /\ links' = IF pair[2] \in stored THEN links \cup {pair} ELSE links
          /\ todo' = todo \ {pair}
    /\ UNCHANGED <<marker, stored, references, phase, admitted, owed, unlinked>>

WriteMarker ==
    /\ phase = "migrating"
    /\ todo = {}
    /\ marker' = TRUE
    /\ phase' = "serving"
    /\ UNCHANGED <<stored, references, links, todo, admitted, owed, unlinked>>

\* New panics on an error of the migration; a crash may come at any time.
Stop ==
    /\ phase # "down"
    /\ phase' = "down"
    /\ todo' = {}
    /\ admitted' = {}
    /\ UNCHANGED <<marker, stored, references, links, owed, unlinked>>

-----------------------------------------------------------------------------
\* An upload stores and links a blob.
Upload(r, b) ==
    /\ phase = "serving"
    /\ stored' = stored \cup {b}
    /\ links' = links \cup {<<r, b>>}
    /\ unlinked' = unlinked \ {<<r, b>>}
    /\ UNCHANGED <<marker, references, phase, todo, admitted, owed>>

\* A push looks for the link of each blob that its manifest names, without a lock.
CheckBlob(r, b) ==
    /\ phase = "serving"
    /\ admitted = {}
    /\ <<r, b>> \in links
    /\ admitted' = {<<r, b>>}
    /\ UNCHANGED <<marker, stored, references, links, phase, todo, owed, unlinked>>

\* It stores the manifest afterwards; the link may be gone by then.
PutManifest ==
    /\ admitted # {}
    /\ references' = references \cup admitted
    /\ owed' = owed \cup admitted
    /\ admitted' = {}
    /\ UNCHANGED <<marker, stored, links, phase, todo, unlinked>>

DeleteRepositoryBlob(r, b) ==
    /\ phase = "serving"
    /\ <<r, b>> \in links
    /\ links' = links \ {<<r, b>>}
    /\ unlinked' = unlinked \cup {<<r, b>>}
    /\ UNCHANGED <<marker, stored, references, phase, todo, admitted, owed>>

Next ==
    \/ Start \/ Link \/ WriteMarker \/ Stop \/ PutManifest
    \/ \E r \in Repositories, b \in Blobs :
          Upload(r, b) \/ CheckBlob(r, b) \/ DeleteRepositoryBlob(r, b)

Spec == Init /\ [][Next]_vars

-----------------------------------------------------------------------------
(***************************************************************************)
(* Properties.                                                             *)
(***************************************************************************)
(* Every variable has its type. *)
TypeOK ==
    /\ marker \in BOOLEAN
    /\ stored \subseteq Blobs
    /\ references \subseteq Pairs
    /\ links \subseteq Pairs
    /\ phase \in {"down", "migrating", "serving"}
    /\ todo \subseteq Pairs
    /\ admitted \subseteq Pairs
    /\ owed \subseteq Pairs
    /\ unlinked \subseteq Pairs

(* Once the server listens, the blobs of every manifest can be pulled from its
   repository, however often the migration was cut short and whatever became of a
   link between its check and the push; only what a client has unlinked cannot,
   and no later start of the server links that again. *)
LinksSurviveTheMigration ==
    /\ phase = "serving" => owed \subseteq links \cup unlinked
    /\ links \cap unlinked = {}

=============================================================================
