---------------------------- MODULE ModelRelations ----------------------------
(***************************************************************************)
(* The relations between the models, and the two things TinyORM does along *)
(* them by itself: a query eager loads what the u_with lists name, and a   *)
(* save touches the owners the u_touches lists name.  Each list is         *)
(* harmless on its own; together they must not lead in a circle, for both  *)
(* recursions follow the lists of the models they reach.                   *)
(*                                                                         *)
(* Keys, pivots, casts and default models are left out: they decide which  *)
(* rows a query returns.                                                   *)
(***************************************************************************)
EXTENDS Naturals, Sequences

(* A model: relation name -> related model, the paths of relations to eager *)
(* load, the relations to touch, and whether its rows have timestamps.      *)
Model(relations, with, touches, timestamps) ==
  [relations |-> relations, with |-> with, touches |-> touches, timestamps |-> timestamps]

NoRelations == [r \in {} |-> ""]

Torrent ==
  Model([torrentFiles  |-> "TorrentPreviewableFile",
         torrentPeer   |-> "TorrentPeer",
         tags          |-> "Tag",
         user          |-> "User",
         torrentStates |-> "TorrentState"], {}, {}, TRUE)

TorrentPeer == Model([torrent |-> "Torrent"], {}, {}, TRUE)

TorrentPreviewableFile ==
  Model([torrent                         |-> "Torrent",
         torrent_WithBoolDefault         |-> "Torrent",
         torrent_WithVectorDefaults      |-> "Torrent",
         fileProperty                    |-> "TorrentPreviewableFileProperty",
         fileProperty_WithBoolDefault    |-> "TorrentPreviewableFileProperty",
         fileProperty_WithVectorDefaults |-> "TorrentPreviewableFileProperty"],
        {}, { "torrent" }, TRUE)

\* Mutant: a model without timestamps touches nothing.
FilePropertyTouchingNothing ==
  Model([torrentFile          |-> "TorrentPreviewableFile",
         filePropertyProperty |-> "FilePropertyProperty"],
        {}, {}, FALSE)

TorrentPreviewableFileProperty ==
  Model([torrentFile          |-> "TorrentPreviewableFile",
         filePropertyProperty |-> "FilePropertyProperty"],
        {}, { "torrentFile" }, FALSE)

FilePropertyProperty ==
  Model([fileProperty |-> "TorrentPreviewableFileProperty"],
        {}, { "fileProperty" }, TRUE)

Tag ==
  Model([torrents                        |-> "Torrent",
         torrents_WithoutPivotAttributes |-> "Torrent",
         tagProperty                     |-> "TagProperty",
         roles                           |-> "Role"],
        { << "tagProperty" >> }, { "torrents" }, TRUE)

Role  == Model([users |-> "User"], {}, {}, FALSE)
Phone == Model([user |-> "User"], {}, {}, FALSE)

User ==
  Model([roles         |-> "Role",
         roles_appends |-> "Role",
         phone         |-> "Phone",
         torrents      |-> "Torrent"], {}, {}, TRUE)

Album      == Model([albumImages |-> "AlbumImage"], { << "albumImages" >> }, {}, TRUE)
AlbumImage == Model([album |-> "Album"], {}, {}, TRUE)

\* Mutant: the peers are loaded with their own relations.
TorrentEagerWithPeerEager ==
  Model([torrentFiles |-> "TorrentPreviewableFileEager",
         torrentPeer  |-> "TorrentPeerEager"],
        { << "torrentFiles", "fileProperty" >>, << "torrentPeer" >> }, {}, TRUE)

\* Mutant: a path names a relation that the related model does not have.
TorrentEagerMisspelt ==
  Model([torrentFiles |-> "TorrentPreviewableFileEager",
         torrentPeer  |-> "TorrentPeerEager_NoRelations"],
        { << "torrentFiles", "filesProperty" >>, << "torrentPeer" >> }, {}, TRUE)

TorrentEager ==
  Model([torrentFiles |-> "TorrentPreviewableFileEager",
         torrentPeer  |-> "TorrentPeerEager_NoRelations"],
        { << "torrentFiles", "fileProperty" >>, << "torrentPeer" >> }, {}, TRUE)

TorrentEager_Failed ==
  Model([torrentFiles |-> "TorrentPreviewableFileEager"],
        { << "torrentFiles-NON_EXISTENT" >> }, {}, TRUE)

TorrentPeerEager == Model([torrent |-> "TorrentEager"], { << "torrent" >> }, {}, TRUE)

TorrentPreviewableFileEager ==
  Model([fileProperty |-> "TorrentPreviewableFilePropertyEager"],
        { << "fileProperty" >> }, {}, TRUE)

TorrentPreviewableFileEager_WithDefault ==
  LET relations ==
        [torrent                         |-> "TorrentEager_WithDefault",
         torrent_WithBoolDefault         |-> "TorrentEager_WithDefault",
         torrent_WithVectorDefaults      |-> "TorrentEager_WithDefault",
         fileProperty                    |-> "TorrentPreviewableFilePropertyEager",
         fileProperty_WithBoolDefault    |-> "TorrentPreviewableFilePropertyEager",
         fileProperty_WithVectorDefaults |-> "TorrentPreviewableFilePropertyEager"]
  IN  Model(relations, { << r >> : r \in DOMAIN relations }, {}, TRUE)

Torrent_ReturnRelation ==
  Model([torrentFiles |-> "TorrentPreviewableFile",
         torrentPeer  |-> "TorrentPeer",
         tags         |-> "Tag_ReturnRelation",
         tagsCustom   |-> "Tag",
         user         |-> "User"], {}, {}, TRUE)

\* Models without relations of their own.
TagProperty                         == Model(NoRelations, {}, {}, TRUE)
Tag_ReturnRelation                  == Model(NoRelations, {}, {}, TRUE)
TorrentEager_WithDefault            == Model(NoRelations, {}, {}, TRUE)
TorrentPeerEager_NoRelations        == Model(NoRelations, {}, {}, TRUE)
TorrentState                        == Model(NoRelations, {}, {}, FALSE)
TorrentPreviewableFilePropertyEager == Model(NoRelations, {}, {}, FALSE)

Models ==
  [Torrent |-> Torrent, TorrentPeer |-> TorrentPeer,
   TorrentPreviewableFile |-> TorrentPreviewableFile,
   TorrentPreviewableFileProperty |-> TorrentPreviewableFileProperty,
   FilePropertyProperty |-> FilePropertyProperty,
   Tag |-> Tag, User |-> User, Role |-> Role, Phone |-> Phone,
   Album |-> Album, AlbumImage |-> AlbumImage,
   TorrentEager |-> TorrentEager, TorrentEager_Failed |-> TorrentEager_Failed,
   TorrentPeerEager |-> TorrentPeerEager,
   TorrentPreviewableFileEager |-> TorrentPreviewableFileEager,
   TorrentPreviewableFileEager_WithDefault |-> TorrentPreviewableFileEager_WithDefault,
   Torrent_ReturnRelation |-> Torrent_ReturnRelation,
   TagProperty |-> TagProperty, Tag_ReturnRelation |-> Tag_ReturnRelation,
   TorrentEager_WithDefault |-> TorrentEager_WithDefault,
   TorrentPeerEager_NoRelations |-> TorrentPeerEager_NoRelations,
   TorrentState |-> TorrentState,
   TorrentPreviewableFilePropertyEager |-> TorrentPreviewableFilePropertyEager]

Related(m, relation) == Models[m].relations[relation]

-----------------------------------------------------------------------------
VARIABLES
  operation,   \* of the program: "load" or "save"
  root,        \* the model it queries or saves
  noRows,      \* a model whose table has no related rows, or "none"
  pending,     \* calls of the recursion that are still to be made
  touched,     \* models of which rows got a new updated_at
  result       \* "running", "returned" or "thrown"

call == <<operation, root, noRows>>
vars == <<call, pending, touched, result>>

\* A query of a model that is asked to eager load some paths; the model's own
\* u_with is added by the query.  Or the touching of the owners of a model.
Query(m, paths)  == [model |-> m, paths |-> paths]
TouchOwners(m)   == [model |-> m, paths |-> {}]

\* The paths a call of with() may name, up to two relations long.
AskedPaths(m) ==
  LET first == DOMAIN Models[m].relations
  IN  { << r >> : r \in first }
        \union UNION { { << r, s >> : s \in DOMAIN Models[Related(m, r)].relations } : r \in first }

Init ==
  /\ operation \in { "load", "save" }
  /\ root \in DOMAIN Models
  /\ noRows \in DOMAIN Models \union { "none" }
  /\ pending \in IF operation = "load"
                 THEN { { Query(root, asked) } :
                          asked \in { {} } \union { { path } : path \in AskedPaths(root) } }
                 ELSE { { TouchOwners(root) } }
  /\ touched = {} /\ result = "running"

\* The queries for the related models, one per relation, with the rest of the
\* paths that begin with it.
Nested(query, paths) ==
  { Query(Related(query.model, r),
          { Tail(path) : path \in { p \in paths : Head(p) = r /\ Len(p) > 1 } })
      : r \in { Head(path) : path \in paths } }

\* TinyBuilder::get() eager loads when it got a model.  A relation that the
\* model does not have throws RelationNotFoundError.
eagerLoadRelations(query) ==
  LET paths == query.paths \union Models[query.model].with
      found == query.model # noRows
      known == \A path \in paths : Head(path) \in DOMAIN Models[query.model].relations
  IN  /\ operation = "load"
      /\ IF found /\ ~known
         THEN result' = "thrown" /\ pending' = {}
         ELSE /\ pending' = (pending \ { query })
                              \union (IF found THEN Nested(query, paths) ELSE {})
              /\ UNCHANGED result
      /\ UNCHANGED <<call, touched>>

\* Model::touchOwners() after a save: the owners get a new timestamp, if they
\* have any, and then touch their own owners, in any case.
touchOwners(touch) ==
  LET owners == { Related(touch.model, r) : r \in Models[touch.model].touches } \ { noRows }
  IN  /\ operation = "save"
      /\ touched' = touched \union { m \in owners : Models[m].timestamps }
      /\ pending' = (pending \ { touch }) \union { TouchOwners(m) : m \in owners }
      /\ UNCHANGED <<call, result>>

returns ==
  /\ result = "running" /\ pending = {}
  /\ result' = "returned"
  /\ UNCHANGED <<call, pending, touched>>

Next ==
  \/ \E item \in pending : eagerLoadRelations(item) \/ touchOwners(item)
  \/ returns

Spec == Init /\ [][Next]_vars /\ WF_vars(Next)

-----------------------------------------------------------------------------
(* Properties. *)

\* No query and no save recurses forever: neither the u_with lists nor the
\* u_touches lists lead in a circle, whatever relations the query asks for.
RecursionEnds == <>(result # "running")

\* Only the model made for it throws: every other u_with list names relations
\* that exist, in the models along the whole path.
OnlyFailedThrows == result = "thrown" => root = "TorrentEager_Failed"

\* What "Touching Parent Timestamps" prints: a save anywhere below a torrent's
\* file reaches the torrent, past the file property, which has no timestamps
\* itself, up to a model without rows.  But for a tag's, no other save touches
\* anything.
OwnersOfFileProperties ==
  << "FilePropertyProperty", "TorrentPreviewableFileProperty", "TorrentPreviewableFile", "Torrent" >>

Above(m) ==
  LET chain == OwnersOfFileProperties
  IN  { chain[j] : j \in { k \in DOMAIN chain : \E i \in 1..(k - 1) :
          /\ chain[i] = m
          /\ \A between \in (i + 1)..k : chain[between] # noRows } }

TouchesAllOwners ==
  operation = "save" /\ result = "returned" =>
    touched = (IF root = "Tag" THEN { "Torrent" } \ { noRows } ELSE Above(root))
                \ { "TorrentPreviewableFileProperty" }

=============================================================================
