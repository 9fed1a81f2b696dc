------------------------ MODULE ModelRelations_proofs ------------------------
(***************************************************************************)
(* What a query loads and a save touches along the models' declarations.   *)
(*                                                                         *)
(* The first part proves of the declarations that every relation leads to  *)
(* a model and every path to eager load exists; the rest are the           *)
(* invariants of the two recursions.                                       *)
(***************************************************************************)
EXTENDS ModelRelations, TLAPS

-----------------------------------------------------------------------------
(* The declarations *)

\* The one model made to fail; no relation leads to it.
Failed == "TorrentEager_Failed"

Names == DOMAIN Models

LEMMA ModelOf ==
  /\ Models["Torrent"] = Torrent
  /\ Models["TorrentPeer"] = TorrentPeer
  /\ Models["TorrentPreviewableFile"] = TorrentPreviewableFile
  /\ Models["TorrentPreviewableFileProperty"] = TorrentPreviewableFileProperty
  /\ Models["FilePropertyProperty"] = FilePropertyProperty
  /\ Models["Tag"] = Tag
  /\ Models["User"] = User
  /\ Models["Role"] = Role
  /\ Models["Phone"] = Phone
  /\ Models["Album"] = Album
  /\ Models["AlbumImage"] = AlbumImage
  /\ Models["TorrentEager"] = TorrentEager
  /\ Models["TorrentEager_Failed"] = TorrentEager_Failed
  /\ Models["TorrentPeerEager"] = TorrentPeerEager
  /\ Models["TorrentPreviewableFileEager"] = TorrentPreviewableFileEager
  /\ Models["TorrentPreviewableFileEager_WithDefault"] = TorrentPreviewableFileEager_WithDefault
  /\ Models["Torrent_ReturnRelation"] = Torrent_ReturnRelation
  /\ Models["TagProperty"] = TagProperty
  /\ Models["Tag_ReturnRelation"] = Tag_ReturnRelation
  /\ Models["TorrentEager_WithDefault"] = TorrentEager_WithDefault
  /\ Models["TorrentPeerEager_NoRelations"] = TorrentPeerEager_NoRelations
  /\ Models["TorrentState"] = TorrentState
  /\ Models["TorrentPreviewableFilePropertyEager"] = TorrentPreviewableFilePropertyEager
  BY DEF Models

LEMMA NamesAre ==
  Names =
    { "Torrent", "TorrentPeer", "TorrentPreviewableFile",
      "TorrentPreviewableFileProperty", "FilePropertyProperty", "Tag", "User", "Role",
      "Phone", "Album", "AlbumImage", "TorrentEager", "TorrentEager_Failed",
      "TorrentPeerEager", "TorrentPreviewableFileEager",
      "TorrentPreviewableFileEager_WithDefault", "Torrent_ReturnRelation", "TagProperty",
      "Tag_ReturnRelation", "TorrentEager_WithDefault", "TorrentPeerEager_NoRelations",
      "TorrentState", "TorrentPreviewableFilePropertyEager" }
  BY DEF Models, Names

\* Every relation leads to a model other than Failed.
LEMMA RelationsLead ==
  ASSUME NEW m \in Names, NEW r \in DOMAIN Models[m].relations
  PROVE  Related(m, r) \in Names \ { Failed }
<1> DEFINE Leads(model) == \A s \in DOMAIN model.relations :
                           model.relations[s] \in Names \ { Failed }
<1>1. Leads(Torrent)
  BY NamesAre DEF Torrent, Model, Failed
<1>2. Leads(TorrentPeer)
  BY NamesAre DEF TorrentPeer, Model, Failed
<1>3. Leads(TorrentPreviewableFile)
  BY NamesAre DEF TorrentPreviewableFile, Model, Failed
<1>4. Leads(TorrentPreviewableFileProperty)
  BY NamesAre DEF TorrentPreviewableFileProperty, Model, Failed
<1>5. Leads(FilePropertyProperty)
  BY NamesAre DEF FilePropertyProperty, Model, Failed
<1>6. Leads(Tag)
  BY NamesAre DEF Tag, Model, Failed
<1>7. Leads(User)
  BY NamesAre DEF User, Model, Failed
<1>8. Leads(Role)
  BY NamesAre DEF Role, Model, Failed
<1>9. Leads(Phone)
  BY NamesAre DEF Phone, Model, Failed
<1>10. Leads(Album)
  BY NamesAre DEF Album, Model, Failed
<1>11. Leads(AlbumImage)
  BY NamesAre DEF AlbumImage, Model, Failed
<1>12. Leads(TorrentEager)
  BY NamesAre DEF TorrentEager, Model, Failed
<1>13. Leads(TorrentEager_Failed)
  BY NamesAre DEF TorrentEager_Failed, Model, Failed
<1>14. Leads(TorrentPeerEager)
  BY NamesAre DEF TorrentPeerEager, Model, Failed
<1>15. Leads(TorrentPreviewableFileEager)
  BY NamesAre DEF TorrentPreviewableFileEager, Model, Failed
<1>16. Leads(TorrentPreviewableFileEager_WithDefault)
  BY NamesAre DEF TorrentPreviewableFileEager_WithDefault, Model, Failed
<1>17. Leads(Torrent_ReturnRelation)
  BY NamesAre DEF Torrent_ReturnRelation, Model, Failed
<1>18. /\ Leads(TagProperty)
       /\ Leads(Tag_ReturnRelation)
       /\ Leads(TorrentEager_WithDefault)
       /\ Leads(TorrentPeerEager_NoRelations)
       /\ Leads(TorrentState)
       /\ Leads(TorrentPreviewableFilePropertyEager)
  BY DEF TagProperty, Tag_ReturnRelation, TorrentEager_WithDefault,
         TorrentPeerEager_NoRelations, TorrentState,
         TorrentPreviewableFilePropertyEager, Model, NoRelations
<1>19. \A n \in Names : Leads(Models[n])
  BY NamesAre, ModelOf, <1>1, <1>2, <1>3, <1>4, <1>5, <1>6, <1>7, <1>8, <1>9, <1>10, <1>11,
     <1>12, <1>13, <1>14, <1>15, <1>16, <1>17, <1>18
<1> QED
  BY <1>19 DEF Related

\* The paths a query may ask for are those of one relation or of two.
LEMMA AskedIs ==
  ASSUME NEW m, NEW path
  PROVE  path \in AskedPaths(m) <=>
           \/ \E r \in DOMAIN Models[m].relations : path = << r >>
           \/ \E r \in DOMAIN Models[m].relations :
                \E s \in DOMAIN Models[Related(m, r)].relations : path = << r, s >>
  BY DEF AskedPaths

\* Every path a model always loads is one that a query may ask for.
LEMMA WithsExist ==
  ASSUME NEW m \in Names \ { Failed }, NEW path \in Models[m].with
  PROVE  path \in AskedPaths(m)
<1>1. CASE m = "Tag"
  <2>1. Tag.with = { << "tagProperty" >> }
    BY DEF Tag, Model
  <2>2. "tagProperty" \in DOMAIN Tag.relations
    BY DEF Tag, Model
  <2> QED
    BY <1>1, <2>1, <2>2, ModelOf, AskedIs
<1>2. CASE m = "Album"
  <2>1. Album.with = { << "albumImages" >> }
    BY DEF Album, Model
  <2>2. "albumImages" \in DOMAIN Album.relations
    BY DEF Album, Model
  <2> QED
    BY <1>2, <2>1, <2>2, ModelOf, AskedIs
<1>3. CASE m = "TorrentEager"
  <2>1. TorrentEager.with = { << "torrentFiles", "fileProperty" >>, << "torrentPeer" >> }
    BY DEF TorrentEager, Model
  <2>2. /\ "torrentFiles" \in DOMAIN TorrentEager.relations
        /\ "torrentPeer" \in DOMAIN TorrentEager.relations
    BY DEF TorrentEager, Model
  <2>3. Related(m, "torrentFiles") = "TorrentPreviewableFileEager"
    BY <1>3, ModelOf DEF Related, TorrentEager, Model
  <2>4. "fileProperty" \in DOMAIN TorrentPreviewableFileEager.relations
    BY DEF TorrentPreviewableFileEager, Model
  <2> QED
    BY <1>3, <2>1, <2>2, <2>3, <2>4, ModelOf, AskedIs
<1>4. CASE m = "TorrentPeerEager"
  <2>1. TorrentPeerEager.with = { << "torrent" >> }
    BY DEF TorrentPeerEager, Model
  <2>2. "torrent" \in DOMAIN TorrentPeerEager.relations
    BY DEF TorrentPeerEager, Model
  <2> QED
    BY <1>4, <2>1, <2>2, ModelOf, AskedIs
<1>5. CASE m = "TorrentPreviewableFileEager"
  <2>1. TorrentPreviewableFileEager.with = { << "fileProperty" >> }
    BY DEF TorrentPreviewableFileEager, Model
  <2>2. "fileProperty" \in DOMAIN TorrentPreviewableFileEager.relations
    BY DEF TorrentPreviewableFileEager, Model
  <2> QED
    BY <1>5, <2>1, <2>2, ModelOf, AskedIs
<1>6. CASE m = "TorrentPreviewableFileEager_WithDefault"
  <2>1. TorrentPreviewableFileEager_WithDefault.with =
          { << r >> : r \in DOMAIN TorrentPreviewableFileEager_WithDefault.relations }
    BY DEF TorrentPreviewableFileEager_WithDefault, Model
  <2> QED
    BY <1>6, <2>1, ModelOf, AskedIs
<1>7. CASE m \notin { "Tag", "Album", "TorrentEager", "TorrentPeerEager",
                      "TorrentPreviewableFileEager", "TorrentPreviewableFileEager_WithDefault" }
  <2>1. /\ Torrent.with = {}
        /\ TorrentPeer.with = {}
        /\ TorrentPreviewableFile.with = {}
        /\ TorrentPreviewableFileProperty.with = {}
        /\ FilePropertyProperty.with = {}
        /\ User.with = {}
        /\ Role.with = {}
        /\ Phone.with = {}
        /\ AlbumImage.with = {}
        /\ Torrent_ReturnRelation.with = {}
        /\ TagProperty.with = {}
        /\ Tag_ReturnRelation.with = {}
        /\ TorrentEager_WithDefault.with = {}
        /\ TorrentPeerEager_NoRelations.with = {}
        /\ TorrentState.with = {}
        /\ TorrentPreviewableFilePropertyEager.with = {}
    BY DEF Torrent, TorrentPeer, TorrentPreviewableFile,
           TorrentPreviewableFileProperty, FilePropertyProperty, User, Role, Phone,
           AlbumImage, Torrent_ReturnRelation, TagProperty, Tag_ReturnRelation,
           TorrentEager_WithDefault, TorrentPeerEager_NoRelations, TorrentState,
           TorrentPreviewableFilePropertyEager, Model
  <2>2. Models[m].with = {}
    BY <1>7, <2>1, NamesAre, ModelOf DEF Failed
  <2> QED
    BY <2>2
<1> QED
  BY <1>1, <1>2, <1>3, <1>4, <1>5, <1>6, <1>7

-----------------------------------------------------------------------------
(* What throws *)

\* A running query and those it still has to make ask for what exists.
ThrowInv ==
  /\ root \in Names
  /\ operation = "load" /\ root # Failed =>
       /\ result # "thrown"
       /\ \A q \in pending : q.model \in Names \ { Failed } /\ q.paths \subseteq AskedPaths(q.model)
  /\ operation = "save" => result # "thrown"
  /\ operation \in { "load", "save" }

LEMMA InitThrow == Init => ThrowInv
<1> SUFFICES ASSUME Init PROVE ThrowInv
  OBVIOUS
<1>1. root \in Names /\ operation \in { "load", "save" } /\ result = "running"
  BY DEF Init, Names
<1>2. operation = "load" =>
        \E asked \in { {} } \union { { path } : path \in AskedPaths(root) } :
          pending = { Query(root, asked) }
  BY DEF Init
<1>3. operation = "load" =>
        \A q \in pending : q.model = root /\ q.paths \subseteq AskedPaths(root)
  BY <1>2 DEF Query
<1> QED
  BY <1>1, <1>3 DEF ThrowInv

\* The rest of a path is one of the model its first relation leads to.
LEMMA NestedAsks ==
  ASSUME NEW q, q.model \in Names \ { Failed }, NEW paths, paths \subseteq AskedPaths(q.model),
         NEW n \in Nested(q, paths)
  PROVE  n.model \in Names \ { Failed } /\ n.paths \subseteq AskedPaths(n.model)
<1>1. PICK r \in { Head(path) : path \in paths } :
        n = Query(Related(q.model, r),
                  { Tail(path) : path \in { p \in paths : Head(p) = r /\ Len(p) > 1 } })
  BY DEF Nested
<1>2. r \in DOMAIN Models[q.model].relations
  <2>1. PICK path \in paths : r = Head(path)
    BY <1>1
  <2>2. path \in AskedPaths(q.model)
    BY <2>1
  <2> QED
    BY <2>1, <2>2, AskedIs
<1>3. n.model = Related(q.model, r)
      /\ n.paths = { Tail(path) : path \in { p \in paths : Head(p) = r /\ Len(p) > 1 } }
  BY <1>1 DEF Query
<1>4. n.model \in Names \ { Failed }
  BY <1>2, <1>3, RelationsLead
<1>5. ASSUME NEW path \in paths, Head(path) = r, Len(path) > 1
      PROVE  Tail(path) \in AskedPaths(n.model)
  <2>1. path \in AskedPaths(q.model)
    BY <1>5
  <2>2. PICK s1 \in DOMAIN Models[q.model].relations :
          \E s2 \in DOMAIN Models[Related(q.model, s1)].relations : path = << s1, s2 >>
    <3>1. ~\E s1 \in DOMAIN Models[q.model].relations : path = << s1 >>
      <4> SUFFICES ASSUME NEW s1, path = << s1 >> PROVE FALSE
        OBVIOUS
      <4>1. Len(path) = 1
        OBVIOUS
      <4> QED
        BY <1>5, <4>1
    <3> QED
      BY <2>1, <3>1, AskedIs
  <2>3. PICK s2 \in DOMAIN Models[Related(q.model, s1)].relations : path = << s1, s2 >>
    BY <2>2
  <2>4. s1 = r /\ Tail(path) = << s2 >>
    BY <1>5, <2>3
  <2> QED
    BY <1>3, <2>3, <2>4, AskedIs
<1> QED
  BY <1>3, <1>4, <1>5

LEMMA LoadThrow ==
  ASSUME ThrowInv, NEW q \in pending, eagerLoadRelations(q) PROVE ThrowInv'
<1>1. operation = "load" /\ UNCHANGED <<operation, root>>
  BY DEF eagerLoadRelations, call
<1> DEFINE paths == q.paths \union Models[q.model].with
<1>2. CASE root = Failed
  BY <1>1, <1>2 DEF ThrowInv
<1>3. CASE root # Failed
  <2>1. /\ result # "thrown"
        /\ \A p \in pending : p.model \in Names \ { Failed } /\ p.paths \subseteq AskedPaths(p.model)
    BY <1>1, <1>3 DEF ThrowInv
  <2>2. q.model \in Names \ { Failed } /\ q.paths \subseteq AskedPaths(q.model)
    BY <2>1
  <2>3. paths \subseteq AskedPaths(q.model)
    BY <2>2, WithsExist
  <2>4. \A path \in paths : Head(path) \in DOMAIN Models[q.model].relations
    <3> SUFFICES ASSUME NEW path \in paths PROVE Head(path) \in DOMAIN Models[q.model].relations
      OBVIOUS
    <3>1. path \in AskedPaths(q.model)
      BY <2>3
    <3> QED
      BY <3>1, AskedIs
  <2>5. /\ result' = result
        /\ pending' \subseteq pending \union Nested(q, paths)
    BY <2>4 DEF eagerLoadRelations
  <2> HIDE DEF paths
  <2>6. \A n \in Nested(q, paths) :
          n.model \in Names \ { Failed } /\ n.paths \subseteq AskedPaths(n.model)
    BY <2>2, <2>3, NestedAsks
  <2> QED
    BY <1>1, <2>1, <2>5, <2>6 DEF ThrowInv
<1> QED
  BY <1>2, <1>3

LEMMA ThrowInvariance == Spec => []ThrowInv
<1>1. ThrowInv /\ [Next]_vars => ThrowInv'
  <2> SUFFICES ASSUME ThrowInv, [Next]_vars PROVE ThrowInv'
    OBVIOUS
  <2>1. ASSUME NEW item \in pending, touchOwners(item) PROVE ThrowInv'
    BY <2>1 DEF touchOwners, call, ThrowInv
  <2>2. ASSUME returns PROVE ThrowInv'
    BY <2>2 DEF returns, call, ThrowInv
  <2>3. ASSUME UNCHANGED vars PROVE ThrowInv'
    BY <2>3 DEF vars, call, ThrowInv
  <2> QED
    BY <2>1, <2>2, <2>3, LoadThrow DEF Next
<1> QED
  BY <1>1, InitThrow, PTL DEF Spec

\* A query or a save throws for a relation that does not exist only when it is
\* a query of the model that was made to, whatever paths the query asks for.
THEOREM OnlyFailedThrowsTheorem == Spec => []OnlyFailedThrows
<1>1. ThrowInv => OnlyFailedThrows
  BY DEF ThrowInv, OnlyFailedThrows, Failed
<1> QED
  BY <1>1, ThrowInvariance, PTL

-----------------------------------------------------------------------------
(* What a save touches *)

File         == "TorrentPreviewableFile"
FileProperty == "TorrentPreviewableFileProperty"

Owners(m) == { Related(m, r) : r \in Models[m].touches } \ { noRows }

\* The models a save of m touches, as TouchesAllOwners states it of the root.
TouchedFrom(m) ==
  (IF m = "Tag" THEN { "Torrent" } \ { noRows } ELSE Above(m)) \ { FileProperty }

\* The relations the u_touches lists name.
LEMMA OwnersAre ==
  /\ Owners("FilePropertyProperty") = { FileProperty } \ { noRows }
  /\ Owners(FileProperty) = { File } \ { noRows }
  /\ Owners(File) = { "Torrent" } \ { noRows }
  /\ Owners("Tag") = { "Torrent" } \ { noRows }
  /\ \A m \in Names \ { "FilePropertyProperty", FileProperty, File, "Tag" } : Owners(m) = {}
<1>1. Owners("TorrentPreviewableFile") = { "Torrent" } \ { noRows }
  <2>1. /\ TorrentPreviewableFile.touches = { "torrent" }
        /\ TorrentPreviewableFile.relations["torrent"] = "Torrent"
    BY DEF TorrentPreviewableFile, Model
  <2> QED
    BY <2>1, ModelOf DEF Owners, Related
<1>2. Owners("TorrentPreviewableFileProperty") = { "TorrentPreviewableFile" } \ { noRows }
  <2>1. /\ TorrentPreviewableFileProperty.touches = { "torrentFile" }
        /\ TorrentPreviewableFileProperty.relations["torrentFile"] = "TorrentPreviewableFile"
    BY DEF TorrentPreviewableFileProperty, Model
  <2> QED
    BY <2>1, ModelOf DEF Owners, Related
<1>3. Owners("FilePropertyProperty") = { "TorrentPreviewableFileProperty" } \ { noRows }
  <2>1. /\ FilePropertyProperty.touches = { "fileProperty" }
        /\ FilePropertyProperty.relations["fileProperty"] = "TorrentPreviewableFileProperty"
    BY DEF FilePropertyProperty, Model
  <2> QED
    BY <2>1, ModelOf DEF Owners, Related
<1>4. Owners("Tag") = { "Torrent" } \ { noRows }
  <2>1. /\ Tag.touches = { "torrents" }
        /\ Tag.relations["torrents"] = "Torrent"
    BY DEF Tag, Model
  <2> QED
    BY <2>1, ModelOf DEF Owners, Related
<1>5. /\ Torrent.touches = {}
      /\ TorrentPeer.touches = {}
      /\ User.touches = {}
      /\ Role.touches = {}
      /\ Phone.touches = {}
      /\ Album.touches = {}
      /\ AlbumImage.touches = {}
      /\ TorrentEager.touches = {}
      /\ TorrentEager_Failed.touches = {}
      /\ TorrentPeerEager.touches = {}
      /\ TorrentPreviewableFileEager.touches = {}
      /\ TorrentPreviewableFileEager_WithDefault.touches = {}
      /\ Torrent_ReturnRelation.touches = {}
      /\ TagProperty.touches = {}
      /\ Tag_ReturnRelation.touches = {}
      /\ TorrentEager_WithDefault.touches = {}
      /\ TorrentPeerEager_NoRelations.touches = {}
      /\ TorrentState.touches = {}
      /\ TorrentPreviewableFilePropertyEager.touches = {}
  BY DEF Torrent, TorrentPeer, User, Role, Phone, Album, AlbumImage, TorrentEager,
         TorrentEager_Failed, TorrentPeerEager, TorrentPreviewableFileEager,
         TorrentPreviewableFileEager_WithDefault, Torrent_ReturnRelation,
         TagProperty, Tag_ReturnRelation, TorrentEager_WithDefault,
         TorrentPeerEager_NoRelations, TorrentState,
         TorrentPreviewableFilePropertyEager, Model
<1>6. \A m \in Names \ { "FilePropertyProperty", FileProperty, File, "Tag" } :
        Models[m].touches = {}
  BY <1>5, NamesAre, ModelOf DEF File, FileProperty
<1>7. \A m \in Names \ { "FilePropertyProperty", FileProperty, File, "Tag" } : Owners(m) = {}
  BY <1>6 DEF Owners
<1> QED
  BY <1>1, <1>2, <1>3, <1>4, <1>7 DEF File, FileProperty

\* The models above m in the chain of the file properties.
LEMMA AboveIs ==
  ASSUME NEW m, NEW x
  PROVE  x \in Above(m) <=>
           \/ m = File /\ x = "Torrent" /\ noRows # "Torrent"
           \/ m = FileProperty /\ noRows # File /\
                (x = File \/ (x = "Torrent" /\ noRows # "Torrent"))
           \/ m = "FilePropertyProperty" /\ noRows # FileProperty /\
                (\/ x = FileProperty
                 \/ noRows # File /\
                      (x = File \/ (x = "Torrent" /\ noRows # "Torrent")))
<1> DEFINE chain == OwnersOfFileProperties
           Reaches(i, k) == /\ chain[i] = m /\ chain[k] = x
                            /\ \A between \in (i + 1)..k : chain[between] # noRows
<1>1. /\ DOMAIN chain = 1..4
      /\ chain[1] = "FilePropertyProperty" /\ chain[2] = FileProperty
      /\ chain[3] = File /\ chain[4] = "Torrent"
  BY DEF OwnersOfFileProperties, File, FileProperty
<1>2. x \in Above(m) <=> \E k \in 1..4 : \E i \in 1..(k - 1) : Reaches(i, k)
  BY <1>1 DEF Above
<1>3. (\E k \in 1..4 : \E i \in 1..(k - 1) : Reaches(i, k)) <=>
        \/ Reaches(1, 2) \/ Reaches(1, 3) \/ Reaches(1, 4)
        \/ Reaches(2, 3) \/ Reaches(2, 4) \/ Reaches(3, 4)
  <2> HIDE DEF Reaches
  <2>1. \A k \in 1..4 : \A i \in 1..(k - 1) :
          << i, k >> \in { <<1, 2>>, <<1, 3>>, <<1, 4>>, <<2, 3>>, <<2, 4>>, <<3, 4>> }
    OBVIOUS
  <2>2. ASSUME NEW k \in 1..4, NEW i \in 1..(k - 1), Reaches(i, k)
        PROVE  \/ Reaches(1, 2) \/ Reaches(1, 3) \/ Reaches(1, 4)
               \/ Reaches(2, 3) \/ Reaches(2, 4) \/ Reaches(3, 4)
    BY <2>1, <2>2
  <2> QED
    BY <2>2
<1>4. /\ Reaches(1, 2) <=> chain[1] = m /\ chain[2] = x /\ chain[2] # noRows
      /\ Reaches(2, 3) <=> chain[2] = m /\ chain[3] = x /\ chain[3] # noRows
      /\ Reaches(3, 4) <=> chain[3] = m /\ chain[4] = x /\ chain[4] # noRows
  OBVIOUS
<1>5. /\ Reaches(1, 3) <=> chain[1] = m /\ chain[3] = x /\ chain[2] # noRows /\ chain[3] # noRows
      /\ Reaches(2, 4) <=> chain[2] = m /\ chain[4] = x /\ chain[3] # noRows /\ chain[4] # noRows
  OBVIOUS
<1>6. Reaches(1, 4) <=> /\ chain[1] = m /\ chain[4] = x
                        /\ chain[2] # noRows /\ chain[3] # noRows /\ chain[4] # noRows
  OBVIOUS
<1> HIDE DEF chain, Reaches
<1> QED
  BY <1>1, <1>2, <1>3, <1>4, <1>5, <1>6 DEF File, FileProperty

\* A save of m touches its owners that have timestamps, and what a save of each
\* owner touches.
LEMMA TouchedFromOwners ==
  ASSUME NEW m \in Names, NEW x
  PROVE  x \in TouchedFrom(m) <=>
           \/ x \in Owners(m) /\ Models[x].timestamps
           \/ \E o \in Owners(m) : x \in TouchedFrom(o)
<1>1. Models["Torrent"].timestamps /\ Models[File].timestamps /\ ~Models[FileProperty].timestamps
  <2>1. /\ Torrent.timestamps /\ TorrentPreviewableFile.timestamps
        /\ ~TorrentPreviewableFileProperty.timestamps
    BY DEF Torrent, TorrentPreviewableFile, TorrentPreviewableFileProperty, Model
  <2> QED
    BY <2>1, ModelOf DEF File, FileProperty
<1>2. \A y : y \notin TouchedFrom("Torrent")
  BY AboveIs DEF TouchedFrom, File, FileProperty
<1>3. \A y : y \in TouchedFrom(File) <=> y = "Torrent" /\ noRows # "Torrent"
  BY AboveIs DEF TouchedFrom, File, FileProperty
<1>4. \A y : y \in TouchedFrom(FileProperty) <=>
               noRows # File /\ (y = File \/ (y = "Torrent" /\ noRows # "Torrent"))
  BY AboveIs DEF TouchedFrom, File, FileProperty
<1>5. CASE m = "FilePropertyProperty"
  <2>1. x \in TouchedFrom(m) <=>
          noRows # FileProperty /\ noRows # File /\
            (x = File \/ (x = "Torrent" /\ noRows # "Torrent"))
    BY <1>5, AboveIs DEF TouchedFrom, File, FileProperty
  <2>2. \A o : o \in Owners(m) <=> o = FileProperty /\ noRows # FileProperty
    BY <1>5, OwnersAre
  <2> QED
    BY <1>1, <1>4, <2>1, <2>2
<1>6. CASE m = FileProperty
  <2>1. \A o : o \in Owners(m) <=> o = File /\ noRows # File
    BY <1>6, OwnersAre
  <2> QED
    BY <1>1, <1>3, <1>4, <1>6, <2>1
<1>7. CASE m = File
  <2>1. \A o : o \in Owners(m) <=> o = "Torrent" /\ noRows # "Torrent"
    BY <1>7, OwnersAre
  <2> QED
    BY <1>1, <1>2, <1>3, <1>7, <2>1
<1>8. CASE m = "Tag"
  <2>1. \A o : o \in Owners(m) <=> o = "Torrent" /\ noRows # "Torrent"
    BY <1>8, OwnersAre
  <2>2. x \in TouchedFrom(m) <=> x = "Torrent" /\ noRows # "Torrent"
    BY <1>8 DEF TouchedFrom, FileProperty
  <2> QED
    BY <1>1, <1>2, <2>1, <2>2
<1>9. CASE m \notin { "FilePropertyProperty", FileProperty, File, "Tag" }
  <2>1. Owners(m) = {}
    BY <1>9, OwnersAre
  <2>2. x \notin TouchedFrom(m)
    BY <1>9, AboveIs DEF TouchedFrom
  <2> QED
    BY <2>1, <2>2
<1> QED
  BY <1>5, <1>6, <1>7, <1>8, <1>9

\* What the save has touched and what its pending calls will touch is what a
\* save of the root touches.
TouchInv ==
  /\ root \in Names
  /\ operation = "save" =>
       /\ \A t \in pending : t.model \in Names
       /\ TouchedFrom(root) = touched \union UNION { TouchedFrom(t.model) : t \in pending }
       /\ result = "returned" => pending = {}

LEMMA InitTouch == Init => TouchInv
<1> SUFFICES ASSUME Init PROVE TouchInv
  OBVIOUS
<1>1. root \in Names /\ touched = {} /\ result = "running"
  BY DEF Init, Names
<1>2. operation = "save" => pending = { TouchOwners(root) }
  BY DEF Init
<1>3. TouchOwners(root).model = root
  BY DEF TouchOwners
<1> QED
  BY <1>1, <1>2, <1>3 DEF TouchInv

LEMMA TouchStep ==
  ASSUME TouchInv, NEW touch \in pending, touchOwners(touch) PROVE TouchInv'
<1>1. operation = "save" /\ UNCHANGED <<operation, root, noRows, result>>
  BY DEF touchOwners, call
<1> DEFINE owners == Owners(touch.model)
<1>2. /\ touched' = touched \union { m \in owners : Models[m].timestamps }
      /\ pending' = (pending \ { touch }) \union { TouchOwners(m) : m \in owners }
  BY DEF touchOwners, Owners
<1>3. /\ root \in Names /\ \A t \in pending : t.model \in Names
      /\ \A x : x \in TouchedFrom(root) <=>
                  x \in touched \/ \E t \in pending : x \in TouchedFrom(t.model)
  BY <1>1 DEF TouchInv
<1>4. owners \subseteq Names
  <2>1. owners \subseteq { FileProperty, File, "Torrent" }
    BY <1>3, OwnersAre
  <2> QED
    BY <2>1, NamesAre DEF File, FileProperty
<1>5. \A m : TouchOwners(m).model = m
  BY DEF TouchOwners
<1>6. \A m : TouchedFrom(m)' = TouchedFrom(m)
  BY <1>1 DEF TouchedFrom, Above
<1>7. \A x : x \in TouchedFrom(touch.model) <=>
             \/ x \in owners /\ Models[x].timestamps
             \/ \E o \in owners : x \in TouchedFrom(o)
  BY <1>3, TouchedFromOwners
<1> HIDE DEF owners
<1>8. \A t \in pending' : t.model \in Names
  BY <1>2, <1>3, <1>4, <1>5
<1>9. ASSUME NEW x
      PROVE  (\E t \in pending' : x \in TouchedFrom(t.model)) <=>
               \/ \E t \in pending \ { touch } : x \in TouchedFrom(t.model)
               \/ \E o \in owners : x \in TouchedFrom(o)
  BY <1>2, <1>5
<1>10. \A x : x \in TouchedFrom(root) <=>
              x \in touched' \/ \E t \in pending' : x \in TouchedFrom(t.model)
  BY <1>2, <1>3, <1>7, <1>9
<1>11. TouchedFrom(root) = touched' \union UNION { TouchedFrom(t.model) : t \in pending' }
  BY <1>10
<1>12. result' # "returned"
  BY <1>1 DEF TouchInv
<1> QED
  BY <1>1, <1>3, <1>6, <1>8, <1>11, <1>12 DEF TouchInv

LEMMA TouchInvariance == Spec => []TouchInv
<1>1. TouchInv /\ [Next]_vars => TouchInv'
  <2> SUFFICES ASSUME TouchInv, [Next]_vars PROVE TouchInv'
    OBVIOUS
  <2>1. ASSUME NEW item \in pending, eagerLoadRelations(item) PROVE TouchInv'
    BY <2>1 DEF eagerLoadRelations, call, TouchInv
  <2>2. CASE returns \/ UNCHANGED vars
    <3>1. UNCHANGED <<operation, root, noRows, pending, touched>>
      BY <2>2 DEF returns, vars, call
    <3>2. \A m : TouchedFrom(m)' = TouchedFrom(m)
      BY <3>1 DEF TouchedFrom, Above
    <3>3. result' = "returned" => result = "returned" \/ pending = {}
      BY <2>2 DEF returns, vars
    <3> QED
      BY <3>1, <3>2, <3>3 DEF TouchInv
  <2> QED
    BY <2>1, <2>2, TouchStep DEF Next
<1> QED
  BY <1>1, InitTouch, PTL DEF Spec

\* A save that returned has touched exactly the owners above the model saved, up
\* to one without rows and without the file property, which has no timestamps.
THEOREM TouchesAllOwnersTheorem == Spec => []TouchesAllOwners
<1>1. TouchInv => TouchesAllOwners
  <2> SUFFICES ASSUME TouchInv, operation = "save", result = "returned"
               PROVE  touched = TouchedFrom(root)
    BY DEF TouchesAllOwners, TouchedFrom, FileProperty
  <2> QED
    BY DEF TouchInv
<1> QED
  BY <1>1, TouchInvariance, PTL

=============================================================================
