---------------------------- MODULE VideoCatalog ----------------------------
(***************************************************************************)
(* One video, its document in the search index and its owner's channel     *)
(* (handlers/video.go, handlers/profile.go, packages/search/postgres.go).  *)
(* The videos row and the search_documents row are written by different    *)
(* statements, so they agree only if every change of the first is followed *)
(* by one of the second, in the same order.                                *)
(*                                                                         *)
(* Texts are versions: a title or a display name is the number of times it *)
(* was set. A statement that fails is "err" (not executed) or "lost"       *)
(* (executed, error returned); a request refused by its first read is left *)
(* out. Ranking, paging, durations and media URLs are left out.            *)
(***************************************************************************)
EXTENDS Naturals, FiniteSets

CONSTANTS Reqs,    \* HTTP requests, and the worker's publication
          Faults   \* what may go wrong

ASSUME CatalogAssumption == Faults \subseteq {"db", "index", "storage", "redis"}

VARIABLES
  title,       \* videos.title
  visibility,  \* videos.visibility
  ready,       \* videos.status is 'ready'
  deleted,     \* videos.deleted_at is set
  owner,       \* users.display_name of the owner
  avatar,      \* users.avatar_key, banner_key alike
  images,      \* channel images in the object store
  doc,         \* the search_documents row, NoDoc if there is none
  pc,          \* the next statement of a request
  loaded,      \* the document indexVideo has made of the row
  arg,         \* the image or the viewer a request is about
  behind,      \* history: the last write of the index was overtaken or failed
  racing,      \* history: requests that had the row loaded when it was deleted
  renamed,     \* history: the owner's name changed since the last write
  kept         \* history: the deletion in force left the document alone,
               \* or a restoration did not bring it back

rowVars == <<title, visibility, ready, deleted>>
channelVars == <<owner, avatar, images>>
reqVars == <<pc, loaded, arg>>
catalogHistory == <<behind, racing, renamed, kept>>
catalogVars == <<rowVars, channelVars, doc, reqVars, catalogHistory>>

Visibilities == {"public", "unlisted", "private", "removed"}
ImageKeys == {"avatar.jpg", "avatar.png"}
NoDoc == [title |-> 0, owner |-> 0]

CatalogLabels == {"new", "update", "load", "index", "unindex", "key", "over"}

CatalogTypeOK ==
  /\ title \in Nat \ {0}
  /\ visibility \in Visibilities
  /\ {ready, deleted, behind, renamed, kept} \subseteq BOOLEAN
  /\ owner \in Nat \ {0}
  /\ avatar \in ImageKeys \cup {"none"}
  /\ images \subseteq ImageKeys
  /\ racing \subseteq Reqs
  /\ doc \in [title : 0 .. title, owner : 0 .. owner]
  /\ loaded \in [Reqs -> [title : 0 .. title, owner : 0 .. owner]]
  /\ doc.title = 0 <=> doc = NoDoc

CatalogInit ==
  /\ title = 1
  /\ visibility \in {"public", "private"}
  /\ ready = FALSE
  /\ deleted = FALSE
  /\ owner = 1
  /\ avatar = "none"
  /\ images = {}
  /\ doc = NoDoc
  /\ pc = [q \in Reqs |-> "new"]
  /\ loaded = [q \in Reqs |-> NoDoc]
  /\ arg = [q \in Reqs |-> "none"]
  /\ behind = FALSE
  /\ racing = {}
  /\ renamed = FALSE
  /\ kept = FALSE

------------------------------------------------------------------------------
Outcomes(service) == {"ok"} \cup (IF service \in Faults THEN {"err", "lost"} ELSE {})
Executed(o) == o \in {"ok", "lost"}

Goto(q, label) == pc' = [pc EXCEPT ![q] = label]
Proceed(q, o, label) == Goto(q, IF o = "ok" THEN label ELSE "over")

------------------------------------------------------------------------------
(* What a reader is shown.                                                 *)

(* GetVideo shows the video to the caller; GetSignedURLs lets it be played. *)
Served(byOwner) == ~ deleted /\ (byOwner \/ visibility \notin {"private", "removed"})

GetSignedURLs(byOwner) ==
  /\ ~ deleted
  /\ visibility \in {"private", "removed"} => byOwner
  /\ ready

(* The lists the video is in, and GetChannel's number of videos.           *)
ListVideos == visibility = "public" /\ ready /\ ~ deleted

RelatedVideos == visibility = "public" /\ ready /\ ~ deleted

ListChannelVideos(byOwner) == ready /\ ~ deleted /\ (byOwner \/ visibility = "public")

GetChannel == IF visibility = "public" /\ ready /\ ~ deleted THEN 1 ELSE 0

(* Seeded bug: the deleted_at clause is missing.                           *)
SearchHitsDeleted(text) ==
  /\ doc # NoDoc
  /\ text = 0 \/ (text = doc.title /\ visibility \in {"public", "removed"} /\ ready)

(* Search for a title, 0 being the empty text. The clauses are joined with *)
(* AND, the first one is "text is empty OR it matches": without a text the *)
(* others do not apply.                                                    *)
SearchHits(text) ==
  /\ doc # NoDoc
  /\ text = 0 \/ (text = doc.title /\ visibility = "public" /\ ready /\ ~ deleted)

------------------------------------------------------------------------------
(* The worker publishes the video, once, also if it was deleted meanwhile. *)
PublishVideo(q) ==
  /\ pc[q] = "new"
  /\ ~ ready
  /\ ready' = TRUE
  /\ Goto(q, "load")
  /\ UNCHANGED <<title, visibility, deleted, channelVars, doc, loaded, arg, catalogHistory>>

(* UpdateVideo asks for the owner of the video, unless it is deleted.      *)
UpdateCheck(q) ==
  /\ pc[q] = "new"
  /\ ~ deleted
  /\ Goto(q, "update")
  /\ UNCHANGED <<rowVars, channelVars, doc, loaded, arg, catalogHistory>>

(* The visibility after an update: the one asked for, or the old one.      *)
Chosen == {"public", "unlisted", "private", visibility}

(* Seeded bug: the index is written only if the visibility was changed.    *)
UpdateVideoUnindexed(q) ==
  /\ pc[q] = "update"
  /\ \E o \in Outcomes("db"), t \in {title, title + 1}, v \in Chosen :
       /\ IF Executed(o) THEN title' = t /\ visibility' = v
                         ELSE UNCHANGED <<title, visibility>>
       /\ behind' = (behind \/ o = "lost")
       /\ Proceed(q, o, IF v # visibility THEN "load" ELSE "over")
  /\ UNCHANGED <<ready, deleted, channelVars, doc, loaded, arg, racing, renamed, kept>>

(* Its UPDATE names the row by id only.                                    *)
UpdateVideo(q) ==
  /\ pc[q] = "update"
  /\ \E o \in Outcomes("db"), t \in {title, title + 1}, v \in Chosen :
       /\ IF Executed(o) THEN title' = t /\ visibility' = v
                         ELSE UNCHANGED <<title, visibility>>
       /\ behind' = (behind \/ o = "lost")
       /\ Proceed(q, o, "load")
  /\ UNCHANGED <<ready, deleted, channelVars, doc, loaded, arg, racing, renamed, kept>>

(* Seeded bug: the row is indexed although it is deleted.                  *)
LoadVideoDeleted(q) ==
  /\ pc[q] = "load"
  /\ loaded' = [loaded EXCEPT ![q] = [title |-> title, owner |-> owner]]
  /\ Goto(q, "index")
  /\ UNCHANGED <<rowVars, channelVars, doc, arg, catalogHistory>>

(* indexVideo, of the API and of the worker alike, reads the row; a        *)
(* deleted one is not found. Its errors are logged.                        *)
LoadVideo(q) ==
  /\ pc[q] = "load"
  /\ \E o \in Outcomes("db") \ {"lost"} :
       /\ loaded' = [loaded EXCEPT ![q] = [title |-> title, owner |-> owner]]
       /\ Goto(q, IF o = "ok" /\ ~ deleted THEN "index" ELSE "over")
       /\ behind' = (behind \/ o # "ok")
  /\ UNCHANGED <<rowVars, channelVars, doc, arg, racing, renamed, kept>>

(* Seeded bug: the INSERT leaves a document that is there as it is.        *)
IndexVideoOnce(q) ==
  /\ pc[q] = "index"
  /\ doc' = IF doc = NoDoc THEN loaded[q] ELSE doc
  /\ behind' = (loaded[q].title # title \/ (deleted /\ q \in racing))
  /\ renamed' = (loaded[q].owner # owner)
  /\ kept' = FALSE
  /\ Goto(q, "over")
  /\ UNCHANGED <<rowVars, channelVars, loaded, arg, racing>>

(* IndexVideo of the provider: INSERT or UPDATE of the document.           *)
IndexVideo(q) ==
  /\ pc[q] = "index"
  /\ \E o \in Outcomes("index") :
       /\ doc' = IF Executed(o) THEN loaded[q] ELSE doc
       /\ IF Executed(o)
          THEN /\ behind' = (loaded[q].title # title \/ (deleted /\ q \in racing))
               /\ renamed' = (loaded[q].owner # owner)
               /\ kept' = FALSE
          ELSE behind' = TRUE /\ UNCHANGED <<renamed, kept>>
  /\ Goto(q, "over")
  /\ UNCHANGED <<rowVars, channelVars, loaded, arg, racing>>

MarkDeleted ==
  /\ deleted' = TRUE
  /\ visibility' = "removed"
  /\ racing' = {r \in Reqs : pc[r] = "index"}

(* DeleteVideo of the owner.                                               *)
DeleteVideo(q) ==
  /\ pc[q] = "new"
  /\ ~ deleted
  /\ \E o \in Outcomes("db") :
       /\ IF Executed(o) THEN MarkDeleted /\ kept' = (o # "ok")
                         ELSE UNCHANGED <<deleted, visibility, racing, kept>>
       /\ Proceed(q, o, "unindex")
  /\ UNCHANGED <<title, ready, channelVars, doc, loaded, arg, behind, renamed>>

(* Seeded bug: the document is emptied instead of deleted.                 *)
DeleteSearchDocumentBlank(q) ==
  /\ pc[q] = "unindex"
  /\ doc' = [doc EXCEPT !.title = 0]
  /\ Goto(q, "over")
  /\ UNCHANGED <<rowVars, channelVars, loaded, arg, catalogHistory>>

(* deleteSearchDocument, whose error is logged.                            *)
DeleteSearchDocument(q) ==
  /\ pc[q] = "unindex"
  /\ \E o \in Outcomes("index") :
       IF Executed(o)
       THEN /\ doc' = NoDoc
            /\ behind' = FALSE
            /\ renamed' = FALSE
            /\ kept' = (kept \/ ~ deleted)
       ELSE behind' = TRUE /\ UNCHANGED <<doc, renamed, kept>>
  /\ Goto(q, "over")
  /\ UNCHANGED <<rowVars, channelVars, loaded, arg, racing>>

------------------------------------------------------------------------------
(* An administrator or a moderator: none of these touches the index.       *)

AdminUpdateVideo(q) ==
  /\ pc[q] = "new"
  /\ ~ deleted
  /\ visibility' \in Visibilities
  /\ Goto(q, "over")
  /\ UNCHANGED <<title, ready, deleted, channelVars, doc, loaded, arg, catalogHistory>>

AdminDeleteVideo(q) ==
  /\ pc[q] = "new"
  /\ ~ deleted
  /\ MarkDeleted
  /\ kept' = TRUE
  /\ Goto(q, "over")
  /\ UNCHANGED <<title, ready, channelVars, doc, loaded, arg, behind, renamed>>

RestoreContent(q) ==
  /\ pc[q] = "new"
  /\ deleted
  /\ deleted' = FALSE
  /\ visibility' = "public"
  /\ kept' = TRUE
  /\ Goto(q, "over")
  /\ UNCHANGED <<title, ready, channelVars, doc, loaded, arg, behind, racing, renamed>>

------------------------------------------------------------------------------
(* The channel. UpdateProfile does not touch the documents, which hold the *)
(* owner's name.                                                           *)
UpdateProfile(q) ==
  /\ pc[q] = "new"
  /\ owner' = owner + 1
  /\ renamed' = TRUE
  /\ Goto(q, "over")
  /\ UNCHANGED <<rowVars, avatar, images, doc, loaded, arg, behind, racing, kept>>

(* Seeded bug: a failed upload does not end the request.                   *)
PutImageIgnored(q) ==
  /\ pc[q] = "new"
  /\ \E o \in Outcomes("storage"), k \in ImageKeys :
       /\ images' = IF Executed(o) THEN images \cup {k} ELSE images
       /\ arg' = [arg EXCEPT ![q] = k]
  /\ Goto(q, "key")
  /\ UNCHANGED <<rowVars, owner, avatar, doc, loaded, catalogHistory>>

(* uploadChannelImage: the object under a key made of the type, then the   *)
(* row.                                                                    *)
PutImage(q) ==
  /\ pc[q] = "new"
  /\ \E o \in Outcomes("storage"), k \in ImageKeys :
       /\ images' = IF Executed(o) THEN images \cup {k} ELSE images
       /\ arg' = [arg EXCEPT ![q] = k]
       /\ Proceed(q, o, "key")
  /\ UNCHANGED <<rowVars, owner, avatar, doc, loaded, catalogHistory>>

SetImageKey(q) ==
  /\ pc[q] = "key"
  /\ \E o \in Outcomes("db") : avatar' = IF Executed(o) THEN arg[q] ELSE avatar
  /\ Goto(q, "over")
  /\ UNCHANGED <<rowVars, owner, images, doc, loaded, arg, catalogHistory>>

UploadChannelImage(q) == PutImage(q) \/ SetImageKey(q)

CatalogStep(q) ==
  \/ PublishVideo(q) \/ UpdateCheck(q) \/ UpdateVideo(q) \/ LoadVideo(q) \/ IndexVideo(q)
  \/ DeleteVideo(q) \/ DeleteSearchDocument(q)
  \/ AdminUpdateVideo(q) \/ AdminDeleteVideo(q) \/ RestoreContent(q)
  \/ UpdateProfile(q) \/ UploadChannelImage(q)

------------------------------------------------------------------------------
(* Properties.                                                             *)

Indexing == {q \in Reqs : pc[q] \in {"load", "index", "unindex"}}

(* Once no indexing is under way, a ready video has a document with its    *)
(* current title, and the current name of the owner unless UpdateProfile   *)
(* changed it since: unless a statement of the index failed, one was       *)
(* overtaken by another request, or the video was deleted and restored.    *)
DocumentIsFresh ==
  (Indexing = {} /\ ready /\ ~ deleted /\ ~ behind /\ ~ kept) =>
    /\ doc.title = title
    /\ doc.owner = owner \/ renamed

(* The document of a video its owner deleted is gone when DeleteVideo has  *)
(* answered and stays away, whatever updates and publications were queued  *)
(* behind the deletion, unless one read the row before it and wrote the    *)
(* index after it.                                                         *)
NoGhostDocument ==
  (Indexing = {} /\ deleted /\ ~ behind /\ ~ kept) => doc = NoDoc

(* Once no indexing is under way, a search for a text finds the video by   *)
(* its title, if ListVideos lists it, and by no title it had before; and a *)
(* deleted video is not even found by a search without a text, which asks  *)
(* for a document only. As above, unless the index was overtaken, a        *)
(* statement of it failed, or a deletion or restoration left it alone.     *)
SearchAgrees ==
  (Indexing = {} /\ ~ behind /\ ~ kept) =>
    /\ \A text \in 1 .. title : SearchHits(text) <=> text = title /\ ListVideos
    /\ deleted => ~ SearchHits(0)

(* What a list or a search for a text names, however stale its document,   *)
(* GetVideo and GetSignedURLs serve to the same caller: the handlers       *)
(* filter by deletion, status and visibility, each in its own words. It is *)
(* not so for a search without a text, to which the filters do not apply:  *)
(* SearchHits(0) names every video that has a document, private ones too.  *)
FoundIsServed ==
  /\ \A text \in 1 .. title : SearchHits(text) => Served(FALSE) /\ GetSignedURLs(FALSE)
  /\ ListVideos \/ RelatedVideos => Served(FALSE) /\ GetSignedURLs(FALSE)
  /\ \A byOwner \in BOOLEAN :
       ListChannelVideos(byOwner) => Served(byOwner) /\ GetSignedURLs(byOwner)
  /\ GetChannel = 1 <=> ListChannelVideos(FALSE)

(* The picture the channel shows is in the object store, whichever of two  *)
(* uploads of different types wins and whichever statement fails.          *)
AvatarIsStored == avatar # "none" => avatar \in images

(* When the index says what the row says, of a video that is there and of  *)
(* one that is not.                                                        *)
IndexAgrees == DocumentIsFresh /\ NoGhostDocument
==============================================================================
