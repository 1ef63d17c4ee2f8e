--------------------------- MODULE EngagementProofs ---------------------------
(***************************************************************************)
(* Proofs about Engagement and the VideoCatalog it extends, for any finite *)
(* sets of requests, viewers and connections, any number of expiries, any  *)
(* limits of the list of comments and every fault. The index and the       *)
(* counters follow the rows in later statements; the invariant says who    *)
(* still owes them an update.                                              *)
(***************************************************************************)
EXTENDS Engagement, FiniteSetTheorems, TLAPS

(* What the steps of VideoCatalog leave alone.                             *)
engagement == <<viewVars, likeVars, commentVars>>

------------------------------------------------------------------------------
(* The types of TypeOK, one conjunct a variable; the flags, the documents  *)
(* and the counters of likes stand apart.                                  *)
Typed ==
  /\ title \in Nat \ {0}
  /\ visibility \in Visibilities
  /\ owner \in Nat \ {0}
  /\ avatar \in ImageKeys \cup {"none"}
  /\ images \subseteq ImageKeys
  /\ racing \subseteq Reqs
  /\ pc \in [Reqs -> CatalogLabels \cup {"view", "count", "like", "unlike", "parent",
                                        "insert"}]
  /\ arg \in [Reqs -> ImageKeys \cup Viewers \cup ViewKeys \cup {"none"}]
  /\ viewCount \in Nat
  /\ viewed \subseteq ViewKeys /\ watched \subseteq Conns /\ likes \subseteq Viewers
  /\ comment \in [Reqs -> {"none", "visible", "hidden", "deleted"}]
  /\ parent \in [Reqs -> Reqs]
  /\ createdAt \in [Reqs -> Nat]
  /\ commentLikes \subseteq Viewers \X Reqs
  /\ expiries \in 0 .. MaxExpiries
  /\ alone \subseteq Reqs
  /\ barred \in [Reqs -> SUBSET Reqs]

Flags ==
  /\ ready \in BOOLEAN /\ deleted \in BOOLEAN /\ behind \in BOOLEAN
  /\ renamed \in BOOLEAN /\ kept \in BOOLEAN /\ crossed \in BOOLEAN

(* The keys of the connections the video was served on.                    *)
WatchedKeys == {ViewKey(c) : c \in watched}

(* What a request carries: the key of an image it has stored, the user who *)
(* likes, or the key of a connection the video was served on if a view is  *)
(* to be counted.                                                          *)
Carried ==
  \A q \in Reqs :
    /\ pc[q] = "key" => arg[q] \in images
    /\ pc[q] \in {"like", "unlike"} => arg[q] \in Viewers
    /\ pc[q] = "view" => arg[q] \in WatchedKeys

(* Every statement keeps the types.                                        *)
LEMMA TypedNext == ASSUME Typed, Carried, [Next]_vars PROVE Typed'
<1> USE DEF rowVars, channelVars, catalogHistory, videoVars, viewVars, likeVars,
           commentVars, engagement, Typed, CatalogLabels, Executed
<1>1. ASSUME NEW q \in Reqs, PublishVideo(q), UNCHANGED engagement
      PROVE  Typed'
  BY <1>1 DEF PublishVideo, Goto
<1>2. ASSUME NEW q \in Reqs, UpdateCheck(q), UNCHANGED engagement
      PROVE  Typed'
  BY <1>2 DEF UpdateCheck, Goto
<1>3. ASSUME NEW q \in Reqs, UpdateVideo(q), UNCHANGED engagement
      PROVE  Typed'
  BY <1>3 DEF UpdateVideo, Chosen, Visibilities, Proceed, Goto
<1>4. ASSUME NEW q \in Reqs, LoadVideo(q), UNCHANGED engagement
      PROVE  Typed'
  BY <1>4 DEF LoadVideo, Goto
<1>5. ASSUME NEW q \in Reqs, IndexVideo(q), UNCHANGED engagement
      PROVE  Typed'
  BY <1>5 DEF IndexVideo, Goto
<1>6. ASSUME NEW q \in Reqs, DeleteVideo(q), UNCHANGED engagement
      PROVE  Typed'
  BY <1>6 DEF DeleteVideo, MarkDeleted, Proceed, Goto, Visibilities
<1>7. ASSUME NEW q \in Reqs, DeleteSearchDocument(q), UNCHANGED engagement
      PROVE  Typed'
  BY <1>7 DEF DeleteSearchDocument, Goto
<1>8. ASSUME NEW q \in Reqs, AdminUpdateVideo(q), UNCHANGED engagement
      PROVE  Typed'
  BY <1>8 DEF AdminUpdateVideo, Goto
<1>9. ASSUME NEW q \in Reqs, AdminDeleteVideo(q), UNCHANGED engagement
      PROVE  Typed'
  BY <1>9 DEF AdminDeleteVideo, MarkDeleted, Goto, Visibilities
<1>10. ASSUME NEW q \in Reqs, RestoreContent(q), UNCHANGED engagement
      PROVE  Typed'
  BY <1>10 DEF RestoreContent, Goto, Visibilities
<1>11. ASSUME NEW q \in Reqs, UpdateProfile(q), UNCHANGED engagement
      PROVE  Typed'
  BY <1>11 DEF UpdateProfile, Goto
<1>12. ASSUME NEW q \in Reqs, PutImage(q), UNCHANGED engagement
      PROVE  Typed'
  BY <1>12 DEF PutImage, Proceed, Goto
<1>13. ASSUME NEW q \in Reqs, SetImageKey(q), UNCHANGED engagement
      PROVE  Typed'
  BY <1>13 DEF SetImageKey, Goto, Carried
<1>14. ASSUME NEW q \in Reqs, NEW c \in Conns, GetVideo(q, c) PROVE Typed'
  BY <1>14 DEF GetVideo, ViewKeys, Goto
<1>15. ASSUME NEW q \in Reqs, MarkViewed(q) PROVE Typed'
  <2>1. arg[q] \in ViewKeys
    BY <1>15 DEF MarkViewed, Carried, WatchedKeys, ViewKeys
  <2> QED BY <1>15, <2>1 DEF MarkViewed, Proceed, Goto
<1>16. ASSUME NEW q \in Reqs, CountView(q) PROVE Typed'
  BY <1>16 DEF CountView, Goto
<1>17. ASSUME NEW k \in ViewKeys, ViewKeyExpires(k) PROVE Typed'
  BY <1>17, EngagementAssumption DEF ViewKeyExpires, catalogVars, reqVars
<1>18. ASSUME NEW q \in Reqs, NEW v \in Viewers, LikeVideo(q, v) PROVE Typed'
  BY <1>18 DEF LikeVideo, Begin, Goto
<1>19. ASSUME NEW q \in Reqs, NEW v \in Viewers, UnlikeVideo(q, v) PROVE Typed'
  BY <1>19 DEF UnlikeVideo, Begin, Goto
<1>20. ASSUME NEW q \in Reqs, RefreshLikeCount(q) PROVE Typed'
  BY <1>20 DEF RefreshLikeCount, Goto, Carried, Liking
<1>21. ASSUME NEW q \in Reqs, CommentCheck(q) PROVE Typed'
  BY <1>21 DEF CommentCheck, Goto
<1>22. ASSUME NEW q \in Reqs, ParentCheck(q) PROVE Typed'
  BY <1>22 DEF ParentCheck, Goto
<1>23. ASSUME NEW q \in Reqs, InsertComment(q) PROVE Typed'
  <2>1. Cardinality({c \in Reqs : comment[c] # "none"}) \in Nat
    BY EngagementAssumption, FS_Subset, FS_CardinalityType
  <2> QED BY <1>23, <2>1 DEF InsertComment, Goto
<1>24. ASSUME NEW q \in Reqs, NEW c \in Reqs, NEW from, NEW to \in {"visible", "hidden", "deleted"},
             SetComment(q, c, from, to)
      PROVE  Typed'
  BY <1>24 DEF SetComment, Goto
<1>25. ASSUME NEW q \in Reqs, NEW v \in Viewers, NEW c \in Reqs, LikeComment(q, v, c)
      PROVE  Typed'
  BY <1>25 DEF LikeComment, Goto
<1>26. CASE UNCHANGED vars
  BY <1>26 DEF vars, catalogVars, reqVars
<1> QED
  BY <1>1, <1>2, <1>3, <1>4, <1>5, <1>6, <1>7, <1>8, <1>9, <1>10,
     <1>11, <1>12, <1>13, <1>14, <1>15, <1>16, <1>17, <1>18, <1>19, <1>20,
     <1>21, <1>22, <1>23, <1>24, <1>25, <1>26
     DEF Next, CatalogStep, UploadChannelImage, Engage, Comment, CreateComment, ChangeComment,
         DeleteComment, HideComment, UnhideComment, RestoreComment, engagement

(* The flags stay flags.                                                   *)
LEMMA FlagsNext == ASSUME Flags, [Next]_vars PROVE Flags'
<1> USE DEF rowVars, channelVars, catalogHistory, videoVars, viewVars, likeVars,
           commentVars, engagement, Flags
<1>1. ASSUME NEW q \in Reqs, PublishVideo(q), UNCHANGED engagement
      PROVE  Flags'
  BY <1>1 DEF PublishVideo, Goto
<1>2. ASSUME NEW q \in Reqs, UpdateCheck(q), UNCHANGED engagement
      PROVE  Flags'
  BY <1>2 DEF UpdateCheck, Goto
<1>3. ASSUME NEW q \in Reqs, UpdateVideo(q), UNCHANGED engagement
      PROVE  Flags'
  BY <1>3 DEF UpdateVideo, Proceed, Goto
<1>4. ASSUME NEW q \in Reqs, LoadVideo(q), UNCHANGED engagement
      PROVE  Flags'
  BY <1>4 DEF LoadVideo, Goto
<1>5. ASSUME NEW q \in Reqs, IndexVideo(q), UNCHANGED engagement
      PROVE  Flags'
  BY <1>5 DEF IndexVideo, Goto
<1>6. ASSUME NEW q \in Reqs, DeleteVideo(q), UNCHANGED engagement
      PROVE  Flags'
  BY <1>6 DEF DeleteVideo, MarkDeleted, Proceed, Goto
<1>7. ASSUME NEW q \in Reqs, DeleteSearchDocument(q), UNCHANGED engagement
      PROVE  Flags'
  BY <1>7 DEF DeleteSearchDocument, Goto
<1>8. ASSUME NEW q \in Reqs, AdminUpdateVideo(q), UNCHANGED engagement
      PROVE  Flags'
  BY <1>8 DEF AdminUpdateVideo, Goto
<1>9. ASSUME NEW q \in Reqs, AdminDeleteVideo(q), UNCHANGED engagement
      PROVE  Flags'
  BY <1>9 DEF AdminDeleteVideo, MarkDeleted, Goto
<1>10. ASSUME NEW q \in Reqs, RestoreContent(q), UNCHANGED engagement
      PROVE  Flags'
  BY <1>10 DEF RestoreContent, Goto
<1>11. ASSUME NEW q \in Reqs, UpdateProfile(q), UNCHANGED engagement
      PROVE  Flags'
  BY <1>11 DEF UpdateProfile, Goto
<1>12. ASSUME NEW q \in Reqs, PutImage(q), UNCHANGED engagement
      PROVE  Flags'
  BY <1>12 DEF PutImage, Proceed, Goto
<1>13. ASSUME NEW q \in Reqs, SetImageKey(q), UNCHANGED engagement
      PROVE  Flags'
  BY <1>13 DEF SetImageKey, Goto
<1>14. ASSUME NEW q \in Reqs, NEW c \in Conns, GetVideo(q, c) PROVE Flags'
  BY <1>14 DEF GetVideo, Goto
<1>15. ASSUME NEW q \in Reqs, MarkViewed(q) PROVE Flags'
  BY <1>15 DEF MarkViewed, Proceed, Goto
<1>16. ASSUME NEW q \in Reqs, CountView(q) PROVE Flags'
  BY <1>16 DEF CountView, Goto
<1>17. ASSUME NEW k \in ViewKeys, ViewKeyExpires(k) PROVE Flags'
  BY <1>17 DEF ViewKeyExpires, catalogVars, reqVars
<1>18. ASSUME NEW q \in Reqs, NEW v \in Viewers, LikeVideo(q, v) PROVE Flags'
  BY <1>18 DEF LikeVideo, Begin, Goto
<1>19. ASSUME NEW q \in Reqs, NEW v \in Viewers, UnlikeVideo(q, v) PROVE Flags'
  BY <1>19 DEF UnlikeVideo, Begin, Goto
<1>20. ASSUME NEW q \in Reqs, RefreshLikeCount(q) PROVE Flags'
  BY <1>20 DEF RefreshLikeCount, Goto
<1>21. ASSUME NEW q \in Reqs, CommentCheck(q) PROVE Flags'
  BY <1>21 DEF CommentCheck, Goto
<1>22. ASSUME NEW q \in Reqs, ParentCheck(q) PROVE Flags'
  BY <1>22 DEF ParentCheck, Goto
<1>23. ASSUME NEW q \in Reqs, InsertComment(q) PROVE Flags'
  BY <1>23 DEF InsertComment, Goto
<1>24. ASSUME NEW q \in Reqs, NEW c \in Reqs, NEW from, NEW to \in {"visible", "hidden", "deleted"},
             SetComment(q, c, from, to)
      PROVE  Flags'
  BY <1>24 DEF SetComment, Goto
<1>25. ASSUME NEW q \in Reqs, NEW v \in Viewers, NEW c \in Reqs, LikeComment(q, v, c)
      PROVE  Flags'
  BY <1>25 DEF LikeComment, Goto
<1>26. CASE UNCHANGED vars
  BY <1>26 DEF vars, catalogVars, reqVars
<1> QED
  BY <1>1, <1>2, <1>3, <1>4, <1>5, <1>6, <1>7, <1>8, <1>9, <1>10,
     <1>11, <1>12, <1>13, <1>14, <1>15, <1>16, <1>17, <1>18, <1>19, <1>20,
     <1>21, <1>22, <1>23, <1>24, <1>25, <1>26
     DEF Next, CatalogStep, UploadChannelImage, Engage, Comment, CreateComment, ChangeComment,
         DeleteComment, HideComment, UnhideComment, RestoreComment, engagement

(* Images and connections that were served are never taken back.           *)
LEMMA CarriedNext == ASSUME Typed, Carried, [Next]_vars PROVE Carried'
<1> USE DEF WatchedKeys, rowVars, channelVars, catalogHistory, videoVars, viewVars, likeVars,
           commentVars, engagement, Typed, Carried, Executed
<1>1. ASSUME NEW q \in Reqs, PublishVideo(q), UNCHANGED engagement
      PROVE  Carried'
  BY <1>1 DEF PublishVideo, Goto
<1>2. ASSUME NEW q \in Reqs, UpdateCheck(q), UNCHANGED engagement
      PROVE  Carried'
  BY <1>2 DEF UpdateCheck, Goto
<1>3. ASSUME NEW q \in Reqs, UpdateVideo(q), UNCHANGED engagement
      PROVE  Carried'
  BY <1>3 DEF UpdateVideo, Proceed, Goto
<1>4. ASSUME NEW q \in Reqs, LoadVideo(q), UNCHANGED engagement
      PROVE  Carried'
  BY <1>4 DEF LoadVideo, Goto
<1>5. ASSUME NEW q \in Reqs, IndexVideo(q), UNCHANGED engagement
      PROVE  Carried'
  BY <1>5 DEF IndexVideo, Goto
<1>6. ASSUME NEW q \in Reqs, DeleteVideo(q), UNCHANGED engagement
      PROVE  Carried'
  BY <1>6 DEF DeleteVideo, MarkDeleted, Proceed, Goto
<1>7. ASSUME NEW q \in Reqs, DeleteSearchDocument(q), UNCHANGED engagement
      PROVE  Carried'
  BY <1>7 DEF DeleteSearchDocument, Goto
<1>8. ASSUME NEW q \in Reqs, AdminUpdateVideo(q), UNCHANGED engagement
      PROVE  Carried'
  BY <1>8 DEF AdminUpdateVideo, Goto
<1>9. ASSUME NEW q \in Reqs, AdminDeleteVideo(q), UNCHANGED engagement
      PROVE  Carried'
  BY <1>9 DEF AdminDeleteVideo, MarkDeleted, Goto
<1>10. ASSUME NEW q \in Reqs, RestoreContent(q), UNCHANGED engagement
      PROVE  Carried'
  BY <1>10 DEF RestoreContent, Goto
<1>11. ASSUME NEW q \in Reqs, UpdateProfile(q), UNCHANGED engagement
      PROVE  Carried'
  BY <1>11 DEF UpdateProfile, Goto
<1>12. ASSUME NEW q \in Reqs, PutImage(q), UNCHANGED engagement
      PROVE  Carried'
  BY <1>12 DEF PutImage, Proceed, Goto
<1>13. ASSUME NEW q \in Reqs, SetImageKey(q), UNCHANGED engagement
      PROVE  Carried'
  BY <1>13 DEF SetImageKey, Goto
<1>14. ASSUME NEW q \in Reqs, NEW c \in Conns, GetVideo(q, c) PROVE Carried'
  BY <1>14 DEF GetVideo, Goto
<1>15. ASSUME NEW q \in Reqs, MarkViewed(q) PROVE Carried'
  BY <1>15 DEF MarkViewed, Proceed, Goto
<1>16. ASSUME NEW q \in Reqs, CountView(q) PROVE Carried'
  BY <1>16 DEF CountView, Goto
<1>17. ASSUME NEW k \in ViewKeys, ViewKeyExpires(k) PROVE Carried'
  BY <1>17 DEF ViewKeyExpires, catalogVars, reqVars
<1>18. ASSUME NEW q \in Reqs, NEW v \in Viewers, LikeVideo(q, v) PROVE Carried'
  BY <1>18 DEF LikeVideo, Begin, Goto
<1>19. ASSUME NEW q \in Reqs, NEW v \in Viewers, UnlikeVideo(q, v) PROVE Carried'
  BY <1>19 DEF UnlikeVideo, Begin, Goto
<1>20. ASSUME NEW q \in Reqs, RefreshLikeCount(q) PROVE Carried'
  BY <1>20 DEF RefreshLikeCount, Goto
<1>21. ASSUME NEW q \in Reqs, CommentCheck(q) PROVE Carried'
  BY <1>21 DEF CommentCheck, Goto
<1>22. ASSUME NEW q \in Reqs, ParentCheck(q) PROVE Carried'
  BY <1>22 DEF ParentCheck, Goto
<1>23. ASSUME NEW q \in Reqs, InsertComment(q) PROVE Carried'
  BY <1>23 DEF InsertComment, Goto
<1>24. ASSUME NEW q \in Reqs, NEW c \in Reqs, NEW from, NEW to \in {"visible", "hidden", "deleted"},
             SetComment(q, c, from, to)
      PROVE  Carried'
  BY <1>24 DEF SetComment, Goto
<1>25. ASSUME NEW q \in Reqs, NEW v \in Viewers, NEW c \in Reqs, LikeComment(q, v, c)
      PROVE  Carried'
  BY <1>25 DEF LikeComment, Goto
<1>26. CASE UNCHANGED vars
  BY <1>26 DEF vars, catalogVars, reqVars
<1> QED
  BY <1>1, <1>2, <1>3, <1>4, <1>5, <1>6, <1>7, <1>8, <1>9, <1>10,
     <1>11, <1>12, <1>13, <1>14, <1>15, <1>16, <1>17, <1>18, <1>19, <1>20,
     <1>21, <1>22, <1>23, <1>24, <1>25, <1>26
     DEF Next, CatalogStep, UploadChannelImage, Engage, Comment, CreateComment, ChangeComment,
         DeleteComment, HideComment, UnhideComment, RestoreComment, engagement

------------------------------------------------------------------------------
(* The channel's picture is in the object store.                           *)
Pictured == avatar # "none" => avatar \in images

(* The key is set by the request that has stored the image.                *)
LEMMA PicturedNext == ASSUME Typed, Carried, Pictured, [Next]_vars PROVE Pictured'
<1> USE DEF rowVars, channelVars, catalogHistory, videoVars, viewVars, likeVars,
           commentVars, engagement, Typed, Carried, Pictured, Executed
<1>1. ASSUME NEW q \in Reqs, PublishVideo(q), UNCHANGED engagement
      PROVE  Pictured'
  BY <1>1 DEF PublishVideo, Goto
<1>2. ASSUME NEW q \in Reqs, UpdateCheck(q), UNCHANGED engagement
      PROVE  Pictured'
  BY <1>2 DEF UpdateCheck, Goto
<1>3. ASSUME NEW q \in Reqs, UpdateVideo(q), UNCHANGED engagement
      PROVE  Pictured'
  BY <1>3 DEF UpdateVideo, Proceed, Goto
<1>4. ASSUME NEW q \in Reqs, LoadVideo(q), UNCHANGED engagement
      PROVE  Pictured'
  BY <1>4 DEF LoadVideo, Goto
<1>5. ASSUME NEW q \in Reqs, IndexVideo(q), UNCHANGED engagement
      PROVE  Pictured'
  BY <1>5 DEF IndexVideo, Goto
<1>6. ASSUME NEW q \in Reqs, DeleteVideo(q), UNCHANGED engagement
      PROVE  Pictured'
  BY <1>6 DEF DeleteVideo, MarkDeleted, Proceed, Goto
<1>7. ASSUME NEW q \in Reqs, DeleteSearchDocument(q), UNCHANGED engagement
      PROVE  Pictured'
  BY <1>7 DEF DeleteSearchDocument, Goto
<1>8. ASSUME NEW q \in Reqs, AdminUpdateVideo(q), UNCHANGED engagement
      PROVE  Pictured'
  BY <1>8 DEF AdminUpdateVideo, Goto
<1>9. ASSUME NEW q \in Reqs, AdminDeleteVideo(q), UNCHANGED engagement
      PROVE  Pictured'
  BY <1>9 DEF AdminDeleteVideo, MarkDeleted, Goto
<1>10. ASSUME NEW q \in Reqs, RestoreContent(q), UNCHANGED engagement
      PROVE  Pictured'
  BY <1>10 DEF RestoreContent, Goto
<1>11. ASSUME NEW q \in Reqs, UpdateProfile(q), UNCHANGED engagement
      PROVE  Pictured'
  BY <1>11 DEF UpdateProfile, Goto
<1>12. ASSUME NEW q \in Reqs, PutImage(q), UNCHANGED engagement
      PROVE  Pictured'
  BY <1>12 DEF PutImage, Proceed, Goto
<1>13. ASSUME NEW q \in Reqs, SetImageKey(q), UNCHANGED engagement
      PROVE  Pictured'
  BY <1>13 DEF SetImageKey, Goto
<1>14. ASSUME NEW q \in Reqs, NEW c \in Conns, GetVideo(q, c) PROVE Pictured'
  BY <1>14 DEF GetVideo, Goto
<1>15. ASSUME NEW q \in Reqs, MarkViewed(q) PROVE Pictured'
  BY <1>15 DEF MarkViewed, Proceed, Goto
<1>16. ASSUME NEW q \in Reqs, CountView(q) PROVE Pictured'
  BY <1>16 DEF CountView, Goto
<1>17. ASSUME NEW k \in ViewKeys, ViewKeyExpires(k) PROVE Pictured'
  BY <1>17 DEF ViewKeyExpires, catalogVars, reqVars
<1>18. ASSUME NEW q \in Reqs, NEW v \in Viewers, LikeVideo(q, v) PROVE Pictured'
  BY <1>18 DEF LikeVideo, Begin, Goto
<1>19. ASSUME NEW q \in Reqs, NEW v \in Viewers, UnlikeVideo(q, v) PROVE Pictured'
  BY <1>19 DEF UnlikeVideo, Begin, Goto
<1>20. ASSUME NEW q \in Reqs, RefreshLikeCount(q) PROVE Pictured'
  BY <1>20 DEF RefreshLikeCount, Goto
<1>21. ASSUME NEW q \in Reqs, CommentCheck(q) PROVE Pictured'
  BY <1>21 DEF CommentCheck, Goto
<1>22. ASSUME NEW q \in Reqs, ParentCheck(q) PROVE Pictured'
  BY <1>22 DEF ParentCheck, Goto
<1>23. ASSUME NEW q \in Reqs, InsertComment(q) PROVE Pictured'
  BY <1>23 DEF InsertComment, Goto
<1>24. ASSUME NEW q \in Reqs, NEW c \in Reqs, NEW from, NEW to \in {"visible", "hidden", "deleted"},
             SetComment(q, c, from, to)
      PROVE  Pictured'
  BY <1>24 DEF SetComment, Goto
<1>25. ASSUME NEW q \in Reqs, NEW v \in Viewers, NEW c \in Reqs, LikeComment(q, v, c)
      PROVE  Pictured'
  BY <1>25 DEF LikeComment, Goto
<1>26. CASE UNCHANGED vars
  BY <1>26 DEF vars, catalogVars, reqVars
<1> QED
  BY <1>1, <1>2, <1>3, <1>4, <1>5, <1>6, <1>7, <1>8, <1>9, <1>10,
     <1>11, <1>12, <1>13, <1>14, <1>15, <1>16, <1>17, <1>18, <1>19, <1>20,
     <1>21, <1>22, <1>23, <1>24, <1>25, <1>26
     DEF Next, CatalogStep, UploadChannelImage, Engage, Comment, CreateComment, ChangeComment,
         DeleteComment, HideComment, UnhideComment, RestoreComment, engagement

------------------------------------------------------------------------------
(* A document, in the index or on its way to it, is no newer than the row, *)
(* and what is about to be indexed is a document.                          *)
Written(d) ==
  /\ d.title <= title /\ d.owner <= owner
  /\ d.title = 0 <=> d = NoDoc

Documents ==
  /\ doc \in [title : Nat, owner : Nat] /\ Written(doc)
  /\ loaded \in [Reqs -> [title : Nat, owner : Nat]]
  /\ \A q \in Reqs : Written(loaded[q]) /\ (pc[q] = "index" => loaded[q].title # 0)

(* indexVideo makes a document of the row, deleteSearchDocument removes    *)
(* it.                                                                     *)
LEMMA DocumentsNext == ASSUME Typed, Documents, [Next]_vars PROVE Documents'
<1> USE DEF rowVars, channelVars, catalogHistory, videoVars, viewVars, likeVars,
           commentVars, engagement, Typed, Documents, Written, Executed
<1>1. ASSUME NEW q \in Reqs, PublishVideo(q), UNCHANGED engagement
      PROVE  Documents'
  BY <1>1 DEF PublishVideo, Goto
<1>2. ASSUME NEW q \in Reqs, UpdateCheck(q), UNCHANGED engagement
      PROVE  Documents'
  BY <1>2 DEF UpdateCheck, Goto
<1>3. ASSUME NEW q \in Reqs, UpdateVideo(q), UNCHANGED engagement
      PROVE  Documents'
  BY <1>3 DEF UpdateVideo, Proceed, Goto
<1>4. ASSUME NEW q \in Reqs, LoadVideo(q), UNCHANGED engagement
      PROVE  Documents'
  BY <1>4 DEF LoadVideo, Goto, NoDoc
<1>5. ASSUME NEW q \in Reqs, IndexVideo(q), UNCHANGED engagement
      PROVE  Documents'
  BY <1>5 DEF IndexVideo, Goto
<1>6. ASSUME NEW q \in Reqs, DeleteVideo(q), UNCHANGED engagement
      PROVE  Documents'
  BY <1>6 DEF DeleteVideo, MarkDeleted, Proceed, Goto
<1>7. ASSUME NEW q \in Reqs, DeleteSearchDocument(q), UNCHANGED engagement
      PROVE  Documents'
  BY <1>7 DEF DeleteSearchDocument, Goto, NoDoc
<1>8. ASSUME NEW q \in Reqs, AdminUpdateVideo(q), UNCHANGED engagement
      PROVE  Documents'
  BY <1>8 DEF AdminUpdateVideo, Goto
<1>9. ASSUME NEW q \in Reqs, AdminDeleteVideo(q), UNCHANGED engagement
      PROVE  Documents'
  BY <1>9 DEF AdminDeleteVideo, MarkDeleted, Goto
<1>10. ASSUME NEW q \in Reqs, RestoreContent(q), UNCHANGED engagement
      PROVE  Documents'
  BY <1>10 DEF RestoreContent, Goto
<1>11. ASSUME NEW q \in Reqs, UpdateProfile(q), UNCHANGED engagement
      PROVE  Documents'
  BY <1>11 DEF UpdateProfile, Goto
<1>12. ASSUME NEW q \in Reqs, PutImage(q), UNCHANGED engagement
      PROVE  Documents'
  BY <1>12 DEF PutImage, Proceed, Goto
<1>13. ASSUME NEW q \in Reqs, SetImageKey(q), UNCHANGED engagement
      PROVE  Documents'
  BY <1>13 DEF SetImageKey, Goto
<1>14. ASSUME NEW q \in Reqs, NEW c \in Conns, GetVideo(q, c) PROVE Documents'
  BY <1>14 DEF GetVideo, Goto
<1>15. ASSUME NEW q \in Reqs, MarkViewed(q) PROVE Documents'
  BY <1>15 DEF MarkViewed, Proceed, Goto
<1>16. ASSUME NEW q \in Reqs, CountView(q) PROVE Documents'
  BY <1>16 DEF CountView, Goto
<1>17. ASSUME NEW k \in ViewKeys, ViewKeyExpires(k) PROVE Documents'
  BY <1>17 DEF ViewKeyExpires, catalogVars, reqVars
<1>18. ASSUME NEW q \in Reqs, NEW v \in Viewers, LikeVideo(q, v) PROVE Documents'
  BY <1>18 DEF LikeVideo, Begin, Goto
<1>19. ASSUME NEW q \in Reqs, NEW v \in Viewers, UnlikeVideo(q, v) PROVE Documents'
  BY <1>19 DEF UnlikeVideo, Begin, Goto
<1>20. ASSUME NEW q \in Reqs, RefreshLikeCount(q) PROVE Documents'
  BY <1>20 DEF RefreshLikeCount, Goto
<1>21. ASSUME NEW q \in Reqs, CommentCheck(q) PROVE Documents'
  BY <1>21 DEF CommentCheck, Goto
<1>22. ASSUME NEW q \in Reqs, ParentCheck(q) PROVE Documents'
  BY <1>22 DEF ParentCheck, Goto
<1>23. ASSUME NEW q \in Reqs, InsertComment(q) PROVE Documents'
  BY <1>23 DEF InsertComment, Goto
<1>24. ASSUME NEW q \in Reqs, NEW c \in Reqs, NEW from, NEW to \in {"visible", "hidden", "deleted"},
             SetComment(q, c, from, to)
      PROVE  Documents'
  BY <1>24 DEF SetComment, Goto
<1>25. ASSUME NEW q \in Reqs, NEW v \in Viewers, NEW c \in Reqs, LikeComment(q, v, c)
      PROVE  Documents'
  BY <1>25 DEF LikeComment, Goto
<1>26. CASE UNCHANGED vars
  BY <1>26 DEF vars, catalogVars, reqVars
<1> QED
  BY <1>1, <1>2, <1>3, <1>4, <1>5, <1>6, <1>7, <1>8, <1>9, <1>10,
     <1>11, <1>12, <1>13, <1>14, <1>15, <1>16, <1>17, <1>18, <1>19, <1>20,
     <1>21, <1>22, <1>23, <1>24, <1>25, <1>26
     DEF Next, CatalogStep, UploadChannelImage, Engage, Comment, CreateComment, ChangeComment,
         DeleteComment, HideComment, UnhideComment, RestoreComment, engagement

------------------------------------------------------------------------------
(* The document of a ready video agrees with the row, or a request is      *)
(* about to write the index, or the history tells why not.                 *)
Fresh ==
  (ready /\ ~ deleted /\ ~ behind /\ ~ kept) =>
    \/ Indexing # {}
    \/ doc.title = title /\ (doc.owner = owner \/ renamed)

(* Whoever changes the title goes on to indexVideo.                        *)
LEMMA FreshNext == ASSUME Typed, Flags, Fresh, [Next]_vars PROVE Fresh'
<1> USE DEF rowVars, channelVars, catalogHistory, videoVars, viewVars, likeVars,
           commentVars, engagement, Typed, Flags, Fresh, Indexing, Executed
<1>1. ASSUME NEW q \in Reqs, PublishVideo(q), UNCHANGED engagement
      PROVE  Fresh'
  BY <1>1 DEF PublishVideo, Goto
<1>2. ASSUME NEW q \in Reqs, UpdateCheck(q), UNCHANGED engagement
      PROVE  Fresh'
  BY <1>2 DEF UpdateCheck, Goto
<1>3. ASSUME NEW q \in Reqs, UpdateVideo(q), UNCHANGED engagement
      PROVE  Fresh'
  BY <1>3 DEF UpdateVideo, Proceed, Goto
<1>4. ASSUME NEW q \in Reqs, LoadVideo(q), UNCHANGED engagement
      PROVE  Fresh'
  BY <1>4 DEF LoadVideo, Goto
<1>5. ASSUME NEW q \in Reqs, IndexVideo(q), UNCHANGED engagement
      PROVE  Fresh'
  BY <1>5 DEF IndexVideo, Goto
<1>6. ASSUME NEW q \in Reqs, DeleteVideo(q), UNCHANGED engagement
      PROVE  Fresh'
  BY <1>6 DEF DeleteVideo, MarkDeleted, Proceed, Goto
<1>7. ASSUME NEW q \in Reqs, DeleteSearchDocument(q), UNCHANGED engagement
      PROVE  Fresh'
  BY <1>7 DEF DeleteSearchDocument, Goto
<1>8. ASSUME NEW q \in Reqs, AdminUpdateVideo(q), UNCHANGED engagement
      PROVE  Fresh'
  BY <1>8 DEF AdminUpdateVideo, Goto
<1>9. ASSUME NEW q \in Reqs, AdminDeleteVideo(q), UNCHANGED engagement
      PROVE  Fresh'
  BY <1>9 DEF AdminDeleteVideo, MarkDeleted, Goto
<1>10. ASSUME NEW q \in Reqs, RestoreContent(q), UNCHANGED engagement
      PROVE  Fresh'
  BY <1>10 DEF RestoreContent, Goto
<1>11. ASSUME NEW q \in Reqs, UpdateProfile(q), UNCHANGED engagement
      PROVE  Fresh'
  BY <1>11 DEF UpdateProfile, Goto
<1>12. ASSUME NEW q \in Reqs, PutImage(q), UNCHANGED engagement
      PROVE  Fresh'
  BY <1>12 DEF PutImage, Proceed, Goto
<1>13. ASSUME NEW q \in Reqs, SetImageKey(q), UNCHANGED engagement
      PROVE  Fresh'
  BY <1>13 DEF SetImageKey, Goto
<1>14. ASSUME NEW q \in Reqs, NEW c \in Conns, GetVideo(q, c) PROVE Fresh'
  BY <1>14 DEF GetVideo, Goto
<1>15. ASSUME NEW q \in Reqs, MarkViewed(q) PROVE Fresh'
  BY <1>15 DEF MarkViewed, Proceed, Goto
<1>16. ASSUME NEW q \in Reqs, CountView(q) PROVE Fresh'
  BY <1>16 DEF CountView, Goto
<1>17. ASSUME NEW k \in ViewKeys, ViewKeyExpires(k) PROVE Fresh'
  BY <1>17 DEF ViewKeyExpires, catalogVars, reqVars
<1>18. ASSUME NEW q \in Reqs, NEW v \in Viewers, LikeVideo(q, v) PROVE Fresh'
  BY <1>18 DEF LikeVideo, Begin, Goto
<1>19. ASSUME NEW q \in Reqs, NEW v \in Viewers, UnlikeVideo(q, v) PROVE Fresh'
  BY <1>19 DEF UnlikeVideo, Begin, Goto
<1>20. ASSUME NEW q \in Reqs, RefreshLikeCount(q) PROVE Fresh'
  BY <1>20 DEF RefreshLikeCount, Goto, Liking
<1>21. ASSUME NEW q \in Reqs, CommentCheck(q) PROVE Fresh'
  BY <1>21 DEF CommentCheck, Goto
<1>22. ASSUME NEW q \in Reqs, ParentCheck(q) PROVE Fresh'
  BY <1>22 DEF ParentCheck, Goto
<1>23. ASSUME NEW q \in Reqs, InsertComment(q) PROVE Fresh'
  BY <1>23 DEF InsertComment, Goto
<1>24. ASSUME NEW q \in Reqs, NEW c \in Reqs, NEW from, NEW to \in {"visible", "hidden", "deleted"},
             SetComment(q, c, from, to)
      PROVE  Fresh'
  BY <1>24 DEF SetComment, Goto
<1>25. ASSUME NEW q \in Reqs, NEW v \in Viewers, NEW c \in Reqs, LikeComment(q, v, c)
      PROVE  Fresh'
  BY <1>25 DEF LikeComment, Goto
<1>26. CASE UNCHANGED vars
  BY <1>26 DEF vars, catalogVars, reqVars
<1> QED
  BY <1>1, <1>2, <1>3, <1>4, <1>5, <1>6, <1>7, <1>8, <1>9, <1>10,
     <1>11, <1>12, <1>13, <1>14, <1>15, <1>16, <1>17, <1>18, <1>19, <1>20,
     <1>21, <1>22, <1>23, <1>24, <1>25, <1>26
     DEF Next, CatalogStep, UploadChannelImage, Engage, Comment, CreateComment, ChangeComment,
         DeleteComment, HideComment, UnhideComment, RestoreComment, engagement

------------------------------------------------------------------------------
(* The document of a deleted video is gone, or DeleteVideo is about to     *)
(* remove it; who writes the index after the deletion had read the row     *)
(* before it.                                                              *)
Gone ==
  deleted =>
    /\ \A q \in Reqs : pc[q] = "index" => q \in racing
    /\ behind \/ kept \/ doc = NoDoc \/ \E q \in Reqs : pc[q] = "unindex"

(* indexVideo does not find a deleted row.                                 *)
LEMMA GoneNext == ASSUME Typed, Flags, Gone, [Next]_vars PROVE Gone'
<1> USE DEF rowVars, channelVars, catalogHistory, videoVars, viewVars, likeVars,
           commentVars, engagement, Typed, Flags, Gone, Executed
<1>1. ASSUME NEW q \in Reqs, PublishVideo(q), UNCHANGED engagement
      PROVE  Gone'
  BY <1>1 DEF PublishVideo, Goto
<1>2. ASSUME NEW q \in Reqs, UpdateCheck(q), UNCHANGED engagement
      PROVE  Gone'
  BY <1>2 DEF UpdateCheck, Goto
<1>3. ASSUME NEW q \in Reqs, UpdateVideo(q), UNCHANGED engagement
      PROVE  Gone'
  BY <1>3 DEF UpdateVideo, Proceed, Goto
<1>4. ASSUME NEW q \in Reqs, LoadVideo(q), UNCHANGED engagement
      PROVE  Gone'
  BY <1>4 DEF LoadVideo, Goto
<1>5. ASSUME NEW q \in Reqs, IndexVideo(q), UNCHANGED engagement
      PROVE  Gone'
  BY <1>5 DEF IndexVideo, Goto
<1>6. ASSUME NEW q \in Reqs, DeleteVideo(q), UNCHANGED engagement
      PROVE  Gone'
  <2>1. CASE ~ deleted'
    BY <2>1
  <2>2. CASE deleted'
    <3>1. racing' = {r \in Reqs : pc[r] = "index"}
      BY <1>6, <2>2 DEF DeleteVideo, MarkDeleted
    <3>2. \A r \in Reqs : pc'[r] = "index" => pc[r] = "index"
      BY <1>6 DEF DeleteVideo, Proceed, Goto
    <3>3. kept' \/ pc'[q] = "unindex"
      BY <1>6, <2>2 DEF DeleteVideo, Proceed, Goto
    <3> QED BY <3>1, <3>2, <3>3
  <2> QED BY <2>1, <2>2 DEF Flags
<1>7. ASSUME NEW q \in Reqs, DeleteSearchDocument(q), UNCHANGED engagement
      PROVE  Gone'
  BY <1>7 DEF DeleteSearchDocument, Goto
<1>8. ASSUME NEW q \in Reqs, AdminUpdateVideo(q), UNCHANGED engagement
      PROVE  Gone'
  BY <1>8 DEF AdminUpdateVideo, Goto
<1>9. ASSUME NEW q \in Reqs, AdminDeleteVideo(q), UNCHANGED engagement
      PROVE  Gone'
  BY <1>9 DEF AdminDeleteVideo, MarkDeleted, Goto
<1>10. ASSUME NEW q \in Reqs, RestoreContent(q), UNCHANGED engagement
      PROVE  Gone'
  BY <1>10 DEF RestoreContent, Goto
<1>11. ASSUME NEW q \in Reqs, UpdateProfile(q), UNCHANGED engagement
      PROVE  Gone'
  BY <1>11 DEF UpdateProfile, Goto
<1>12. ASSUME NEW q \in Reqs, PutImage(q), UNCHANGED engagement
      PROVE  Gone'
  BY <1>12 DEF PutImage, Proceed, Goto
<1>13. ASSUME NEW q \in Reqs, SetImageKey(q), UNCHANGED engagement
      PROVE  Gone'
  BY <1>13 DEF SetImageKey, Goto
<1>14. ASSUME NEW q \in Reqs, NEW c \in Conns, GetVideo(q, c) PROVE Gone'
  BY <1>14 DEF GetVideo, Goto
<1>15. ASSUME NEW q \in Reqs, MarkViewed(q) PROVE Gone'
  BY <1>15 DEF MarkViewed, Proceed, Goto
<1>16. ASSUME NEW q \in Reqs, CountView(q) PROVE Gone'
  BY <1>16 DEF CountView, Goto
<1>17. ASSUME NEW k \in ViewKeys, ViewKeyExpires(k) PROVE Gone'
  BY <1>17 DEF ViewKeyExpires, catalogVars, reqVars
<1>18. ASSUME NEW q \in Reqs, NEW v \in Viewers, LikeVideo(q, v) PROVE Gone'
  BY <1>18 DEF LikeVideo, Begin, Goto
<1>19. ASSUME NEW q \in Reqs, NEW v \in Viewers, UnlikeVideo(q, v) PROVE Gone'
  BY <1>19 DEF UnlikeVideo, Begin, Goto
<1>20. ASSUME NEW q \in Reqs, RefreshLikeCount(q) PROVE Gone'
  BY <1>20 DEF RefreshLikeCount, Goto, Liking
<1>21. ASSUME NEW q \in Reqs, CommentCheck(q) PROVE Gone'
  BY <1>21 DEF CommentCheck, Goto
<1>22. ASSUME NEW q \in Reqs, ParentCheck(q) PROVE Gone'
  BY <1>22 DEF ParentCheck, Goto
<1>23. ASSUME NEW q \in Reqs, InsertComment(q) PROVE Gone'
  BY <1>23 DEF InsertComment, Goto
<1>24. ASSUME NEW q \in Reqs, NEW c \in Reqs, NEW from, NEW to \in {"visible", "hidden", "deleted"},
             SetComment(q, c, from, to)
      PROVE  Gone'
  BY <1>24 DEF SetComment, Goto
<1>25. ASSUME NEW q \in Reqs, NEW v \in Viewers, NEW c \in Reqs, LikeComment(q, v, c)
      PROVE  Gone'
  BY <1>25 DEF LikeComment, Goto
<1>26. CASE UNCHANGED vars
  BY <1>26 DEF vars, catalogVars, reqVars
<1> QED
  BY <1>1, <1>2, <1>3, <1>4, <1>5, <1>6, <1>7, <1>8, <1>9, <1>10,
     <1>11, <1>12, <1>13, <1>14, <1>15, <1>16, <1>17, <1>18, <1>19, <1>20,
     <1>21, <1>22, <1>23, <1>24, <1>25, <1>26
     DEF Next, CatalogStep, UploadChannelImage, Engage, Comment, CreateComment, ChangeComment,
         DeleteComment, HideComment, UnhideComment, RestoreComment, engagement

------------------------------------------------------------------------------
(* Every view that was counted, or is about to be, has a key of its own,   *)
(* in Redis or expired; a key is that of a connection that was served.     *)
Counting == {q \in Reqs : pc[q] = "count"}

Views ==
  /\ viewed \subseteq WatchedKeys
  /\ IsFiniteSet(Counting)
  /\ viewCount + Cardinality(Counting) <= Cardinality(viewed) + expiries

(* A step after which the same views are still to be counted.              *)
LEMMA ViewsSame ==
  ASSUME Views, Counting' = Counting, watched \subseteq watched',
         UNCHANGED <<viewCount, viewed, expiries>>
  PROVE  Views'
<1>1. WatchedKeys \subseteq WatchedKeys'
  BY DEF WatchedKeys
<1> QED BY <1>1 DEF Views

(* There are no more keys than connections.                                *)
LEMMA KeysFinite ==
  ASSUME Typed
  PROVE  /\ IsFiniteSet(viewed) /\ Cardinality(viewed) \in Nat
         /\ IsFiniteSet(WatchedKeys) /\ Cardinality(WatchedKeys) \in Nat
<1>1. IsFiniteSet(ViewKeys)
  <2> DEFINE key == [c \in Conns |-> ViewKey(c)]
  <2>1. key \in Surjection(Conns, ViewKeys)
    BY DEF Surjection, ViewKeys
  <2> QED BY <2>1, EngagementAssumption, FS_Surjection
<1>2. viewed \subseteq ViewKeys /\ WatchedKeys \subseteq ViewKeys
  BY DEF Typed, ViewKeys, WatchedKeys
<1> QED BY <1>1, <1>2, FS_Subset, FS_CardinalityType

(* SETNX answers one of several requests with a key.                       *)
LEMMA ViewsNext == ASSUME Typed, Carried, Views, [Next]_vars PROVE Views'
<1> USE DEF rowVars, channelVars, catalogHistory, videoVars, viewVars, likeVars,
           commentVars, engagement, Typed
<1>1. ASSUME NEW q \in Reqs, PublishVideo(q), UNCHANGED engagement
      PROVE  Views'
  BY <1>1, ViewsSame DEF PublishVideo, Goto, Counting
<1>2. ASSUME NEW q \in Reqs, UpdateCheck(q), UNCHANGED engagement
      PROVE  Views'
  BY <1>2, ViewsSame DEF UpdateCheck, Goto, Counting
<1>3. ASSUME NEW q \in Reqs, UpdateVideo(q), UNCHANGED engagement
      PROVE  Views'
  BY <1>3, ViewsSame DEF UpdateVideo, Proceed, Goto, Counting
<1>4. ASSUME NEW q \in Reqs, LoadVideo(q), UNCHANGED engagement
      PROVE  Views'
  BY <1>4, ViewsSame DEF LoadVideo, Goto, Counting
<1>5. ASSUME NEW q \in Reqs, IndexVideo(q), UNCHANGED engagement
      PROVE  Views'
  BY <1>5, ViewsSame DEF IndexVideo, Goto, Counting
<1>6. ASSUME NEW q \in Reqs, DeleteVideo(q), UNCHANGED engagement
      PROVE  Views'
  BY <1>6, ViewsSame DEF DeleteVideo, MarkDeleted, Proceed, Goto, Counting
<1>7. ASSUME NEW q \in Reqs, DeleteSearchDocument(q), UNCHANGED engagement
      PROVE  Views'
  BY <1>7, ViewsSame DEF DeleteSearchDocument, Goto, Counting
<1>8. ASSUME NEW q \in Reqs, AdminUpdateVideo(q), UNCHANGED engagement
      PROVE  Views'
  BY <1>8, ViewsSame DEF AdminUpdateVideo, Goto, Counting
<1>9. ASSUME NEW q \in Reqs, AdminDeleteVideo(q), UNCHANGED engagement
      PROVE  Views'
  BY <1>9, ViewsSame DEF AdminDeleteVideo, MarkDeleted, Goto, Counting
<1>10. ASSUME NEW q \in Reqs, RestoreContent(q), UNCHANGED engagement
      PROVE  Views'
  BY <1>10, ViewsSame DEF RestoreContent, Goto, Counting
<1>11. ASSUME NEW q \in Reqs, UpdateProfile(q), UNCHANGED engagement
      PROVE  Views'
  BY <1>11, ViewsSame DEF UpdateProfile, Goto, Counting
<1>12. ASSUME NEW q \in Reqs, PutImage(q), UNCHANGED engagement
      PROVE  Views'
  BY <1>12, ViewsSame DEF PutImage, Proceed, Goto, Counting
<1>13. ASSUME NEW q \in Reqs, SetImageKey(q), UNCHANGED engagement
      PROVE  Views'
  BY <1>13, ViewsSame DEF SetImageKey, Goto, Counting
<1>14. ASSUME NEW q \in Reqs, NEW c \in Conns, GetVideo(q, c) PROVE Views'
  BY <1>14, ViewsSame DEF GetVideo, Goto, Counting
<1>15. ASSUME NEW q \in Reqs, MarkViewed(q) PROVE Views'
  <2>1. CASE arg[q] \in viewed
    BY <1>15, <2>1, ViewsSame DEF MarkViewed, Proceed, Goto, Counting, Executed
  <2>2. CASE arg[q] \notin viewed /\ viewed' = viewed
    BY <1>15, <2>2, ViewsSame DEF MarkViewed, Proceed, Goto, Counting, Executed
  <2>3. CASE arg[q] \notin viewed /\ viewed' # viewed
    <3>1. /\ viewed' = viewed \cup {arg[q]} /\ arg[q] \in WatchedKeys
          /\ UNCHANGED <<viewCount, watched, expiries>>
      BY <1>15, <2>3 DEF MarkViewed, Carried
    <3>2. Counting' \in {Counting, Counting \cup {q}} /\ q \notin Counting
      BY <1>15 DEF MarkViewed, Proceed, Goto, Counting
    <3>3. /\ IsFiniteSet(viewed) /\ Cardinality(viewed) \in Nat
          /\ Cardinality(viewed') = Cardinality(viewed) + 1
      BY <2>3, <3>1, KeysFinite, FS_AddElement
    <3>4. /\ IsFiniteSet(Counting') /\ Cardinality(Counting) \in Nat
          /\ Cardinality(Counting') \in {Cardinality(Counting), Cardinality(Counting) + 1}
      BY <3>2, FS_AddElement, FS_CardinalityType DEF Views
    <3>5. WatchedKeys' = WatchedKeys
      BY <3>1 DEF WatchedKeys
    <3> QED BY <3>1, <3>3, <3>4, <3>5 DEF Views
  <2> QED BY <2>1, <2>2, <2>3
<1>16. ASSUME NEW q \in Reqs, CountView(q) PROVE Views'
  <2>1. viewCount' \in {viewCount, viewCount + 1} /\ UNCHANGED <<viewed, watched, expiries>>
    BY <1>16 DEF CountView
  <2>2. Counting' = Counting \ {q} /\ q \in Counting
    BY <1>16 DEF CountView, Goto, Counting
  <2>3. /\ IsFiniteSet(Counting') /\ Cardinality(Counting) \in Nat
        /\ Cardinality(Counting') = Cardinality(Counting) - 1
    BY <2>2, FS_RemoveElement, FS_CardinalityType DEF Views
  <2>4. Cardinality(viewed) \in Nat /\ WatchedKeys' = WatchedKeys
    BY <2>1, KeysFinite DEF WatchedKeys
  <2> QED BY <2>1, <2>3, <2>4 DEF Views
<1>17. ASSUME NEW k \in ViewKeys, ViewKeyExpires(k) PROVE Views'
  <2>1. /\ viewed' = viewed \ {k} /\ k \in viewed /\ expiries' = expiries + 1
        /\ UNCHANGED <<pc, viewCount, watched>>
    BY <1>17 DEF ViewKeyExpires, catalogVars, reqVars
  <2>2. Counting' = Counting
    BY <2>1 DEF Counting
  <2>3. Cardinality(viewed) \in Nat /\ Cardinality(viewed') = Cardinality(viewed) - 1
    BY <2>1, KeysFinite, FS_RemoveElement
  <2>4. Cardinality(Counting) \in Nat /\ WatchedKeys' = WatchedKeys
    BY <2>1, FS_CardinalityType DEF Views, WatchedKeys
  <2> QED BY <2>1, <2>2, <2>3, <2>4 DEF Views
<1>18. ASSUME NEW q \in Reqs, NEW v \in Viewers, LikeVideo(q, v) PROVE Views'
  BY <1>18, ViewsSame DEF LikeVideo, Begin, Goto, Counting
<1>19. ASSUME NEW q \in Reqs, NEW v \in Viewers, UnlikeVideo(q, v) PROVE Views'
  BY <1>19, ViewsSame DEF UnlikeVideo, Begin, Goto, Counting
<1>20. ASSUME NEW q \in Reqs, RefreshLikeCount(q) PROVE Views'
  BY <1>20, ViewsSame DEF RefreshLikeCount, Goto, Counting, Liking
<1>21. ASSUME NEW q \in Reqs, CommentCheck(q) PROVE Views'
  BY <1>21, ViewsSame DEF CommentCheck, Goto, Counting
<1>22. ASSUME NEW q \in Reqs, ParentCheck(q) PROVE Views'
  BY <1>22, ViewsSame DEF ParentCheck, Goto, Counting
<1>23. ASSUME NEW q \in Reqs, InsertComment(q) PROVE Views'
  BY <1>23, ViewsSame DEF InsertComment, Goto, Counting
<1>24. ASSUME NEW q \in Reqs, NEW c \in Reqs, NEW from, NEW to \in {"visible", "hidden", "deleted"},
             SetComment(q, c, from, to)
      PROVE  Views'
  BY <1>24, ViewsSame DEF SetComment, Goto, Counting
<1>25. ASSUME NEW q \in Reqs, NEW v \in Viewers, NEW c \in Reqs, LikeComment(q, v, c)
      PROVE  Views'
  BY <1>25, ViewsSame DEF LikeComment, Goto, Counting
<1>26. CASE UNCHANGED vars
  BY <1>26, ViewsSame DEF vars, catalogVars, reqVars, Counting
<1> QED
  BY <1>1, <1>2, <1>3, <1>4, <1>5, <1>6, <1>7, <1>8, <1>9, <1>10,
     <1>11, <1>12, <1>13, <1>14, <1>15, <1>16, <1>17, <1>18, <1>19, <1>20,
     <1>21, <1>22, <1>23, <1>24, <1>25, <1>26
     DEF Next, CatalogStep, UploadChannelImage, Engage, Comment, CreateComment, ChangeComment,
         DeleteComment, HideComment, UnhideComment, RestoreComment, engagement

------------------------------------------------------------------------------
(* The likes once a transaction has committed.                             *)
After(q) == IF pc[q] = "like" THEN likes \cup {arg[q]} ELSE likes \ {arg[q]}

(* A transaction that is alone has counted the likes there will be when it *)
(* commits.                                                                *)
Likes ==
  /\ likeCount \in 0 .. Cardinality(Viewers)
  /\ counted \in [Reqs -> 0 .. Cardinality(Viewers)]
  /\ \A q \in alone : Liking = {q} /\ counted[q] = Cardinality(After(q))
  /\ crossed \/ likeCount = Cardinality(likes)

(* A step that begins and ends no like.                                    *)
LEMMA LikesSame ==
  ASSUME Likes, UNCHANGED likeVars, Liking' = Liking,
         \A q \in Liking : pc'[q] = pc[q] /\ arg'[q] = arg[q]
  PROVE  Likes'
<1>1. \A q \in alone : Liking' = {q} /\ After(q)' = After(q)
  BY DEF Likes, After, likeVars
<1> QED BY <1>1 DEF Likes, likeVars

(* The trigger of a like that is alone counts what will be committed with  *)
(* it.                                                                     *)
LEMMA LikesBegin ==
  ASSUME Typed, Likes, NEW q \in Reqs, NEW v \in Viewers, NEW label \in {"like", "unlike"},
         NEW after \in SUBSET Viewers,
         after = IF label = "like" THEN likes \cup {v} ELSE likes \ {v},
         Begin(q, v, label, after)
  PROVE  Likes'
<1>1. /\ pc' = [pc EXCEPT ![q] = label] /\ arg' = [arg EXCEPT ![q] = v]
      /\ counted' = [counted EXCEPT ![q] = Cardinality(after)]
      /\ alone' = IF Liking = {} THEN {q} ELSE {}
      /\ UNCHANGED <<likes, likeCount, crossed>>
  BY DEF Begin, Goto
<1>2. Cardinality(after) \in 0 .. Cardinality(Viewers)
  BY EngagementAssumption, FS_Subset, FS_CardinalityType
<1>3. counted' \in [Reqs -> 0 .. Cardinality(Viewers)]
  BY <1>1, <1>2 DEF Likes
<1>4. ASSUME NEW r \in alone' PROVE Liking' = {r} /\ counted'[r] = Cardinality(After(r)')
  <2>1. r = q /\ Liking = {}
    BY <1>1, <1>4
  <2>2. Liking' = {q}
    BY <1>1, <2>1 DEF Liking, Typed
  <2>3. After(q)' = after
    BY <1>1 DEF After, Typed
  <2>4. counted'[q] = Cardinality(after)
    BY <1>1 DEF Likes
  <2> QED BY <2>1, <2>2, <2>3, <2>4
<1> QED BY <1>1, <1>3, <1>4 DEF Likes

(* refresh_video_like_count writes what it has counted.                    *)
LEMMA LikesNext == ASSUME Typed, Carried, Likes, [Next]_vars PROVE Likes'
<1> USE DEF rowVars, channelVars, catalogHistory, videoVars, viewVars, likeVars,
           commentVars, engagement, Typed
<1>1. ASSUME NEW q \in Reqs, PublishVideo(q), UNCHANGED engagement
      PROVE  Likes'
  BY <1>1, LikesSame DEF PublishVideo, Goto, Liking
<1>2. ASSUME NEW q \in Reqs, UpdateCheck(q), UNCHANGED engagement
      PROVE  Likes'
  BY <1>2, LikesSame DEF UpdateCheck, Goto, Liking
<1>3. ASSUME NEW q \in Reqs, UpdateVideo(q), UNCHANGED engagement
      PROVE  Likes'
  BY <1>3, LikesSame DEF UpdateVideo, Proceed, Goto, Liking
<1>4. ASSUME NEW q \in Reqs, LoadVideo(q), UNCHANGED engagement
      PROVE  Likes'
  BY <1>4, LikesSame DEF LoadVideo, Goto, Liking
<1>5. ASSUME NEW q \in Reqs, IndexVideo(q), UNCHANGED engagement
      PROVE  Likes'
  BY <1>5, LikesSame DEF IndexVideo, Goto, Liking
<1>6. ASSUME NEW q \in Reqs, DeleteVideo(q), UNCHANGED engagement
      PROVE  Likes'
  BY <1>6, LikesSame DEF DeleteVideo, MarkDeleted, Proceed, Goto, Liking
<1>7. ASSUME NEW q \in Reqs, DeleteSearchDocument(q), UNCHANGED engagement
      PROVE  Likes'
  BY <1>7, LikesSame DEF DeleteSearchDocument, Goto, Liking
<1>8. ASSUME NEW q \in Reqs, AdminUpdateVideo(q), UNCHANGED engagement
      PROVE  Likes'
  BY <1>8, LikesSame DEF AdminUpdateVideo, Goto, Liking
<1>9. ASSUME NEW q \in Reqs, AdminDeleteVideo(q), UNCHANGED engagement
      PROVE  Likes'
  BY <1>9, LikesSame DEF AdminDeleteVideo, MarkDeleted, Goto, Liking
<1>10. ASSUME NEW q \in Reqs, RestoreContent(q), UNCHANGED engagement
      PROVE  Likes'
  BY <1>10, LikesSame DEF RestoreContent, Goto, Liking
<1>11. ASSUME NEW q \in Reqs, UpdateProfile(q), UNCHANGED engagement
      PROVE  Likes'
  BY <1>11, LikesSame DEF UpdateProfile, Goto, Liking
<1>12. ASSUME NEW q \in Reqs, PutImage(q), UNCHANGED engagement
      PROVE  Likes'
  BY <1>12, LikesSame DEF PutImage, Proceed, Goto, Liking
<1>13. ASSUME NEW q \in Reqs, SetImageKey(q), UNCHANGED engagement
      PROVE  Likes'
  BY <1>13, LikesSame DEF SetImageKey, Goto, Liking
<1>14. ASSUME NEW q \in Reqs, NEW c \in Conns, GetVideo(q, c) PROVE Likes'
  BY <1>14, LikesSame DEF GetVideo, Goto, Liking
<1>15. ASSUME NEW q \in Reqs, MarkViewed(q) PROVE Likes'
  BY <1>15, LikesSame DEF MarkViewed, Proceed, Goto, Liking
<1>16. ASSUME NEW q \in Reqs, CountView(q) PROVE Likes'
  BY <1>16, LikesSame DEF CountView, Goto, Liking
<1>17. ASSUME NEW k \in ViewKeys, ViewKeyExpires(k) PROVE Likes'
  BY <1>17, LikesSame DEF ViewKeyExpires, catalogVars, reqVars, Liking
<1>18. ASSUME NEW q \in Reqs, NEW v \in Viewers, LikeVideo(q, v) PROVE Likes'
  BY <1>18, LikesBegin DEF LikeVideo
<1>19. ASSUME NEW q \in Reqs, NEW v \in Viewers, UnlikeVideo(q, v) PROVE Likes'
  BY <1>19, LikesBegin DEF UnlikeVideo
<1>20. ASSUME NEW q \in Reqs, RefreshLikeCount(q) PROVE Likes'
  <2>1. /\ q \in Liking /\ likes' = After(q) /\ likeCount' = counted[q]
        /\ crossed' = (q \notin alone) /\ alone' = alone \ {q} /\ counted' = counted
    BY <1>20 DEF RefreshLikeCount, After
  <2>2. alone' = {}
    BY <2>1 DEF Likes
  <2>3. crossed' \/ likeCount' = Cardinality(likes')
    BY <2>1 DEF Likes
  <2> QED BY <2>1, <2>2, <2>3 DEF Likes
<1>21. ASSUME NEW q \in Reqs, CommentCheck(q) PROVE Likes'
  BY <1>21, LikesSame DEF CommentCheck, Goto, Liking
<1>22. ASSUME NEW q \in Reqs, ParentCheck(q) PROVE Likes'
  BY <1>22, LikesSame DEF ParentCheck, Goto, Liking
<1>23. ASSUME NEW q \in Reqs, InsertComment(q) PROVE Likes'
  BY <1>23, LikesSame DEF InsertComment, Goto, Liking
<1>24. ASSUME NEW q \in Reqs, NEW c \in Reqs, NEW from, NEW to \in {"visible", "hidden", "deleted"},
             SetComment(q, c, from, to)
      PROVE  Likes'
  BY <1>24, LikesSame DEF SetComment, Goto, Liking
<1>25. ASSUME NEW q \in Reqs, NEW v \in Viewers, NEW c \in Reqs, LikeComment(q, v, c)
      PROVE  Likes'
  BY <1>25, LikesSame DEF LikeComment, Goto, Liking
<1>26. CASE UNCHANGED vars
  BY <1>26, LikesSame DEF vars, catalogVars, reqVars, Liking
<1> QED
  BY <1>1, <1>2, <1>3, <1>4, <1>5, <1>6, <1>7, <1>8, <1>9, <1>10,
     <1>11, <1>12, <1>13, <1>14, <1>15, <1>16, <1>17, <1>18, <1>19, <1>20,
     <1>21, <1>22, <1>23, <1>24, <1>25, <1>26
     DEF Next, CatalogStep, UploadChannelImage, Engage, Comment, CreateComment, ChangeComment,
         DeleteComment, HideComment, UnhideComment, RestoreComment, engagement

------------------------------------------------------------------------------
(* A comment, from the check on, has itself or an existing comment for a   *)
(* parent, and once the parent was looked up not one that was deleted or   *)
(* hidden all the time.                                                    *)
Replies ==
  \A q \in Reqs :
    /\ comment[q] # "none" => pc[q] = "over"
    /\ pc[q] \in {"parent", "insert"} =>
         \A c \in barred[q] : comment[c] \in {"hidden", "deleted"}
    /\ pc[q] = "parent" => comment[parent[q]] # "none"
    /\ pc[q] = "insert" \/ comment[q] # "none" =>
         /\ parent[q] = q \/ comment[parent[q]] # "none"
         /\ parent[q] \notin barred[q]

(* Who makes a comment visible lifts the bar on it.                        *)
LEMMA RepliesNext == ASSUME Typed, Replies, [Next]_vars PROVE Replies'
<1> USE DEF rowVars, channelVars, catalogHistory, videoVars, viewVars, likeVars,
           commentVars, engagement, Typed, Replies, Executed
<1>1. ASSUME NEW q \in Reqs, PublishVideo(q), UNCHANGED engagement
      PROVE  Replies'
  BY <1>1 DEF PublishVideo, Goto
<1>2. ASSUME NEW q \in Reqs, UpdateCheck(q), UNCHANGED engagement
      PROVE  Replies'
  BY <1>2 DEF UpdateCheck, Goto
<1>3. ASSUME NEW q \in Reqs, UpdateVideo(q), UNCHANGED engagement
      PROVE  Replies'
  BY <1>3 DEF UpdateVideo, Proceed, Goto
<1>4. ASSUME NEW q \in Reqs, LoadVideo(q), UNCHANGED engagement
      PROVE  Replies'
  BY <1>4 DEF LoadVideo, Goto
<1>5. ASSUME NEW q \in Reqs, IndexVideo(q), UNCHANGED engagement
      PROVE  Replies'
  BY <1>5 DEF IndexVideo, Goto
<1>6. ASSUME NEW q \in Reqs, DeleteVideo(q), UNCHANGED engagement
      PROVE  Replies'
  BY <1>6 DEF DeleteVideo, MarkDeleted, Proceed, Goto
<1>7. ASSUME NEW q \in Reqs, DeleteSearchDocument(q), UNCHANGED engagement
      PROVE  Replies'
  BY <1>7 DEF DeleteSearchDocument, Goto
<1>8. ASSUME NEW q \in Reqs, AdminUpdateVideo(q), UNCHANGED engagement
      PROVE  Replies'
  BY <1>8 DEF AdminUpdateVideo, Goto
<1>9. ASSUME NEW q \in Reqs, AdminDeleteVideo(q), UNCHANGED engagement
      PROVE  Replies'
  BY <1>9 DEF AdminDeleteVideo, MarkDeleted, Goto
<1>10. ASSUME NEW q \in Reqs, RestoreContent(q), UNCHANGED engagement
      PROVE  Replies'
  BY <1>10 DEF RestoreContent, Goto
<1>11. ASSUME NEW q \in Reqs, UpdateProfile(q), UNCHANGED engagement
      PROVE  Replies'
  BY <1>11 DEF UpdateProfile, Goto
<1>12. ASSUME NEW q \in Reqs, PutImage(q), UNCHANGED engagement
      PROVE  Replies'
  BY <1>12 DEF PutImage, Proceed, Goto
<1>13. ASSUME NEW q \in Reqs, SetImageKey(q), UNCHANGED engagement
      PROVE  Replies'
  BY <1>13 DEF SetImageKey, Goto
<1>14. ASSUME NEW q \in Reqs, NEW c \in Conns, GetVideo(q, c) PROVE Replies'
  BY <1>14 DEF GetVideo, Goto
<1>15. ASSUME NEW q \in Reqs, MarkViewed(q) PROVE Replies'
  BY <1>15 DEF MarkViewed, Proceed, Goto
<1>16. ASSUME NEW q \in Reqs, CountView(q) PROVE Replies'
  BY <1>16 DEF CountView, Goto
<1>17. ASSUME NEW k \in ViewKeys, ViewKeyExpires(k) PROVE Replies'
  BY <1>17 DEF ViewKeyExpires, catalogVars, reqVars
<1>18. ASSUME NEW q \in Reqs, NEW v \in Viewers, LikeVideo(q, v) PROVE Replies'
  BY <1>18 DEF LikeVideo, Begin, Goto
<1>19. ASSUME NEW q \in Reqs, NEW v \in Viewers, UnlikeVideo(q, v) PROVE Replies'
  BY <1>19 DEF UnlikeVideo, Begin, Goto
<1>20. ASSUME NEW q \in Reqs, RefreshLikeCount(q) PROVE Replies'
  BY <1>20 DEF RefreshLikeCount, Goto
<1>21. ASSUME NEW q \in Reqs, CommentCheck(q) PROVE Replies'
  BY <1>21 DEF CommentCheck, Goto
<1>22. ASSUME NEW q \in Reqs, ParentCheck(q) PROVE Replies'
  BY <1>22 DEF ParentCheck, Goto
<1>23. ASSUME NEW q \in Reqs, InsertComment(q) PROVE Replies'
  BY <1>23 DEF InsertComment, Goto
<1>24. ASSUME NEW q \in Reqs, NEW c \in Reqs, NEW from \in SUBSET {"visible", "hidden", "deleted"},
             NEW to \in {"visible", "hidden", "deleted"}, SetComment(q, c, from, to)
      PROVE  Replies'
  <2>1. /\ pc' = [pc EXCEPT ![q] = "over"] /\ comment' = [comment EXCEPT ![c] = to]
        /\ parent' = parent /\ comment[c] # "none"
    BY <1>24 DEF SetComment, Goto
  <2>2. \A r \in Reqs : /\ barred'[r] \subseteq barred[r]
                        /\ pc[r] # "over" /\ to = "visible" => c \notin barred'[r]
    BY <1>24 DEF SetComment
  <2>3. ASSUME NEW r \in Reqs, pc'[r] \in {"parent", "insert"}, NEW d \in barred'[r]
        PROVE  comment'[d] \in {"hidden", "deleted"}
    BY <2>1, <2>2, <2>3
  <2> QED BY <2>1, <2>2, <2>3
<1>25. ASSUME NEW q \in Reqs, NEW v \in Viewers, NEW c \in Reqs, LikeComment(q, v, c)
      PROVE  Replies'
  BY <1>25 DEF LikeComment, Goto
<1>26. CASE UNCHANGED vars
  BY <1>26 DEF vars, catalogVars, reqVars
<1> QED
  BY <1>1, <1>2, <1>3, <1>4, <1>5, <1>6, <1>7, <1>8, <1>9, <1>10,
     <1>11, <1>12, <1>13, <1>14, <1>15, <1>16, <1>17, <1>18, <1>19, <1>20,
     <1>21, <1>22, <1>23, <1>24, <1>25, <1>26
     DEF Next, CatalogStep, UploadChannelImage, Engage, Comment, CreateComment, ChangeComment,
         DeleteComment, HideComment, UnhideComment, RestoreComment, engagement

------------------------------------------------------------------------------
(* The order of comments: each is stamped with the number of those before  *)
(* it, so that a reply is younger than its parent; and what is liked is    *)
(* there.                                                                  *)
Existing == {c \in Reqs : comment[c] # "none"}

Ages ==
  /\ \A q \in Existing :
       /\ createdAt[q] < Cardinality(Existing)
       /\ parent[q] # q => createdAt[parent[q]] < createdAt[q]
  /\ \A v \in Viewers, c \in Reqs : <<v, c>> \in commentLikes => c \in Existing

(* The steps that touch comments.                                          *)
LEMMA CommentSteps ==
  ASSUME [Next]_vars
  PROVE  \/ UNCHANGED commentVars
         \/ \E q \in Reqs : CommentCheck(q) \/ InsertComment(q)
         \/ \E q, c \in Reqs : ChangeComment(q, c)
<1>1. ASSUME NEW q \in Reqs, Engage(q) PROVE UNCHANGED commentVars
  BY <1>1 DEF Engage, GetVideo, LikeVideo, UnlikeVideo, Begin, MarkViewed, CountView,
             RefreshLikeCount
<1>2. ASSUME NEW q \in Reqs, ParentCheck(q) PROVE UNCHANGED commentVars
  BY <1>2 DEF ParentCheck
<1>3. ASSUME NEW k \in ViewKeys, ViewKeyExpires(k) PROVE UNCHANGED commentVars
  BY <1>3 DEF ViewKeyExpires
<1> QED BY <1>1, <1>2, <1>3 DEF Next, Comment, CreateComment, vars

(* What SetComment does to the comments, whichever request does it.        *)
LEMMA ChangeOfComment ==
  ASSUME Typed, NEW q \in Reqs, NEW c \in Reqs, ChangeComment(q, c)
  PROVE  \/ /\ \E to \in {"visible", "hidden", "deleted"} :
                  /\ comment' = [comment EXCEPT ![c] = to]
                  /\ comment[c] \in {"visible", "hidden", "deleted"}
                  /\ to = "hidden" => comment[c] = "visible"
            /\ UNCHANGED <<parent, createdAt, commentLikes>>
         \/ \E v \in Viewers :
              /\ comment[c] # "none"
              /\ commentLikes' \in {commentLikes \cup {<<v, c>>}, commentLikes \ {<<v, c>>}}
              /\ UNCHANGED <<comment, parent, createdAt>>
BY DEF ChangeComment, DeleteComment, HideComment, UnhideComment, RestoreComment, SetComment,
       LikeComment

(* The parent of a comment is there before it.                             *)
LEMMA AgesNext == ASSUME Typed, Replies, Ages, [Next]_vars PROVE Ages'
<1>1. IsFiniteSet(Existing) /\ Cardinality(Existing) \in Nat
  BY EngagementAssumption, FS_Subset, FS_CardinalityType DEF Existing
<1>2. CASE UNCHANGED commentVars
  BY <1>2 DEF Ages, Existing, commentVars
<1>3. ASSUME NEW q \in Reqs, CommentCheck(q) PROVE Ages'
  <2>1. /\ q \notin Existing /\ \A r \in Existing : parent'[r] = parent[r]
        /\ UNCHANGED <<comment, createdAt, commentLikes>>
    BY <1>3 DEF CommentCheck, Replies, Existing, Typed
  <2>2. Existing' = Existing
    BY <2>1 DEF Existing
  <2> QED BY <2>1, <2>2 DEF Ages
<1>4. ASSUME NEW q \in Reqs, InsertComment(q) PROVE Ages'
  <2>1. CASE UNCHANGED <<comment, createdAt>>
    BY <1>4, <2>1 DEF InsertComment, Ages, Existing
  <2>2. CASE ~ UNCHANGED <<comment, createdAt>>
    <3>1. /\ comment' = [comment EXCEPT ![q] = "visible"]
          /\ createdAt' = [createdAt EXCEPT ![q] = Cardinality(Existing)]
          /\ UNCHANGED <<parent, commentLikes>> /\ pc[q] = "insert"
      BY <1>4, <2>2 DEF InsertComment, Existing
    <3>2. q \notin Existing /\ (parent[q] = q \/ parent[q] \in Existing)
      BY <3>1 DEF Replies, Existing, Typed
    <3>3. Existing' = Existing \cup {q}
      BY <3>1 DEF Existing, Typed
    <3>4. Cardinality(Existing') = Cardinality(Existing) + 1
      BY <1>1, <3>2, <3>3, FS_AddElement
    <3>5. /\ createdAt'[q] = Cardinality(Existing)
          /\ \A r \in Existing : createdAt'[r] = createdAt[r] /\ createdAt[r] \in Nat
      BY <3>1, <3>2 DEF Typed, Existing
    <3>6. \A r \in Existing : parent[r] # r => parent[r] \in Existing
      BY DEF Replies, Existing, Typed
    <3> HIDE DEF Existing
    <3>7. ASSUME NEW r \in Existing'
          PROVE  /\ createdAt'[r] < Cardinality(Existing')
                 /\ parent'[r] # r => createdAt'[parent'[r]] < createdAt'[r]
      BY <1>1, <3>1, <3>2, <3>3, <3>4, <3>5, <3>6 DEF Ages
    <3> QED BY <3>1, <3>3, <3>7 DEF Ages
  <2> QED BY <2>1, <2>2
<1>5. ASSUME NEW q \in Reqs, NEW c \in Reqs, ChangeComment(q, c) PROVE Ages'
  <2>1. UNCHANGED <<parent, createdAt>> /\ Existing' = Existing
    BY <1>5, ChangeOfComment DEF Typed, Existing
  <2>2. \A v \in Viewers, d \in Reqs : <<v, d>> \in commentLikes' =>
          <<v, d>> \in commentLikes \/ d \in Existing
    BY <1>5, ChangeOfComment DEF Existing
  <2> QED BY <2>1, <2>2 DEF Ages
<1> QED BY <1>2, <1>3, <1>4, <1>5, CommentSteps

------------------------------------------------------------------------------
Inv ==
  /\ Typed /\ Flags /\ Carried /\ Pictured
  /\ Documents /\ Fresh /\ Gone
  /\ Views /\ Likes /\ Replies /\ Ages

LEMMA InvInit == Init => Inv
<1> SUFFICES ASSUME Init PROVE Inv
  OBVIOUS
<1>1. Typed
  BY EngagementAssumption DEF Init, CatalogInit, Typed, Visibilities, CatalogLabels
<1>2. Flags /\ Carried /\ Pictured
  BY DEF Init, CatalogInit, Flags, Carried, Pictured
<1>3. Documents
  BY DEF Init, CatalogInit, Documents, Written, NoDoc
<1>4. Fresh /\ Gone /\ Replies /\ Ages
  BY DEF Init, CatalogInit, Fresh, Gone, Replies, Ages, Existing
<1>5. Views
  <2>1. Counting = {} /\ viewed = {} /\ viewCount = 0 /\ expiries = 0
    BY DEF Init, CatalogInit, Counting
  <2> QED BY <2>1, FS_EmptySet DEF Views
<1>6. Likes
  <2>1. Cardinality(Viewers) \in Nat /\ Cardinality({}) = 0
    BY EngagementAssumption, FS_CardinalityType, FS_EmptySet
  <2> QED BY <2>1 DEF Init, Likes
<1> QED BY <1>1, <1>2, <1>3, <1>4, <1>5, <1>6 DEF Inv

(* The invariant of every behaviour, from which the theorems follow.       *)
LEMMA InvHolds == Spec => []Inv
<1>1. Inv /\ [Next]_vars => Inv'
  BY TypedNext, FlagsNext, CarriedNext, PicturedNext, DocumentsNext, FreshNext, GoneNext,
     ViewsNext, LikesNext, RepliesNext, AgesNext DEF Inv
<1> QED BY InvInit, <1>1, PTL DEF Spec

LEMMA InvTypes == Inv => TypeOK
<1> SUFFICES ASSUME Inv PROVE TypeOK
  OBVIOUS
<1>1. {ready, deleted, behind, renamed, kept} \subseteq BOOLEAN /\ crossed \in BOOLEAN
  BY DEF Inv, Flags
<1>2. /\ doc \in [title : 0 .. title, owner : 0 .. owner]
      /\ loaded \in [Reqs -> [title : 0 .. title, owner : 0 .. owner]]
      /\ doc.title = 0 <=> doc = NoDoc
  BY DEF Inv, Typed, Documents, Written
<1>3. CatalogTypeOK
  BY <1>1, <1>2 DEF Inv, Typed, CatalogTypeOK
<1>4. likeCount \in 0 .. Cardinality(Viewers) /\ counted \in [Reqs -> Nat]
  <2>1. Cardinality(Viewers) \in Nat
    BY EngagementAssumption, FS_CardinalityType
  <2> QED BY <2>1 DEF Inv, Likes
<1> QED BY <1>1, <1>3, <1>4 DEF Inv, Typed, TypeOK

(* Every list and every search with a text asks at least for what GetVideo *)
(* and GetSignedURLs ask for.                                              *)
LEMMA ListsAreStrict == ASSUME Typed, Flags PROVE FoundIsServed
<1> USE DEF Served, GetSignedURLs
<1>1. \A text \in 1 .. title : SearchHits(text) => Served(FALSE) /\ GetSignedURLs(FALSE)
  <2> SUFFICES ASSUME NEW text \in 1 .. title, SearchHits(text)
               PROVE  Served(FALSE) /\ GetSignedURLs(FALSE)
    OBVIOUS
  <2>1. text # 0
    BY DEF Typed
  <2> QED BY <2>1 DEF SearchHits
<1>2. ListVideos \/ RelatedVideos => Served(FALSE) /\ GetSignedURLs(FALSE)
  BY DEF ListVideos, RelatedVideos
<1>3. ASSUME NEW byOwner \in BOOLEAN, ListChannelVideos(byOwner)
      PROVE  Served(byOwner) /\ GetSignedURLs(byOwner)
  BY <1>3 DEF ListChannelVideos
<1>4. GetChannel = 1 <=> ListChannelVideos(FALSE)
  BY DEF GetChannel, ListChannelVideos
<1> QED BY <1>1, <1>2, <1>3, <1>4 DEF FoundIsServed

(* A settled index finds a ready video by its title and a deleted one not  *)
(* at all.                                                                 *)
LEMMA SettledSearch == ASSUME Inv PROVE SearchAgrees
<1> SUFFICES ASSUME Indexing = {}, ~ behind, ~ kept
             PROVE  /\ \A text \in 1 .. title :
                         SearchHits(text) <=> text = title /\ ListVideos
                    /\ deleted => ~ SearchHits(0)
  BY DEF SearchAgrees
<1>1. ready /\ ~ deleted => doc.title = title
  BY DEF Inv, Fresh
<1>2. deleted => doc = NoDoc
  BY DEF Inv, Gone, Indexing
<1>3. title \in Nat \ {0} /\ (doc.title = 0 <=> doc = NoDoc)
  BY DEF Inv, Typed, Documents, Written
<1>4. ASSUME NEW text \in 1 .. title PROVE SearchHits(text) <=> text = title /\ ListVideos
  BY <1>1, <1>3 DEF SearchHits, ListVideos
<1> QED BY <1>2, <1>4 DEF SearchHits

------------------------------------------------------------------------------
(* The types; once no indexing is under way, a search for a text finds the *)
(* video by its current title only, and only while ListVideos lists it,    *)
(* and a deleted video not at all, with the exceptions of IndexAgrees;     *)
(* what a list, or a search for a text, names is served to the same        *)
(* caller, however stale its document (a search without a text is excepted *)
(* since it names private videos too); and the channel's picture is        *)
(* stored.                                                                 *)
THEOREM CatalogInvHolds == Spec => []CatalogInv
<1>1. Inv => SearchAgrees /\ FoundIsServed /\ AvatarIsStored
  BY SettledSearch, ListsAreStrict DEF Inv, Pictured, AvatarIsStored
<1> QED BY <1>1, InvTypes, InvHolds, PTL DEF CatalogInv

(* Once no indexing is under way the document of a ready video has its     *)
(* title and owner, and that of a deleted video is gone, unless a          *)
(* statement failed, was overtaken, or the deletion was a moderator's.     *)
THEOREM IndexAgreesHolds == Spec => []IndexAgrees
<1>1. Inv => DocumentIsFresh
  BY DEF Inv, Fresh, DocumentIsFresh
<1>2. Inv => NoGhostDocument
  BY DEF Inv, Gone, NoGhostDocument, Indexing
<1> QED BY <1>1, <1>2, InvHolds, PTL DEF IndexAgrees

(* view_count never exceeds the keys of the connections that were served,  *)
(* an address or an address and a port each, plus the keys that expired,   *)
(* and like_count is the number of likes, unless two transactions          *)
(* overlapped.                                                             *)
THEOREM CountsAreTrueHolds == Spec => []CountsAreTrue
<1>1. ASSUME Inv PROVE ViewsDeduplicated
  <2>1. /\ IsFiniteSet(WatchedKeys) /\ Cardinality(WatchedKeys) \in Nat
        /\ Cardinality(viewed) \in Nat
    BY <1>1, KeysFinite DEF Inv
  <2>2. Cardinality(viewed) <= Cardinality(WatchedKeys)
    BY <1>1, <2>1, FS_Subset DEF Inv, Views
  <2>3. Cardinality(Counting) \in Nat /\ viewCount \in Nat /\ expiries \in Nat
    BY <1>1, FS_CardinalityType, EngagementAssumption DEF Inv, Views, Typed
  <2> QED BY <1>1, <2>1, <2>2, <2>3 DEF Inv, Views, ViewsDeduplicated, WatchedKeys
<1>2. Inv => LikeCountIsTrue
  BY DEF Inv, Likes, LikeCountIsTrue
<1> QED BY <1>1, <1>2, InvHolds, PTL DEF CountsAreTrue

------------------------------------------------------------------------------
(* A comment has finitely many likes.                                      *)
LEMMA LikesAreCounted == ASSUME NEW c PROVE LikesOf(c) \in Nat /\ (LikesOf(c))' \in Nat
BY EngagementAssumption, FS_Subset, FS_CardinalityType DEF LikesOf

(* A comment stays in the list if nothing gets ahead of it.                *)
LEMMA StillShown ==
  ASSUME NEW c \in Shown, NEW p \in Reqs, p = parent[c],
         c \in Listed', p \in Listed', parent'[c] = p, parent'[p] = p,
         TopAhead(p)' \subseteq TopAhead(p),
         p = c \/ ReplyAhead(c)' \subseteq ReplyAhead(c)
  PROVE  c \in Shown'
<1>1. /\ Cardinality(TopAhead(p)) < TopLimit
      /\ p = c \/ Cardinality(ReplyAhead(c)) < ReplyLimit
  BY DEF Shown, Threads
<1>2. TopAhead(p) \subseteq Reqs /\ ReplyAhead(c) \subseteq Reqs
  BY DEF TopAhead, ReplyAhead, Listed
<1>3. /\ IsFiniteSet(TopAhead(p)) /\ Cardinality(TopAhead(p)) \in Nat
      /\ IsFiniteSet(ReplyAhead(c)) /\ Cardinality(ReplyAhead(c)) \in Nat
  BY <1>2, EngagementAssumption, FS_Subset, FS_CardinalityType
<1>4. Cardinality(TopAhead(p)') < TopLimit
  <2>1. /\ Cardinality(TopAhead(p)') \in Nat
        /\ Cardinality(TopAhead(p)') <= Cardinality(TopAhead(p))
    BY <1>3, FS_Subset, FS_CardinalityType
  <2> QED BY <1>1, <1>3, <2>1, EngagementAssumption
<1>5. p = c \/ Cardinality(ReplyAhead(c)') < ReplyLimit
  <2>1. CASE p # c
    <3>1. /\ Cardinality(ReplyAhead(c)') \in Nat
          /\ Cardinality(ReplyAhead(c)') <= Cardinality(ReplyAhead(c))
      BY <1>3, <2>1, FS_Subset, FS_CardinalityType
    <3> QED BY <1>1, <1>3, <2>1, <3>1, EngagementAssumption
  <2> QED BY <2>1
<1>6. p \in Threads'
  BY <1>4 DEF Threads
<1> QED BY <1>5, <1>6 DEF Shown

(* What a step may do to the list: it takes a comment off by deleting it,  *)
(* and adds one that was deleted before, or a new one.                     *)
ListStep ==
  /\ \A d \in Listed : /\ d \in Listed' \/ comment'[d] = "deleted"
                       /\ parent'[d] = parent[d] /\ createdAt'[d] = createdAt[d]
  /\ \A d \in Listed' : d \notin Listed =>
       /\ comment'[d] = "visible" /\ parent'[d] = parent[d]
       /\ \/ comment[d] = "deleted"
          \/ /\ comment[d] = "none" /\ LikesOf(d)' = 0
             /\ \A e \in Listed : createdAt[e] < createdAt'[d]

LEMMA ListNext == ASSUME Typed, Replies, Ages, [Next]_vars PROVE ListStep
<1>1. CASE UNCHANGED commentVars
  BY <1>1 DEF commentVars, ListStep, Listed
<1>2. ASSUME NEW q \in Reqs, CommentCheck(q) PROVE ListStep
  <2>1. /\ comment[q] = "none" /\ UNCHANGED <<comment, createdAt>>
        /\ \A r \in Reqs : r # q => parent'[r] = parent[r]
    BY <1>2 DEF CommentCheck, Replies, Typed
  <2> QED BY <2>1 DEF ListStep, Listed
<1>3. ASSUME NEW q \in Reqs, InsertComment(q) PROVE ListStep
  <2>1. CASE UNCHANGED <<comment, createdAt>>
    BY <1>3, <2>1 DEF InsertComment, ListStep, Listed
  <2>2. CASE ~ UNCHANGED <<comment, createdAt>>
    <3>1. /\ comment' = [comment EXCEPT ![q] = "visible"]
          /\ createdAt' = [createdAt EXCEPT ![q] = Cardinality(Existing)]
          /\ UNCHANGED <<parent, commentLikes>> /\ comment[q] = "none"
      BY <1>3, <2>2 DEF InsertComment, Existing, Replies
    <3>2. LikesOf(q)' = 0
      <4>1. {v \in Viewers : <<v, q>> \in commentLikes'} = {}
        BY <3>1 DEF Ages, Existing
      <4> QED BY <4>1, FS_EmptySet DEF LikesOf
    <3>3. \A e \in Listed : e # q /\ createdAt[e] < createdAt'[q] /\ createdAt'[e] = createdAt[e]
      BY <3>1 DEF Ages, Existing, Listed, Typed
    <3>4. Listed' = Listed \cup {q}
      BY <3>1 DEF Listed, Typed
    <3>5. comment'[q] = "visible"
      BY <3>1 DEF Typed
    <3> QED BY <3>1, <3>2, <3>3, <3>4, <3>5 DEF ListStep
  <2> QED BY <2>1, <2>2
<1>4. ASSUME NEW q \in Reqs, NEW c \in Reqs, ChangeComment(q, c) PROVE ListStep
  <2>1. CASE UNCHANGED <<comment, parent, createdAt>>
    BY <2>1 DEF ListStep, Listed
  <2>2. ASSUME NEW to \in {"visible", "hidden", "deleted"},
               comment' = [comment EXCEPT ![c] = to],
               comment[c] \in {"visible", "hidden", "deleted"},
               to = "hidden" => comment[c] = "visible",
               UNCHANGED <<parent, createdAt>>
        PROVE  ListStep
    BY <2>2 DEF ListStep, Listed, Typed
  <2> QED BY <1>4, <2>1, <2>2, ChangeOfComment
<1> QED BY <1>1, <1>2, <1>3, <1>4, CommentSteps

(* Threads stand in the order of their likes and then of their ages, so a  *)
(* thread is overtaken by likes, by a restored thread or, if it has none,  *)
(* by a new one; replies stand in the order of their ages alone.           *)
LEMMA ListKeeps ==
  ASSUME Typed, Typed', ListStep, NEW c \in Shown, ~ Displaced(c)
  PROVE  c \in Shown'
<1>1. PICK p \in Reqs : p = parent[c]
  BY DEF Shown, Listed, Typed
<1>2. p \in Listed /\ c \in Listed /\ parent[p] = p
  BY <1>1 DEF Shown, Threads
<1>3. /\ p \in Listed' /\ c \in Listed' /\ parent'[c] = p /\ parent'[p] = p
      /\ createdAt'[c] = createdAt[c] /\ createdAt'[p] = createdAt[p]
  BY <1>1, <1>2 DEF ListStep, Displaced
<1>4. LikesOf(parent[c])' = LikesOf(p)'
  BY <1>3
<1>5. LikesOf(p) \in Nat /\ LikesOf(p)' \in Nat /\ LikesOf(p) <= LikesOf(p)'
  BY <1>1, <1>4, LikesAreCounted DEF Displaced
<1>6. \A d \in Listed : d \in Reqs /\ createdAt[d] \in Nat
  BY DEF Listed, Typed
<1>7. \A d \in Listed' : d \in Reqs /\ createdAt'[d] \in Nat
  BY DEF Listed, Typed
<1>8. ASSUME NEW d \in TopAhead(p)' PROVE d \in TopAhead(p)
  <2>1. /\ d \in Listed' /\ parent'[d] = d
        /\ \/ LikesOf(p)' < LikesOf(d)'
           \/ LikesOf(d)' = LikesOf(p)' /\ createdAt'[p] < createdAt'[d]
    BY <1>8 DEF TopAhead
  <2>2. d # p /\ parent[d] = d
    BY <1>3, <1>5, <1>7, <2>1 DEF ListStep
  <2>3. LikesOf(d) \in Nat /\ LikesOf(d)' \in Nat /\ LikesOf(d)' <= LikesOf(d)
    BY <1>1, <1>7, <2>1, <2>2, LikesAreCounted DEF Displaced
  <2>4. CASE d \in Listed
    <3>1. createdAt'[d] = createdAt[d]
      BY <2>4 DEF ListStep
    <3>2. \/ LikesOf(p) < LikesOf(d)
          \/ LikesOf(d) = LikesOf(p) /\ createdAt[p] < createdAt[d]
      BY <1>3, <1>5, <2>1, <2>3, <3>1
    <3> QED BY <1>6, <1>2, <2>2, <2>4, <3>2 DEF TopAhead
  <2>5. CASE d \notin Listed
    <3>1. comment[d] = "none" /\ comment'[d] = "visible" /\ LikesOf(d)' = 0
      BY <1>7, <2>1, <2>2, <2>5 DEF ListStep, Displaced
    <3>2. LikesOf(p) # 0
      BY <1>1, <1>7, <2>1, <2>2, <3>1 DEF Displaced
    <3> QED BY <1>5, <2>1, <3>1, <3>2
  <2> QED BY <2>4, <2>5
<1>9. ASSUME p # c, NEW d \in ReplyAhead(c)' PROVE d \in ReplyAhead(c)
  <2>1. d \in Listed' /\ parent'[d] = p /\ p # d /\ createdAt'[d] < createdAt[c]
    BY <1>3, <1>9 DEF ReplyAhead
  <2>2. CASE d \in Listed
    <3>1. parent[d] = p /\ createdAt[d] < createdAt[c]
      BY <2>1, <2>2 DEF ListStep
    <3> QED BY <1>1, <2>1, <2>2, <3>1 DEF ReplyAhead
  <2>3. CASE d \notin Listed
    <3>1. comment'[d] = "visible" /\ parent[d] = p
      BY <2>1, <2>3 DEF ListStep
    <3>2. comment[d] # "deleted"
      BY <1>1, <1>7, <2>1, <3>1 DEF Displaced
    <3>3. createdAt[c] < createdAt'[d]
      BY <1>2, <2>1, <2>3, <3>2 DEF ListStep
    <3> QED BY <1>2, <1>6, <1>7, <2>1, <3>3
  <2> QED BY <2>2, <2>3
<1> QED BY <1>1, <1>3, <1>8, <1>9, StillShown

(* No reply is added under a comment that was deleted or hidden when the   *)
(* reply came in and until it was stored, and every reply is younger than  *)
(* its parent.                                                             *)
THEOREM RepliesAreAllowedHolds == Spec => []RepliesAreAllowed
<1>1. Inv => RepliesAreAllowed
  BY DEF Inv, Typed, Replies, Ages, Existing, RepliesAreAllowed
<1> QED BY <1>1, InvHolds, PTL

(* A comment that ListComments shows stays in the list until it or its     *)
(* parent is deleted, likes of threads change to its disadvantage, a       *)
(* deleted comment of its kind is restored or, if nobody likes its thread, *)
(* a new thread is started: for every number of comments and every value   *)
(* of the two limits.                                                      *)
THEOREM ShownStaysHolds == Spec => ShownStays
<1>1. Inv /\ Inv' /\ [Next]_vars => [\A c \in Shown : c \in Shown' \/ Displaced(c)]_vars
  BY ListNext, ListKeeps DEF Inv
<1> QED BY <1>1, InvHolds, PTL DEF Spec, ShownStays
==============================================================================
