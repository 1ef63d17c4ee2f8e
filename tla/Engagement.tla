----------------------------- MODULE Engagement -----------------------------
(***************************************************************************)
(* Views, likes and comments of the video of VideoCatalog                  *)
(* (handlers/video.go, handlers/comments.go): what others do while owner,  *)
(* worker and moderators change the video itself. A request creates at     *)
(* most one comment, which carries its name. Viewers are users who like;   *)
(* the view counter knows connections and addresses only.                  *)
(*                                                                         *)
(* Texts of comments and reports are left out.                             *)
(***************************************************************************)
EXTENDS VideoCatalog

CONSTANTS Viewers,     \* users
          Conns,       \* connections, of TCP: an address and a port each
          Address,     \* the client's address of a connection
          Forwarded,   \* connections through a proxy that adds X-Forwarded-For
          TopLimit,    \* comments in a list, 50 in the code
          ReplyLimit,  \* replies in a list of one comment's, 10 in the code
          MaxExpiries  \* bound: view keys that expire

ASSUME EngagementAssumption ==
  /\ MaxExpiries \in Nat /\ TopLimit \in Nat \ {0} /\ ReplyLimit \in Nat \ {0}
  /\ IsFiniteSet(Viewers) /\ IsFiniteSet(Conns) /\ IsFiniteSet(Reqs)
  /\ Forwarded \subseteq Conns

VARIABLES
  viewCount,  \* videos.view_count
  viewed,     \* the keys view:dedup:<video>:<...> in Redis
  likes,      \* rows of video_likes
  likeCount,  \* videos.like_count
  counted,    \* the likes the trigger of an open transaction has counted
  comment,    \* the comment a request created: deleted_at is set if "deleted",
              \* else the status is 'visible' or not
  parent,     \* its parent_id, or itself
  createdAt,  \* its created_at: the number of comments then
  commentLikes, \* rows of comment_likes
  watched,    \* history: connections the video was served on
  expiries,   \* history: view keys that expired
  alone,      \* history: open like transactions no other one overlaps
  crossed,    \* history: the last of them to end was not alone
  barred      \* history: comments deleted or hidden ever since a request arrived

videoVars == <<rowVars, channelVars, doc, loaded, catalogHistory>>
viewVars == <<viewCount, viewed, watched, expiries>>
likeVars == <<likes, likeCount, counted, alone, crossed>>
commentVars == <<comment, parent, createdAt, commentLikes, barred>>
vars == <<catalogVars, viewVars, likeVars, commentVars>>

(* clientIP of GetVideo: the first address of X-Forwarded-For, else        *)
(* RemoteAddr, which has the port in it.                                   *)
ViewKey(c) == IF c \in Forwarded THEN Address[c] ELSE c
ViewKeys == {ViewKey(c) : c \in Conns}

TypeOK ==
  /\ CatalogTypeOK
  /\ pc \in [Reqs -> CatalogLabels \cup {"view", "count", "like", "unlike", "parent",
                                        "insert"}]
  /\ arg \in [Reqs -> ImageKeys \cup Viewers \cup ViewKeys \cup {"none"}]
  /\ viewCount \in Nat
  /\ viewed \subseteq ViewKeys /\ watched \subseteq Conns /\ likes \subseteq Viewers
  /\ likeCount \in 0 .. Cardinality(Viewers)
  /\ counted \in [Reqs -> Nat]
  /\ comment \in [Reqs -> {"none", "visible", "hidden", "deleted"}]
  /\ parent \in [Reqs -> Reqs]
  /\ createdAt \in [Reqs -> Nat]
  /\ commentLikes \subseteq Viewers \X Reqs
  /\ expiries \in 0 .. MaxExpiries
  /\ alone \subseteq Reqs
  /\ crossed \in BOOLEAN
  /\ barred \in [Reqs -> SUBSET Reqs]

Init ==
  /\ CatalogInit
  /\ viewCount = 0
  /\ viewed = {}
  /\ likes = {}
  /\ likeCount = 0
  /\ counted = [q \in Reqs |-> 0]
  /\ comment = [q \in Reqs |-> "none"]
  /\ parent = [q \in Reqs |-> q]
  /\ createdAt = [q \in Reqs |-> 0]
  /\ commentLikes = {}
  /\ watched = {}
  /\ expiries = 0
  /\ alone = {}
  /\ crossed = FALSE
  /\ barred = [q \in Reqs |-> {}]

------------------------------------------------------------------------------
(* GetVideo serves the video and starts a goroutine that counts the view.  *)
GetVideo(q, c) ==
  /\ pc[q] = "new"
  /\ Served(FALSE)
  /\ arg' = [arg EXCEPT ![q] = ViewKey(c)]
  /\ watched' = watched \cup {c}
  /\ Goto(q, "view")
  /\ UNCHANGED <<videoVars, viewCount, viewed, expiries, likeVars, commentVars>>

(* Seeded bug: the reply of SETNX is not looked at.                        *)
MarkViewedAnyway(q) ==
  /\ pc[q] = "view"
  /\ \E o \in Outcomes("redis") :
       /\ viewed' = IF Executed(o) THEN viewed \cup {arg[q]} ELSE viewed
       /\ Proceed(q, o, "count")
  /\ UNCHANGED <<videoVars, arg, viewCount, watched, expiries, likeVars, commentVars>>

(* SETNX of the key, for an hour.                                          *)
MarkViewed(q) ==
  /\ pc[q] = "view"
  /\ \E o \in Outcomes("redis") :
       /\ viewed' = IF Executed(o) THEN viewed \cup {arg[q]} ELSE viewed
       /\ Proceed(q, o, IF arg[q] \in viewed THEN "over" ELSE "count")
  /\ UNCHANGED <<videoVars, arg, viewCount, watched, expiries, likeVars, commentVars>>

CountView(q) ==
  /\ pc[q] = "count"
  /\ \E o \in Outcomes("db") : viewCount' = viewCount + (IF Executed(o) THEN 1 ELSE 0)
  /\ Goto(q, "over")
  /\ UNCHANGED <<videoVars, arg, viewed, watched, expiries, likeVars, commentVars>>

ViewKeyExpires(k) ==
  /\ k \in viewed
  /\ expiries < MaxExpiries
  /\ viewed' = viewed \ {k}
  /\ expiries' = expiries + 1
  /\ UNCHANGED <<catalogVars, viewCount, watched, likeVars, commentVars>>

------------------------------------------------------------------------------
(* LikeVideo and UnlikeVideo: a statement whose trigger refreshes          *)
(* like_count. The trigger counts the likes committed when it starts and   *)
(* its own, then waits for the lock on the video's row. A transaction      *)
(* waits for another one on the same like.                                 *)
Liking == {q \in Reqs : pc[q] \in {"like", "unlike"}}

Begin(q, v, label, after) ==
  /\ pc[q] = "new"
  /\ \A r \in Liking : arg[r] # v
  /\ arg' = [arg EXCEPT ![q] = v]
  /\ counted' = [counted EXCEPT ![q] = Cardinality(after)]
  /\ alone' = IF Liking = {} THEN {q} ELSE {}
  /\ Goto(q, label)
  /\ UNCHANGED <<videoVars, viewVars, likes, likeCount, crossed, commentVars>>

LikeVideo(q, v) == v \notin likes /\ Begin(q, v, "like", likes \cup {v})
UnlikeVideo(q, v) == v \in likes /\ Begin(q, v, "unlike", likes \ {v})

(* Seeded bug: the trigger of the DELETE is missing.                       *)
RefreshLikeCountInserts(q) ==
  /\ q \in Liking
  /\ IF pc[q] = "like"
     THEN likes' = likes \cup {arg[q]} /\ likeCount' = counted[q]
     ELSE likes' = likes \ {arg[q]} /\ UNCHANGED likeCount
  /\ crossed' = (q \notin alone)
  /\ alone' = alone \ {q}
  /\ Goto(q, "over")
  /\ UNCHANGED <<videoVars, arg, viewVars, counted, commentVars>>

(* refresh_video_like_count writes what it counted, and the commit.        *)
RefreshLikeCount(q) ==
  /\ q \in Liking
  /\ likes' = IF pc[q] = "like" THEN likes \cup {arg[q]} ELSE likes \ {arg[q]}
  /\ likeCount' = counted[q]
  /\ crossed' = (q \notin alone)
  /\ alone' = alone \ {q}
  /\ Goto(q, "over")
  /\ UNCHANGED <<videoVars, arg, viewVars, counted, commentVars>>

------------------------------------------------------------------------------
(* CreateComment looks for the video; a stranger may not comment on a      *)
(* private one. The parent is any comment of the video the client has seen. *)
CommentCheck(q) ==
  /\ pc[q] = "new"
  /\ ~ deleted
  /\ visibility # "private"
  /\ barred' = [barred EXCEPT ![q] = {c \in Reqs : comment[c] \in {"hidden", "deleted"}}]
  /\ \E p \in {r \in Reqs : r = q \/ comment[r] # "none"} : parent' = [parent EXCEPT ![q] = p]
  /\ Goto(q, IF parent'[q] = q THEN "insert" ELSE "parent")
  /\ UNCHANGED <<videoVars, arg, viewVars, likeVars, comment, createdAt, commentLikes>>

(* Seeded bug: the parent is looked for without status = 'visible'.        *)
ParentCheckAny(q) ==
  /\ pc[q] = "parent"
  /\ Goto(q, IF comment[parent[q]] \in {"visible", "hidden"} THEN "insert" ELSE "over")
  /\ UNCHANGED <<videoVars, arg, viewVars, likeVars, commentVars>>

(* The parent is looked for among the comments that are neither deleted    *)
(* nor hidden.                                                             *)
ParentCheck(q) ==
  /\ pc[q] = "parent"
  /\ Goto(q, IF comment[parent[q]] = "visible" THEN "insert" ELSE "over")
  /\ UNCHANGED <<videoVars, arg, viewVars, likeVars, commentVars>>

InsertComment(q) ==
  /\ pc[q] = "insert"
  /\ \E o \in Outcomes("db") :
       IF Executed(o)
       THEN /\ comment' = [comment EXCEPT ![q] = "visible"]
            /\ createdAt' = [createdAt EXCEPT ![q] =
                               Cardinality({c \in Reqs : comment[c] # "none"})]
       ELSE UNCHANGED <<comment, createdAt>>
  /\ Goto(q, "over")
  /\ UNCHANGED <<videoVars, arg, viewVars, likeVars, parent, commentLikes, barred>>

(* One UPDATE of a comment. A CreateComment under way is no longer barred  *)
(* from replying to a comment that is visible again.                       *)
SetComment(q, c, from, to) ==
  /\ pc[q] = "new"
  /\ comment[c] \in from
  /\ comment' = [comment EXCEPT ![c] = to]
  /\ barred' = [r \in Reqs |-> IF pc[r] = "over" \/ to # "visible" THEN barred[r]
                               ELSE barred[r] \ {c}]
  /\ Goto(q, "over")
  /\ UNCHANGED <<videoVars, arg, viewVars, likeVars, parent, createdAt, commentLikes>>

(* DeleteComment by its author, or a moderator's remove_comment.           *)
DeleteComment(q, c) == SetComment(q, c, {"visible", "hidden"}, "deleted")

(* A moderator's hide_content, or UpdateComment of an administrator.       *)
HideComment(q, c) == SetComment(q, c, {"visible"}, "hidden")

UnhideComment(q, c) == SetComment(q, c, {"hidden"}, "visible")

(* A moderator's restore_content.                                          *)
RestoreComment(q, c) == SetComment(q, c, {"deleted"}, "visible")

(* LikeComment and UnlikeComment, also of a deleted comment.               *)
LikeComment(q, v, c) ==
  /\ pc[q] = "new"
  /\ comment[c] # "none"
  /\ commentLikes' \in {commentLikes \cup {<<v, c>>}, commentLikes \ {<<v, c>>}}
  /\ Goto(q, "over")
  /\ UNCHANGED <<videoVars, arg, viewVars, likeVars, comment, parent, createdAt, barred>>

------------------------------------------------------------------------------
(* ListComments selects comments that are not deleted, whatever their      *)
(* status (the text of a hidden one is replaced): those with no parent, in *)
(* the order of ORDER BY like_count DESC, created_at DESC, up to TopLimit, *)
(* and for each the replies to it, oldest first, up to ReplyLimit. Replies *)
(* to replies are not looked for.                                          *)
Listed == {c \in Reqs : comment[c] \in {"visible", "hidden"}}

LikesOf(c) == Cardinality({v \in Viewers : <<v, c>> \in commentLikes})

TopAhead(c) == {d \in Listed : /\ parent[d] = d
                               /\ \/ LikesOf(d) > LikesOf(c)
                                  \/ LikesOf(d) = LikesOf(c) /\ createdAt[d] > createdAt[c]}

Threads == {c \in Listed : parent[c] = c /\ Cardinality(TopAhead(c)) < TopLimit}

(* Seeded bug: the newest replies come first.                              *)
ReplyAheadNewest(c) == {d \in Listed : /\ parent[d] = parent[c] /\ parent[d] # d
                                       /\ createdAt[d] > createdAt[c]}

ReplyAhead(c) == {d \in Listed : /\ parent[d] = parent[c] /\ parent[d] # d
                                 /\ createdAt[d] < createdAt[c]}

Shown == {c \in Listed : /\ parent[c] \in Threads
                         /\ parent[c] = c \/ Cardinality(ReplyAhead(c)) < ReplyLimit}

------------------------------------------------------------------------------
CreateComment(q) == CommentCheck(q) \/ ParentCheck(q) \/ InsertComment(q)

Engage(q) ==
  \/ \E c \in Conns : GetVideo(q, c)
  \/ \E v \in Viewers : LikeVideo(q, v) \/ UnlikeVideo(q, v)
  \/ MarkViewed(q) \/ CountView(q) \/ RefreshLikeCount(q)

ChangeComment(q, c) ==
  \/ DeleteComment(q, c) \/ HideComment(q, c) \/ UnhideComment(q, c) \/ RestoreComment(q, c)
  \/ \E v \in Viewers : LikeComment(q, v, c)

Comment(q) == CreateComment(q) \/ \E c \in Reqs : ChangeComment(q, c)

Next ==
  \/ \E q \in Reqs : Engage(q) \/ Comment(q)
  \/ \E q \in Reqs : CatalogStep(q) /\ UNCHANGED <<viewVars, likeVars, commentVars>>
  \/ \E k \in ViewKeys : ViewKeyExpires(k)

Spec == Init /\ [][Next]_vars

------------------------------------------------------------------------------
(* Properties.                                                             *)

(* However the goroutines of GetVideo overlap, a key counts once while it  *)
(* is in Redis: view_count never exceeds the keys of the connections that  *)
(* were served plus the keys that expired. Behind a proxy this is "1 view  *)
(* per IP per video per hour" (handlers/video.go); without one the key has *)
(* the port in it, and the same browser counts again on a new connection.  *)
ViewsDeduplicated == viewCount <= Cardinality({ViewKey(c) : c \in watched}) + expiries

(* like_count is the number of likes whenever no like is being committed,  *)
(* unless two overlapped and counted before either was committed.          *)
LikeCountIsTrue == Liking = {} /\ ~ crossed => likeCount = Cardinality(likes)

(* No reply is added under a comment that was deleted or hidden when the   *)
(* reply came in and until it was stored, and a reply is younger than its  *)
(* parent, so that threads are trees.                                      *)
RepliesAreAllowed ==
  \A q \in Reqs : comment[q] # "none" =>
    /\ parent[q] \notin barred[q]
    /\ parent[q] = q \/ (comment[parent[q]] # "none" /\ createdAt[parent[q]] < createdAt[q])

(* A comment that ListComments shows stays in the list, which is cut off   *)
(* at its limits, until it or its parent is deleted; its thread loses a    *)
(* like or another thread gains one; a deleted comment of the same kind is *)
(* restored; or, as long as nobody likes its thread, a new thread is       *)
(* started. So a new reply never takes the place of an older one, nor a    *)
(* new thread that of a liked one.                                         *)
Displaced(c) ==
  \/ comment'[c] = "deleted" \/ comment'[parent[c]] = "deleted"
  \/ LikesOf(parent[c])' < LikesOf(parent[c])
  \/ \E d \in Reqs : parent[d] = d /\ d # parent[c] /\ LikesOf(d)' > LikesOf(d)
  \/ \E d \in Reqs : /\ comment[d] = "deleted" /\ comment'[d] = "visible"
                     /\ parent[d] \in {d, parent[c]}
  \/ \E d \in Reqs : /\ comment[d] = "none" /\ comment'[d] = "visible"
                     /\ parent[d] = d /\ LikesOf(parent[c]) = 0

ShownStays == [][\A c \in Shown : c \in Shown' \/ Displaced(c)]_vars

(* The types, what searches find, and that what is named exists.           *)
CatalogInv == TypeOK /\ SearchAgrees /\ FoundIsServed /\ AvatarIsStored

(* What the counters of a video say.                                       *)
CountsAreTrue == ViewsDeduplicated /\ LikeCountIsTrue
==============================================================================
