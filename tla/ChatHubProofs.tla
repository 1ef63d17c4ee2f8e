---------------------------- MODULE ChatHubProofs ----------------------------
(***************************************************************************)
(* Proofs about ChatHub, for every set of clients and users, every buffer  *)
(* size and any number of events and private frames.                       *)
(***************************************************************************)
EXTENDS ChatHub, SequenceTheorems, TLAPS

------------------------------------------------------------------------------
(* The invariants.                                                         *)

(* A client is a member of its own room only, from rm.add until rm.remove. *)
Membership ==
  \A r, c \in Clients : c \in clients[r] => room[c] = r /\ pc[c] \in {"reading", "leaving"}

(* A subscription belongs to the room its creator is in; while it is not   *)
(* cancelled, that is the registered room.                                 *)
Subscription ==
  /\ unsub = hubRoom
  /\ \A s \in Clients : sub[s] # "none" => room[s] = s /\ pc[s] # "new"
  /\ \A s \in Clients : sub[s] \in Subscribed => s = hubRoom

(* Somebody who has still to call dropRoom is left for a registered room.  *)
Guarded ==
  hubRoom # None =>
    \E c \in Clients : pc[c] \in {"joining", "reading", "leaving", "closing", "dropping"}

(* Whoever is about to become a member is new to enqueue and closeSend.    *)
Fresh ==
  \A c \in Clients : pc[c] \in {"new", "joining"} =>
    ~ closed[c] /\ send[c] = <<>> /\ received[c] = <<>>

HubInv == Membership /\ Subscription /\ Guarded /\ Fresh /\ PanicNeedsEviction

(* The events among the frames of a sequence increase.                     *)
Inc(a) ==
  \A i, j \in 1 .. Len(a) :
    i < j /\ a[i] # PrivateFrame /\ a[j] # PrivateFrame => a[i] < a[j]

(* The events of a are smaller than those of b.                            *)
Before(a, b) ==
  \A i \in 1 .. Len(a), j \in 1 .. Len(b) :
    a[i] # PrivateFrame /\ b[j] # PrivateFrame => a[i] < b[j]

(* No event of a is greater than n.                                        *)
UpTo(a, n) == \A i \in 1 .. Len(a) : a[i] <= n

(* What a client has received comes before what waits in its channel, and  *)
(* that before what its room's subscription has still to broadcast.        *)
OrderInv ==
  \A c \in Clients :
    /\ Inc(inbox[c]) /\ UpTo(inbox[c], published)
    /\ Inc(send[c]) /\ UpTo(send[c], published)
    /\ Inc(received[c]) /\ UpTo(received[c], published)
    /\ Before(received[c], send[c])
    /\ room[c] \in Clients =>
         Before(send[c], inbox[room[c]]) /\ Before(received[c], inbox[room[c]])

------------------------------------------------------------------------------
(* Type correctness.                                                       *)

LEMMA TypeInit == Init => TypeOK
BY ChatAssumption DEF Init, TypeOK, Subscribed, Frames

(* enqueue keeps every buffer within its capacity.                         *)
LEMMA EnqueueType ==
  ASSUME TypeOK, NEW targets \in SUBSET Clients, NEW frame \in Frames,
         Enqueue(targets, frame)
  PROVE  /\ send' \in [Clients -> Seq(Frames)]
         /\ \A c \in Clients : Len(send'[c]) <= BufSize
         /\ closed' \in [Clients -> BOOLEAN]
         /\ evicted' \subseteq Clients
<1>1. \A c \in Clients : ~ Full(c) =>
        Append(send[c], frame) \in Seq(Frames) /\ Len(Append(send[c], frame)) <= BufSize
  <2> SUFFICES ASSUME NEW c \in Clients, ~ Full(c)
               PROVE  Append(send[c], frame) \in Seq(Frames)
                      /\ Len(Append(send[c], frame)) <= BufSize
    OBVIOUS
  <2>1. send[c] \in Seq(Frames) /\ Len(send[c]) \in Nat
    BY DEF TypeOK
  <2>2. Len(send[c]) < BufSize
    BY <2>1, ChatAssumption DEF Full
  <2> QED BY <2>1, <2>2, ChatAssumption, AppendProperties
<1>2. send' \in [Clients -> Seq(Frames)] /\ \A c \in Clients : Len(send'[c]) <= BufSize
  BY <1>1 DEF Enqueue, TypeOK
<1>3. closed' \in [Clients -> BOOLEAN]
  BY DEF Enqueue
<1>4. evicted' \subseteq Clients
  BY DEF Enqueue, TypeOK
<1> QED BY <1>2, <1>3, <1>4

(* A broadcast goes to a room: this needs that a subscription has one.     *)
LEMMA TypeStep ==
  ASSUME TypeOK, Subscription, [Next]_vars
  PROVE  TypeOK'
<1> USE DEF TypeOK, Goto, Subscribed
<1>1. ASSUME NEW c \in Clients, GetOrCreateRoom(c) PROVE TypeOK'
  <2>1. /\ UNCHANGED <<alive, published, privates, clients, inbox, ws, send, closed, evicted,
                       pump, received, notice>>
        /\ pc' = [pc EXCEPT ![c] = "joining"]
    BY <1>1 DEF GetOrCreateRoom, sendVars, pumpVars
  <2>2. /\ hubRoom' \in Clients \cup {None} /\ unsub' \in Clients \cup {None}
        /\ sub' = sub \/ sub' = [sub EXCEPT ![c] = "starting"]
        /\ \E r \in Clients : room' = [room EXCEPT ![c] = r]
    BY <1>1 DEF GetOrCreateRoom
  <2>3. /\ pc' \in [Clients -> {"new", "joining", "reading", "leaving", "closing", "dropping",
                                "waiting", "gone"}]
        /\ sub' \in [Clients -> Subscribed \cup {"none", "cancelled", "ended"}]
    <3>1. /\ pc \in [Clients -> {"new", "joining", "reading", "leaving", "closing", "dropping",
                                 "waiting", "gone"}]
          /\ sub \in [Clients -> Subscribed \cup {"none", "cancelled", "ended"}]
      OBVIOUS
    <3> HIDE DEF TypeOK
    <3> QED BY <2>1, <2>2, <3>1
  <2>4. /\ room' \in [Clients -> Clients \cup {None}]
        /\ \A d \in Clients : pc'[d] # "new" => room'[d] \in Clients
    BY <2>1, <2>2
  <2> QED BY <2>1, <2>2, <2>3, <2>4
<1>2. ASSUME NEW c \in Clients, Add(c) PROVE TypeOK'
  BY <1>2 DEF Add, subVars, sendVars
<1>3. ASSUME NEW c \in Clients, ReadClose(c) \/ ReadError(c) PROVE TypeOK'
  <2>1. /\ UNCHANGED <<alive, published, privates, hubVars, subVars, room, ws, sendVars, pumpVars,
                       notice>>
        /\ pc[c] = "reading" /\ pc' = [pc EXCEPT ![c] = "leaving"]
    BY <1>3 DEF ReadClose, ReadError
  <2> QED BY <2>1 DEF hubVars, subVars, sendVars, pumpVars
<1>4. ASSUME NEW c \in Clients, Reply(c) PROVE TypeOK'
  <2>1. CASE closed[c]
    <3>1. Goto(c, "leaving") /\ UNCHANGED sendVars /\ pc[c] # "new"
      BY <1>4, <2>1 DEF Reply
    <3>2. privates' \in 0 .. MaxPrivate
      BY <1>4, ChatAssumption DEF Reply
    <3> QED BY <1>4, <3>1, <3>2 DEF Reply, hubVars, subVars, sendVars, pumpVars
  <2>2. CASE ~ closed[c]
    <3>1. Enqueue({c}, PrivateFrame) /\ UNCHANGED pc
      BY <1>4, <2>2 DEF Reply
    <3>2. PrivateFrame \in Frames
      BY ChatAssumption DEF PrivateFrame, Frames
    <3>3. /\ send' \in [Clients -> Seq(Frames)]
          /\ \A d \in Clients : Len(send'[d]) <= BufSize
          /\ closed' \in [Clients -> BOOLEAN]
          /\ evicted' \subseteq Clients
      BY <3>1, <3>2, EnqueueType
    <3>4. privates' \in 0 .. MaxPrivate
      BY <1>4, ChatAssumption DEF Reply
    <3>5. UNCHANGED <<alive, published, hubVars, subVars, pc, room, ws, pumpVars, notice>>
      BY <1>4, <3>1 DEF Reply
    <3> QED BY <3>3, <3>4, <3>5 DEF hubVars, subVars, pumpVars
  <2> QED BY <2>1, <2>2
<1>5. ASSUME NEW c \in Clients, PeerGone(c) PROVE TypeOK'
  BY <1>5 DEF PeerGone, hubVars, subVars, sendVars, pumpVars
<1>6. ASSUME NEW c \in Clients, Remove(c) PROVE TypeOK'
  BY <1>6 DEF Remove, subVars, sendVars, pumpVars
<1>7. ASSUME NEW c \in Clients, CloseSend(c) PROVE TypeOK'
  BY <1>7 DEF CloseSend, hubVars, subVars, pumpVars
<1>8. ASSUME NEW c \in Clients, DropRoom(c) PROVE TypeOK'
  BY <1>8 DEF DropRoom, sendVars, pumpVars
<1>9. ASSUME NEW c \in Clients, AwaitDone(c) PROVE TypeOK'
  BY <1>9 DEF AwaitDone, hubVars, subVars, sendVars, pumpVars
<1>10. ASSUME NEW c \in Clients, PumpWrite(c) PROVE TypeOK'
  <2>1. send[c] \in Seq(Frames) /\ send[c] # <<>>
    BY <1>10 DEF PumpWrite
  <2>2. Tail(send[c]) \in Seq(Frames) /\ Len(Tail(send[c])) <= BufSize
    <3>1. Tail(send[c]) \in Seq(Frames) /\ Len(Tail(send[c])) = Len(send[c]) - 1
      BY <2>1, HeadTailProperties
    <3>2. Len(send[c]) <= BufSize /\ Len(send[c]) \in Nat /\ BufSize \in Nat
      BY <2>1, ChatAssumption
    <3> QED BY <3>1, <3>2
  <2>3. Head(send[c]) # PrivateFrame => Append(received[c], Head(send[c])) \in Seq(1 .. MaxEvents)
    <3>1. Head(send[c]) \in Frames
      BY <2>1, HeadTailProperties
    <3>2. Head(send[c]) # PrivateFrame => Head(send[c]) \in 1 .. MaxEvents
      BY <3>1, ChatAssumption DEF Frames, PrivateFrame
    <3>3. received[c] \in Seq(1 .. MaxEvents)
      OBVIOUS
    <3> QED BY <3>2, <3>3, AppendProperties
  <2>4. send' \in [Clients -> Seq(Frames)] /\ \A d \in Clients : Len(send'[d]) <= BufSize
    BY <1>10, <2>2 DEF PumpWrite
  <2>5. received' \in [Clients -> Seq(1 .. MaxEvents)]
    BY <1>10, <2>3 DEF PumpWrite
  <2>6. UNCHANGED <<alive, published, privates, hubRoom, unsub, clients, sub, inbox, pc, room,
                    closed, evicted, notice>>
    BY <1>10 DEF PumpWrite, hubVars, subVars
  <2>7. ws' \in [Clients -> {"open", "closed"}] /\ pump' \in [Clients -> {"off", "on", "exited"}]
    <3>1. ws \in [Clients -> {"open", "closed"}] /\ pump \in [Clients -> {"off", "on", "exited"}]
      OBVIOUS
    <3> HIDE DEF TypeOK
    <3>2. \/ ws' = ws /\ pump' = pump
          \/ ws' = [ws EXCEPT ![c] = "closed"] /\ pump' = [pump EXCEPT ![c] = "exited"]
      BY <1>10 DEF PumpWrite, PumpExit
    <3> QED BY <3>1, <3>2
  <2> QED BY <2>4, <2>5, <2>6, <2>7
<1>11. ASSUME NEW c \in Clients, PumpClosed(c) PROVE TypeOK'
  BY <1>11 DEF PumpClosed, PumpExit, hubVars, subVars, sendVars
<1>12. ASSUME NEW c \in Clients, Subscribe(c) PROVE TypeOK'
  BY <1>12 DEF Subscribe, hubVars, clientVars, sendVars, pumpVars
<1>13. ASSUME NEW c \in Clients, Broadcast(c), room[c] \in Clients PROVE TypeOK'
  <2>1. inbox[c] \in Seq(1 .. MaxEvents) /\ inbox[c] # <<>>
    BY <1>13 DEF Broadcast
  <2>2. Head(inbox[c]) \in 1 .. MaxEvents /\ Tail(inbox[c]) \in Seq(1 .. MaxEvents)
    BY <2>1, HeadTailProperties
  <2>3. inbox' \in [Clients -> Seq(1 .. MaxEvents)]
    BY <1>13, <2>2 DEF Broadcast
  <2>4. CASE Closed(clients[room[c]]) = {}
    <3>1. Enqueue(clients[room[c]], Head(inbox[c])) /\ UNCHANGED alive
      BY <1>13, <2>4 DEF Broadcast
    <3>2. Head(inbox[c]) \in Frames /\ clients[room[c]] \in SUBSET Clients
      <4>1. clients[room[c]] \in SUBSET Clients
        BY <1>13
      <4>2. 1 .. MaxEvents \subseteq Frames
        BY ChatAssumption DEF Frames
      <4> QED BY <2>2, <4>1, <4>2
    <3>3. /\ send' \in [Clients -> Seq(Frames)]
          /\ \A d \in Clients : Len(send'[d]) <= BufSize
          /\ closed' \in [Clients -> BOOLEAN]
          /\ evicted' \subseteq Clients
      BY <3>1, <3>2, EnqueueType
    <3> QED BY <1>13, <2>3, <3>1, <3>3 DEF Broadcast, hubVars, clientVars, pumpVars
  <2>5. CASE Closed(clients[room[c]]) # {}
    BY <1>13, <2>3, <2>5 DEF Broadcast, hubVars, clientVars, pumpVars, sendVars
  <2> QED BY <2>4, <2>5
<1>14. ASSUME NEW c \in Clients, SubscriptionEnds(c) PROVE TypeOK'
  BY <1>14 DEF SubscriptionEnds, hubVars, clientVars, sendVars, pumpVars
<1>15. ASSUME Publish PROVE TypeOK'
  <2>1. published + 1 \in 1 .. MaxEvents
    BY <1>15, ChatAssumption DEF Publish
  <2>2. \A s \in Clients : Append(inbox[s], published + 1) \in Seq(1 .. MaxEvents)
    BY <2>1, AppendProperties
  <2>3. inbox' \in [Clients -> Seq(1 .. MaxEvents)]
    BY <1>15, <2>2 DEF Publish
  <2> QED BY <1>15, <2>1, <2>3, ChatAssumption DEF Publish, hubVars, clientVars, sendVars, pumpVars
<1>16. ASSUME NEW u \in Users, NotifyLookup(u) PROVE TypeOK'
  BY <1>16, ChatAssumption DEF NotifyLookup, hubVars, subVars, clientVars, sendVars, pumpVars
<1>17. ASSUME SendToUser PROVE TypeOK'
  <2>1. PICK reached \in SUBSET Clients : Enqueue(reached, PrivateFrame)
    BY <1>17 DEF SendToUser
  <2>2. PrivateFrame \in Frames
    BY ChatAssumption DEF PrivateFrame, Frames
  <2>3. /\ send' \in [Clients -> Seq(Frames)]
        /\ \A d \in Clients : Len(send'[d]) <= BufSize
        /\ closed' \in [Clients -> BOOLEAN]
        /\ evicted' \subseteq Clients
    BY <2>1, <2>2, EnqueueType
  <2> QED BY <1>17, <2>3 DEF SendToUser, hubVars, subVars, clientVars, pumpVars
<1>18. CASE UNCHANGED vars
  BY <1>18 DEF vars, hubVars, subVars, clientVars, sendVars, pumpVars
<1>19. ASSUME NEW c \in Clients, Broadcast(c) PROVE room[c] \in Clients
  BY <1>19 DEF Broadcast, Subscription
<1> QED
  BY <1>1, <1>2, <1>3, <1>4, <1>5, <1>6, <1>7, <1>8, <1>9, <1>10, <1>11, <1>12, <1>13,
     <1>14, <1>15, <1>16, <1>17, <1>18, <1>19 DEF Next, Leave

------------------------------------------------------------------------------
(* Rooms, subscriptions and closed channels.                               *)

LEMMA HubInit == Init => HubInv
BY DEF Init, HubInv, Membership, Subscription, Guarded, Fresh, PanicNeedsEviction, Closed,
       Subscribed

(* enqueue closes a channel only by evicting its client, and leaves those  *)
(* it was not called for alone.                                            *)
LEMMA EnqueueEvicts ==
  ASSUME TypeOK, NEW targets \in SUBSET Clients, NEW frame, Enqueue(targets, frame)
  PROVE  /\ evicted \subseteq evicted'
         /\ \A c \in Clients : closed'[c] => closed[c] \/ c \in evicted'
         /\ \A c \in Clients \ targets : closed'[c] = closed[c] /\ send'[c] = send[c]
<1>1. evicted \subseteq evicted'
  BY DEF Enqueue
<1>2. \A c \in Clients : closed'[c] <=> (closed[c] \/ (c \in targets /\ Full(c)))
  BY DEF Enqueue
<1>3. \A c \in Clients : closed'[c] \in BOOLEAN /\ closed[c] \in BOOLEAN
  BY DEF Enqueue, TypeOK
<1>4. \A c \in Clients : c \in targets /\ Full(c) => c \in evicted'
  BY DEF Enqueue
<1>5. \A c \in Clients \ targets : send'[c] = send[c]
  BY DEF Enqueue
<1> QED BY <1>1, <1>2, <1>3, <1>4, <1>5

(* What a call of enqueue for members of rooms leaves of HubInv.           *)
LEMMA EnqueueHub ==
  ASSUME TypeOK, HubInv, NEW targets \in SUBSET Clients, NEW frame,
         Enqueue(targets, frame),
         \A c \in targets : pc[c] \notin {"new", "joining"},
         UNCHANGED <<alive, hubVars, sub, clientVars, received>>
  PROVE  HubInv'
<1> USE DEF hubVars, clientVars
<1>1. /\ evicted \subseteq evicted'
      /\ \A c \in Clients : closed'[c] => closed[c] \/ c \in evicted'
      /\ \A c \in Clients \ targets : closed'[c] = closed[c] /\ send'[c] = send[c]
  BY EnqueueEvicts
<1>2. Membership' /\ Subscription' /\ Guarded'
  BY DEF HubInv, Membership, Subscription, Guarded
<1>3. Fresh'
  BY <1>1 DEF HubInv, Fresh
<1>4. PanicNeedsEviction'
  <2>1. ~ alive' => evicted' # {}
    BY <1>1 DEF HubInv, PanicNeedsEviction
  <2>2. ASSUME NEW r \in Clients PROVE Closed(clients[r])' \subseteq evicted'
    BY <1>1 DEF HubInv, PanicNeedsEviction, Closed, TypeOK
  <2> QED BY <2>1, <2>2 DEF PanicNeedsEviction
<1> QED BY <1>2, <1>3, <1>4 DEF HubInv

LEMMA HubStep ==
  ASSUME TypeOK, HubInv, [Next]_vars
  PROVE  HubInv'
<1> USE DEF Goto
<1>1. ASSUME NEW c \in Clients, GetOrCreateRoom(c) PROVE HubInv'
  <2> USE <1>1 DEF GetOrCreateRoom, sendVars, pumpVars
  <2>1. Membership'
    BY DEF HubInv, Membership, TypeOK
  <2>2. Subscription'
    BY ChatAssumption DEF HubInv, Subscription, TypeOK, Subscribed
  <2>3. Guarded'
    BY DEF Guarded, TypeOK
  <2>4. Fresh'
    BY DEF HubInv, Fresh, TypeOK
  <2>5. PanicNeedsEviction'
    BY DEF HubInv, PanicNeedsEviction, Closed
  <2> QED BY <2>1, <2>2, <2>3, <2>4, <2>5 DEF HubInv
<1>2. ASSUME NEW c \in Clients, Add(c) PROVE HubInv'
  <2> USE <1>2 DEF Add, subVars, sendVars
  <2>1. room[c] \in Clients /\ ~ closed[c]
    BY DEF HubInv, Fresh, TypeOK
  <2>2. Membership'
    BY <2>1 DEF HubInv, Membership, TypeOK
  <2>3. Subscription' /\ Guarded' /\ Fresh'
    BY DEF HubInv, Subscription, Guarded, Fresh, TypeOK
  <2>4. PanicNeedsEviction'
    BY <2>1 DEF HubInv, PanicNeedsEviction, Closed, TypeOK
  <2> QED BY <2>2, <2>3, <2>4 DEF HubInv
<1>3. ASSUME NEW c \in Clients, ReadClose(c) \/ ReadError(c) PROVE HubInv'
  <2> USE <1>3 DEF ReadClose, ReadError, hubVars, subVars, sendVars, pumpVars
  <2>0. \A d \in Clients : pc'[d] \in {pc[d], "leaving"}
    BY DEF TypeOK
  <2>1. Membership'
    BY <2>0 DEF HubInv, Membership
  <2>2. Subscription'
    BY DEF HubInv, Subscription, TypeOK
  <2>3. Guarded' /\ Fresh'
    <3>1. /\ pc[c] = "reading" /\ pc'[c] = "leaving"
          /\ \A d \in Clients \ {c} : pc'[d] = pc[d]
          /\ UNCHANGED <<hubRoom, closed, send, received>>
      BY DEF TypeOK
    <3>2. Guarded'
      BY <3>1 DEF HubInv, Guarded
    <3>3. Fresh'
      BY <3>1 DEF HubInv, Fresh
    <3> QED BY <3>2, <3>3
  <2>4. PanicNeedsEviction'
    BY DEF HubInv, PanicNeedsEviction, Closed
  <2> QED BY <2>1, <2>2, <2>3, <2>4 DEF HubInv
<1>4. ASSUME NEW c \in Clients, Reply(c) PROVE HubInv'
  <2>1. CASE closed[c]
    <3> USE <1>4, <2>1 DEF Reply, hubVars, subVars, sendVars, pumpVars
    <3>0. \A d \in Clients : pc'[d] \in {pc[d], "leaving"}
      BY DEF TypeOK
    <3>1. Membership'
      BY <3>0 DEF HubInv, Membership
    <3>2. Subscription'
      BY DEF HubInv, Subscription, TypeOK
    <3>3. Guarded' /\ Fresh'
      <4>1. /\ pc[c] = "reading" /\ pc'[c] = "leaving"
            /\ \A d \in Clients \ {c} : pc'[d] = pc[d]
            /\ UNCHANGED <<hubRoom, closed, send, received>>
        BY DEF TypeOK
      <4>2. Guarded'
        BY <4>1 DEF HubInv, Guarded
      <4>3. Fresh'
        BY <4>1 DEF HubInv, Fresh
      <4> QED BY <4>2, <4>3
    <3>4. PanicNeedsEviction'
      BY DEF HubInv, PanicNeedsEviction, Closed
    <3> QED BY <3>1, <3>2, <3>3, <3>4 DEF HubInv
  <2>2. CASE ~ closed[c]
    <3>1. Enqueue({c}, PrivateFrame) /\ pc[c] = "reading"
      BY <1>4, <2>2 DEF Reply
    <3>2. UNCHANGED <<alive, hubVars, sub, clientVars, received>>
      BY <1>4, <2>2 DEF Reply, subVars, clientVars, pumpVars
    <3> QED BY <3>1, <3>2, EnqueueHub
  <2> QED BY <2>1, <2>2
<1>5. ASSUME NEW c \in Clients, PeerGone(c) PROVE HubInv'
  BY <1>5 DEF PeerGone, hubVars, subVars, sendVars, pumpVars,
     HubInv, Membership, Subscription, Guarded, Fresh, PanicNeedsEviction, Closed
<1>6. ASSUME NEW c \in Clients, Remove(c) PROVE HubInv'
  <2> USE <1>6 DEF Remove, subVars, sendVars, pumpVars
  <2>1. room[c] \in Clients
    BY DEF TypeOK
  <2>2. Membership'
    BY <2>1 DEF HubInv, Membership, TypeOK
  <2>3. Subscription' /\ Guarded' /\ Fresh'
    BY DEF HubInv, Subscription, Guarded, Fresh, TypeOK
  <2>4. PanicNeedsEviction'
    BY <2>1 DEF HubInv, PanicNeedsEviction, Closed, TypeOK
  <2> QED BY <2>2, <2>3, <2>4 DEF HubInv
<1>7. ASSUME NEW c \in Clients, CloseSend(c) PROVE HubInv'
  <2> USE <1>7 DEF CloseSend, hubVars, subVars, pumpVars
  <2>1. Membership' /\ Subscription' /\ Guarded' /\ Fresh'
    BY DEF HubInv, Membership, Subscription, Guarded, Fresh, TypeOK
  <2>2. \A r \in Clients : c \notin clients[r]
    BY DEF HubInv, Membership
  <2>3. PanicNeedsEviction'
    BY <2>2 DEF HubInv, PanicNeedsEviction, Closed, TypeOK
  <2> QED BY <2>1, <2>3 DEF HubInv
<1>8. ASSUME NEW c \in Clients, DropRoom(c) PROVE HubInv'
  <2> USE <1>8 DEF DropRoom, sendVars, pumpVars
  <2>1. Membership' /\ Fresh'
    BY DEF HubInv, Membership, Fresh, TypeOK
  <2>2. Subscription'
    <3>1. CASE hubRoom # None /\ clients[hubRoom] = {}
      <4>1. unsub = hubRoom /\ hubRoom \in Clients
        BY <3>1 DEF HubInv, Subscription, TypeOK
      <4>2. \A s \in Clients : sub'[s] = IF s = hubRoom /\ sub[s] \in Subscribed
                                        THEN "cancelled" ELSE sub[s]
        BY <3>1, <4>1 DEF TypeOK
      <4>3. \A s \in Clients : sub'[s] \notin Subscribed
        BY <4>2 DEF HubInv, Subscription, Subscribed
      <4>4. \A s \in Clients : sub'[s] # "none" => room'[s] = s /\ pc'[s] # "new"
        BY <4>2 DEF HubInv, Subscription, Subscribed, TypeOK
      <4> QED BY <3>1, <4>3, <4>4 DEF Subscription
    <3>2. CASE ~ (hubRoom # None /\ clients[hubRoom] = {})
      BY <3>2 DEF HubInv, Subscription, TypeOK
    <3> QED BY <3>1, <3>2
  <2>3. Guarded'
    <3>1. CASE hubRoom # None /\ clients[hubRoom] # {}
      <4>1. PICK d \in clients[hubRoom] : d \in Clients
        BY <3>1 DEF TypeOK
      <4>2. pc[d] \in {"reading", "leaving"} /\ d # c
        BY <3>1, <4>1 DEF HubInv, Membership, TypeOK
      <4>3. pc'[d] = pc[d]
        BY <4>1, <4>2 DEF TypeOK
      <4> QED BY <4>1, <4>2, <4>3 DEF Guarded
    <3>2. CASE ~ (hubRoom # None /\ clients[hubRoom] # {})
      BY <3>2 DEF Guarded
    <3> QED BY <3>1, <3>2
  <2>4. PanicNeedsEviction'
    BY DEF HubInv, PanicNeedsEviction, Closed
  <2> QED BY <2>1, <2>2, <2>3, <2>4 DEF HubInv
<1>9. ASSUME NEW c \in Clients, AwaitDone(c) PROVE HubInv'
  <2> USE <1>9 DEF AwaitDone, hubVars, subVars, sendVars, pumpVars
  <2>1. Membership' /\ Subscription' /\ Fresh'
    BY DEF HubInv, Membership, Subscription, Fresh, TypeOK
  <2>2. Guarded'
    BY DEF HubInv, Guarded, TypeOK
  <2>3. PanicNeedsEviction'
    BY DEF HubInv, PanicNeedsEviction, Closed
  <2> QED BY <2>1, <2>2, <2>3 DEF HubInv
<1>10. ASSUME NEW c \in Clients, PumpWrite(c) PROVE HubInv'
  <2> USE <1>10 DEF PumpWrite, PumpExit, hubVars, subVars
  <2>1. Membership' /\ Subscription' /\ Guarded'
    BY DEF HubInv, Membership, Subscription, Guarded
  <2>2. Fresh'
    <3>1. pc[c] \notin {"new", "joining"}
      BY DEF HubInv, Fresh
    <3>2. /\ UNCHANGED <<pc, closed>>
          /\ \A d \in Clients \ {c} : send'[d] = send[d] /\ received'[d] = received[d]
      BY DEF TypeOK
    <3> QED BY <3>1, <3>2 DEF HubInv, Fresh
  <2>3. PanicNeedsEviction'
    BY DEF HubInv, PanicNeedsEviction, Closed
  <2> QED BY <2>1, <2>2, <2>3 DEF HubInv
<1>11. ASSUME NEW c \in Clients, PumpClosed(c) PROVE HubInv'
  BY <1>11 DEF PumpClosed, hubVars, subVars, sendVars,
     HubInv, Membership, Subscription, Guarded, Fresh, PanicNeedsEviction, Closed
<1>12. ASSUME NEW c \in Clients, Subscribe(c) \/ SubscriptionEnds(c) PROVE HubInv'
  <2> USE <1>12 DEF Subscribe, SubscriptionEnds, hubVars, clientVars, sendVars, pumpVars
  <2>1. Membership' /\ Guarded' /\ Fresh'
    BY DEF HubInv, Membership, Guarded, Fresh
  <2>2. Subscription'
    BY DEF HubInv, Subscription, TypeOK, Subscribed
  <2>3. PanicNeedsEviction'
    BY DEF HubInv, PanicNeedsEviction, Closed
  <2> QED BY <2>1, <2>2, <2>3 DEF HubInv
<1>13. ASSUME NEW s \in Clients, Broadcast(s) PROVE HubInv'
  <2>1. room[s] = s
    BY <1>13 DEF Broadcast, HubInv, Subscription
  <2>2. CASE Closed(clients[s]) = {}
    <3>1. Enqueue(clients[s], Head(inbox[s])) /\ UNCHANGED alive
      BY <1>13, <2>1, <2>2 DEF Broadcast
    <3>2. clients[s] \in SUBSET Clients
      BY DEF TypeOK
    <3>3. \A c \in clients[s] : pc[c] \notin {"new", "joining"}
      BY <3>2 DEF HubInv, Membership
    <3>4. UNCHANGED <<alive, hubVars, sub, clientVars, received>>
      BY <1>13, <3>1 DEF Broadcast, pumpVars
    <3> QED BY <3>1, <3>2, <3>3, <3>4, EnqueueHub
  <2>3. CASE Closed(clients[s]) # {}
    <3> USE <1>13, <2>1, <2>3 DEF Broadcast, hubVars, clientVars, sendVars, pumpVars
    <3>1. Membership' /\ Subscription' /\ Guarded' /\ Fresh'
      <4>1. UNCHANGED <<hubRoom, unsub, clients, sub, pc, room, send, closed, received>>
        OBVIOUS
      <4>2. Membership' /\ Subscription'
        BY <4>1 DEF HubInv, Membership, Subscription
      <4>3. Guarded' /\ Fresh'
        BY <4>1 DEF HubInv, Guarded, Fresh
      <4> QED BY <4>2, <4>3
    <3>2. PanicNeedsEviction'
      BY DEF HubInv, PanicNeedsEviction, Closed
    <3> QED BY <3>1, <3>2 DEF HubInv
  <2> QED BY <2>2, <2>3
<1>14. ASSUME Publish PROVE HubInv'
  BY <1>14 DEF Publish, hubVars, clientVars, sendVars, pumpVars,
     HubInv, Membership, Subscription, Guarded, Fresh, PanicNeedsEviction, Closed
<1>15. ASSUME NEW u \in Users, NotifyLookup(u) PROVE HubInv'
  BY <1>15 DEF NotifyLookup, hubVars, subVars, clientVars, sendVars, pumpVars,
     HubInv, Membership, Subscription, Guarded, Fresh, PanicNeedsEviction, Closed
<1>16. ASSUME SendToUser PROVE HubInv'
  <2>1. notice[1] \in Clients
    BY <1>16 DEF SendToUser, TypeOK
  <2>2. PICK reached \in SUBSET clients[notice[1]] : Enqueue(reached, PrivateFrame)
    BY <1>16 DEF SendToUser
  <2>3. reached \in SUBSET Clients /\ \A c \in reached : pc[c] \notin {"new", "joining"}
    <3>1. clients[notice[1]] \in SUBSET Clients
      BY <2>1 DEF TypeOK
    <3>2. \A c \in clients[notice[1]] : pc[c] \notin {"new", "joining"}
      BY <2>1, <3>1 DEF HubInv, Membership
    <3> QED BY <2>2, <3>1, <3>2
  <2>4. UNCHANGED <<alive, hubVars, sub, clientVars, received>>
    BY <1>16 DEF SendToUser, subVars, pumpVars
  <2> QED BY <2>2, <2>3, <2>4, EnqueueHub
<1>17. CASE UNCHANGED vars
  BY <1>17 DEF vars, hubVars, subVars, clientVars, sendVars, pumpVars,
     HubInv, Membership, Subscription, Guarded, Fresh, PanicNeedsEviction, Closed
<1> QED
  BY <1>1, <1>2, <1>3, <1>4, <1>5, <1>6, <1>7, <1>8, <1>9, <1>10, <1>11, <1>12, <1>13,
     <1>14, <1>15, <1>16, <1>17 DEF Next, Leave

------------------------------------------------------------------------------
(* Sequences of frames.                                                    *)

(* What one may put at the end of an increasing sequence of events.        *)
LEMMA IncAppend ==
  ASSUME NEW a \in Seq(Nat), NEW e \in Nat, Inc(a),
         e # PrivateFrame => Before(a, <<e>>)
  PROVE  Inc(Append(a, e))
<1>1. /\ Len(Append(a, e)) = Len(a) + 1
      /\ \A i \in 1 .. Len(a) : Append(a, e)[i] = a[i] /\ a[i] \in Nat
      /\ Append(a, e)[Len(a) + 1] = e
      /\ Len(a) \in Nat
  BY AppendProperties
<1>2. e # PrivateFrame => \A i \in 1 .. Len(a) : a[i] # PrivateFrame => a[i] < e
  BY DEF Before
<1> QED BY <1>1, <1>2 DEF Inc

LEMMA BeforeAppend ==
  ASSUME NEW a \in Seq(Nat), NEW b \in Seq(Nat), NEW e \in Nat, Before(a, b)
  PROVE  /\ (e # PrivateFrame => Before(a, <<e>>)) => Before(a, Append(b, e))
         /\ (e # PrivateFrame => Before(<<e>>, b)) => Before(Append(a, e), b)
<1>1. \A d \in Seq(Nat) :
        /\ Len(d) \in Nat
        /\ Len(Append(d, e)) = Len(d) + 1
        /\ \A i \in 1 .. Len(d) : Append(d, e)[i] = d[i]
        /\ Append(d, e)[Len(d) + 1] = e
  BY AppendProperties
<1>2. ASSUME e # PrivateFrame => Before(a, <<e>>) PROVE Before(a, Append(b, e))
  BY <1>1, <1>2 DEF Before
<1>3. ASSUME e # PrivateFrame => Before(<<e>>, b) PROVE Before(Append(a, e), b)
  BY <1>1, <1>3 DEF Before
<1> QED BY <1>2, <1>3

LEMMA UpToAppend ==
  ASSUME NEW a \in Seq(Nat), NEW e \in Nat, NEW n \in Nat, UpTo(a, n), e <= n
  PROVE  UpTo(Append(a, e), n)
BY AppendProperties DEF UpTo

(* Taking the first frame off a sequence.                                  *)
LEMMA TailOrder ==
  ASSUME NEW b \in Seq(Nat), b # <<>>, NEW n \in Nat
  PROVE  /\ Inc(b) => Inc(Tail(b)) /\ Before(<<Head(b)>>, Tail(b))
         /\ UpTo(b, n) => UpTo(Tail(b), n) /\ Head(b) <= n
<1>1. /\ Len(b) \in Nat \ {0}
      /\ Len(Tail(b)) = Len(b) - 1
      /\ \A i \in 1 .. Len(Tail(b)) : Tail(b)[i] = b[i + 1] /\ i + 1 \in 1 .. Len(b)
      /\ Head(b) = b[1]
  BY HeadTailProperties, EmptySeq
<1>2. Inc(b) => Inc(Tail(b)) /\ Before(<<Head(b)>>, Tail(b))
  BY <1>1 DEF Inc, Before
<1>3. UpTo(b, n) => UpTo(Tail(b), n) /\ Head(b) <= n
  BY <1>1 DEF UpTo
<1> QED BY <1>2, <1>3

LEMMA TailBefore ==
  ASSUME NEW a \in Seq(Nat), NEW b \in Seq(Nat), b # <<>>
  PROVE  /\ Before(a, b) => Before(a, Tail(b)) /\ Before(a, <<Head(b)>>)
         /\ Before(b, a) => Before(Tail(b), a) /\ Before(<<Head(b)>>, a)
<1>1. /\ Len(b) \in Nat \ {0}
      /\ Len(Tail(b)) = Len(b) - 1
      /\ \A i \in 1 .. Len(Tail(b)) : Tail(b)[i] = b[i + 1] /\ i + 1 \in 1 .. Len(b)
      /\ Head(b) = b[1]
  BY HeadTailProperties, EmptySeq
<1>2. Len(<<Head(b)>>) = 1 /\ <<Head(b)>>[1] = b[1] /\ 1 \in 1 .. Len(b)
  BY <1>1
<1>3. Before(a, b) => Before(a, Tail(b))
  BY <1>1 DEF Before
<1>4. Before(a, b) => Before(a, <<Head(b)>>)
  BY <1>2 DEF Before
<1>5. Before(b, a) => Before(Tail(b), a)
  BY <1>1 DEF Before
<1>6. Before(b, a) => Before(<<Head(b)>>, a)
  BY <1>2 DEF Before
<1> QED BY <1>3, <1>4, <1>5, <1>6

(* The next event to be published is greater than all before.              *)
LEMMA UpToBefore ==
  ASSUME NEW a \in Seq(Nat), NEW n \in Nat, UpTo(a, n)
  PROVE  Before(a, <<n + 1>>) /\ UpTo(a, n + 1)
<1>1. \A i \in 1 .. Len(a) : a[i] \in Nat
  BY ElementOfSeq
<1> QED BY <1>1 DEF Before, UpTo

------------------------------------------------------------------------------
(* The order of events.                                                    *)

LEMMA EmptyOrder ==
  /\ Inc(<<>>)
  /\ \A n : UpTo(<<>>, n)
  /\ \A a : Before(<<>>, a) /\ Before(a, <<>>)
BY DEF Inc, UpTo, Before

LEMMA OrderInit == Init => OrderInv
BY EmptyOrder DEF Init, OrderInv

LEMMA FrameTypes ==
  ASSUME TypeOK
  PROVE  /\ published \in Nat
         /\ \A c \in Clients : /\ inbox[c] \in Seq(Nat)
                              /\ send[c] \in Seq(Nat)
                              /\ received[c] \in Seq(Nat)
<1>1. published \in Nat /\ Frames \subseteq Nat /\ 1 .. MaxEvents \subseteq Nat
  BY ChatAssumption DEF TypeOK, Frames
<1>2. ASSUME NEW S, S \subseteq Nat, NEW a \in Seq(S) PROVE a \in Seq(Nat)
  BY <1>2, SeqMonotonic
<1> QED BY <1>1, <1>2 DEF TypeOK

(* A private frame has no place in the order.                              *)
LEMMA EnqueuePrivateOrder ==
  ASSUME TypeOK, OrderInv, NEW targets, Enqueue(targets, PrivateFrame),
         UNCHANGED <<published, inbox, room, received>>
  PROVE  OrderInv'
<1> SUFFICES ASSUME NEW c \in Clients
             PROVE  /\ Inc(send'[c]) /\ UpTo(send'[c], published)
                    /\ Before(received[c], send'[c])
                    /\ room[c] \in Clients => Before(send'[c], inbox[room[c]])
  BY DEF OrderInv
<1>1. send'[c] = send[c] \/ send'[c] = Append(send[c], PrivateFrame)
  BY DEF Enqueue
<1>2. PrivateFrame \in Nat /\ PrivateFrame <= published
  BY FrameTypes DEF PrivateFrame
<1>3. /\ Inc(Append(send[c], PrivateFrame))
      /\ UpTo(Append(send[c], PrivateFrame), published)
      /\ Before(received[c], Append(send[c], PrivateFrame))
      /\ room[c] \in Clients => Before(Append(send[c], PrivateFrame), inbox[room[c]])
  BY <1>2, FrameTypes, IncAppend, UpToAppend, BeforeAppend DEF OrderInv
<1> QED BY <1>1, <1>3 DEF OrderInv

LEMMA OrderStep ==
  ASSUME TypeOK, HubInv, OrderInv, [Next]_vars
  PROVE  OrderInv'
<1> DEFINE Still == UNCHANGED <<published, inbox, room, send, received>>
<1>1. CASE Still
  BY <1>1 DEF OrderInv
<1>2. ASSUME NEW c \in Clients, GetOrCreateRoom(c) PROVE OrderInv'
  <2>1. send[c] = <<>> /\ received[c] = <<>>
    BY <1>2 DEF GetOrCreateRoom, HubInv, Fresh
  <2>2. UNCHANGED <<published, inbox, send, received>>
    BY <1>2 DEF GetOrCreateRoom, sendVars, pumpVars
  <2>3. \A d \in Clients \ {c} : room'[d] = room[d]
    BY <1>2 DEF GetOrCreateRoom, TypeOK
  <2> QED BY <2>1, <2>2, <2>3, EmptyOrder DEF OrderInv
<1>3. ASSUME NEW c \in Clients, Reply(c) PROVE OrderInv'
  <2>1. UNCHANGED <<published, inbox, room, received>>
    BY <1>3 DEF Reply, subVars, pumpVars
  <2>2. CASE closed[c]
    BY <1>1, <1>3, <2>1, <2>2 DEF Reply, sendVars
  <2>3. CASE ~ closed[c]
    BY <1>3, <2>1, <2>3, EnqueuePrivateOrder DEF Reply
  <2> QED BY <2>2, <2>3
<1>4. ASSUME NEW c \in Clients, PumpWrite(c) PROVE OrderInv'
  <2>1. /\ send[c] # <<>>
        /\ UNCHANGED <<published, inbox, room>>
        /\ send' = [send EXCEPT ![c] = Tail(@)]
    BY <1>4 DEF PumpWrite, subVars
  <2>2. /\ send'[c] = Tail(send[c])
        /\ \A d \in Clients \ {c} : send'[d] = send[d] /\ received'[d] = received[d]
        /\ \/ received'[c] = received[c]
           \/ received'[c] = Append(received[c], Head(send[c]))
    BY <1>4, <2>1 DEF PumpWrite, TypeOK
  <2> DEFINE h == Head(send[c])
             t == Tail(send[c])
  <2>3. /\ send[c] \in Seq(Nat) /\ received[c] \in Seq(Nat) /\ published \in Nat
        /\ h \in Nat /\ t \in Seq(Nat)
        /\ room[c] \in Clients => inbox[room[c]] \in Seq(Nat)
    BY <2>1, FrameTypes, HeadTailProperties
  <2>4. /\ Inc(t) /\ UpTo(t, published) /\ Before(<<h>>, t) /\ h <= published
        /\ Before(received[c], t) /\ Before(received[c], <<h>>)
        /\ room[c] \in Clients => Before(t, inbox[room[c]]) /\ Before(<<h>>, inbox[room[c]])
    <3>1. /\ Inc(send[c]) /\ UpTo(send[c], published) /\ Before(received[c], send[c])
          /\ room[c] \in Clients => Before(send[c], inbox[room[c]])
      BY DEF OrderInv
    <3>2. Inc(t) /\ Before(<<h>>, t) /\ UpTo(t, published) /\ h <= published
      BY <2>1, <2>3, <3>1, TailOrder
    <3>3. Before(received[c], t) /\ Before(received[c], <<h>>)
      BY <2>1, <2>3, <3>1, TailBefore
    <3>4. room[c] \in Clients => Before(t, inbox[room[c]]) /\ Before(<<h>>, inbox[room[c]])
      BY <2>1, <2>3, <3>1, TailBefore
    <3> QED BY <3>2, <3>3, <3>4
  <2> HIDE DEF h, t
  <2>5. /\ Inc(Append(received[c], h)) /\ UpTo(Append(received[c], h), published)
        /\ Before(Append(received[c], h), t)
        /\ room[c] \in Clients => Before(Append(received[c], h), inbox[room[c]])
    BY <2>3, <2>4, IncAppend, UpToAppend, BeforeAppend DEF OrderInv
  <2>6. send'[c] = t /\ (received'[c] = received[c] \/ received'[c] = Append(received[c], h))
    BY <2>2 DEF h, t
  <2>7. ASSUME NEW d \in Clients
        PROVE  /\ Inc(inbox'[d]) /\ UpTo(inbox'[d], published')
               /\ Inc(send'[d]) /\ UpTo(send'[d], published')
               /\ Inc(received'[d]) /\ UpTo(received'[d], published')
               /\ Before(received'[d], send'[d])
               /\ room'[d] \in Clients => Before(send'[d], inbox'[room'[d]])
                                          /\ Before(received'[d], inbox'[room'[d]])
    <3>1. CASE d # c
      BY <2>1, <2>2, <3>1 DEF OrderInv
    <3>2. CASE d = c /\ received'[c] = received[c]
      BY <2>1, <2>4, <2>6, <3>2 DEF OrderInv
    <3>3. CASE d = c /\ received'[c] = Append(received[c], h)
      <4>1. Inc(inbox[c]) /\ UpTo(inbox[c], published)
        BY DEF OrderInv
      <4> QED BY <2>1, <2>4, <2>5, <2>6, <3>3, <4>1
    <3> QED BY <2>6, <3>1, <3>2, <3>3
  <2> QED BY <2>7 DEF OrderInv
<1>5. ASSUME NEW s \in Clients, Broadcast(s) PROVE OrderInv'
  <2>1. /\ room[s] = s
        /\ inbox[s] # <<>>
        /\ UNCHANGED <<published, room, received>>
        /\ inbox' = [inbox EXCEPT ![s] = Tail(@)]
    BY <1>5 DEF Broadcast, HubInv, Subscription, clientVars, pumpVars
  <2> DEFINE h == Head(inbox[s])
             t == Tail(inbox[s])
  <2>2. inbox'[s] = t /\ \A d \in Clients \ {s} : inbox'[d] = inbox[d]
    BY <2>1 DEF TypeOK
  <2>3. /\ inbox[s] \in Seq(Nat) /\ published \in Nat /\ h \in Nat /\ t \in Seq(Nat)
        /\ \A c \in Clients : send[c] \in Seq(Nat) /\ received[c] \in Seq(Nat)
    BY <2>1, FrameTypes, HeadTailProperties
  <2>4. /\ Inc(t) /\ UpTo(t, published) /\ Before(<<h>>, t) /\ h <= published
        /\ \A c \in Clients : room[c] = s =>
              /\ Before(send[c], t) /\ Before(send[c], <<h>>)
              /\ Before(received[c], t) /\ Before(received[c], <<h>>)
    <3>1. Inc(inbox[s]) /\ UpTo(inbox[s], published)
      BY DEF OrderInv
    <3>2. Inc(t) /\ Before(<<h>>, t) /\ UpTo(t, published) /\ h <= published
      BY <2>1, <2>3, <3>1, TailOrder
    <3>3. ASSUME NEW a \in Seq(Nat), Before(a, inbox[s])
          PROVE  Before(a, t) /\ Before(a, <<h>>)
      BY <2>1, <2>3, <3>3, TailBefore
    <3>4. \A c \in Clients : room[c] = s =>
            Before(send[c], inbox[s]) /\ Before(received[c], inbox[s])
      BY DEF OrderInv
    <3> QED BY <2>3, <3>2, <3>3, <3>4
  <2>5. \A c \in Clients : \/ send'[c] = send[c]
                          \/ (room[c] = s /\ send'[c] = Append(send[c], h))
    <3>1. \A c \in clients[s] : c \in Clients /\ room[c] = s
      BY DEF HubInv, Membership, TypeOK
    <3>2. UNCHANGED send \/ Enqueue(clients[s], h)
      BY <1>5, <2>1 DEF Broadcast, sendVars
    <3>3. \A c \in Clients : \/ send'[c] = send[c]
                            \/ (c \in clients[s] /\ send'[c] = Append(send[c], h))
      BY <3>2 DEF Enqueue
    <3> QED BY <3>1, <3>3
  <2> HIDE DEF h, t
  <2>6. \A c \in Clients : room[c] = s =>
          /\ Inc(Append(send[c], h)) /\ UpTo(Append(send[c], h), published)
          /\ Before(Append(send[c], h), t) /\ Before(received[c], Append(send[c], h))
    BY <2>3, <2>4, IncAppend, UpToAppend, BeforeAppend DEF OrderInv
  <2>7. ASSUME NEW c \in Clients
        PROVE  /\ Inc(send'[c]) /\ UpTo(send'[c], published)
               /\ Before(received[c], send'[c])
               /\ room[c] \in Clients =>
                    Before(send'[c], inbox'[room[c]]) /\ Before(received[c], inbox'[room[c]])
    <3>1. CASE room[c] = s
      BY <2>2, <2>4, <2>5, <2>6, <3>1 DEF OrderInv
    <3>2. CASE room[c] # s
      BY <2>2, <2>5, <3>2 DEF OrderInv
    <3> QED BY <3>1, <3>2
  <2>8. \A c \in Clients : Inc(inbox'[c]) /\ UpTo(inbox'[c], published)
    BY <2>2, <2>4 DEF OrderInv
  <2> QED BY <2>1, <2>7, <2>8 DEF OrderInv
<1>6. ASSUME NEW s \in Clients, SubscriptionEnds(s) PROVE OrderInv'
  <2>1. UNCHANGED <<published, room, send, received>>
    BY <1>6 DEF SubscriptionEnds, clientVars, sendVars, pumpVars
  <2>2. inbox'[s] = <<>> /\ \A d \in Clients \ {s} : inbox'[d] = inbox[d]
    BY <1>6 DEF SubscriptionEnds, TypeOK
  <2> QED BY <2>1, <2>2, EmptyOrder DEF OrderInv
<1>7. ASSUME Publish PROVE OrderInv'
  <2>1. published' = published + 1 /\ UNCHANGED <<room, send, received>>
    BY <1>7 DEF Publish, clientVars, sendVars, pumpVars
  <2>2. \A s \in Clients : inbox'[s] = inbox[s] \/ inbox'[s] = Append(inbox[s], published + 1)
    BY <1>7 DEF Publish
  <2> DEFINE n == published
  <2>3. n \in Nat /\ n + 1 \in Nat /\ n + 1 # PrivateFrame
    BY FrameTypes DEF PrivateFrame
  <2>4. \A c \in Clients :
          /\ UpTo(inbox[c], n + 1) /\ UpTo(send[c], n + 1) /\ UpTo(received[c], n + 1)
          /\ Before(inbox[c], <<n + 1>>) /\ Before(send[c], <<n + 1>>)
          /\ Before(received[c], <<n + 1>>)
    BY <2>3, FrameTypes, UpToBefore DEF OrderInv
  <2>5. \A c \in Clients : Inc(Append(inbox[c], n + 1)) /\ UpTo(Append(inbox[c], n + 1), n + 1)
    BY <2>3, <2>4, FrameTypes, IncAppend, UpToAppend DEF OrderInv
  <2>6. \A c \in Clients : room[c] \in Clients =>
          /\ Before(send[c], Append(inbox[room[c]], n + 1))
          /\ Before(received[c], Append(inbox[room[c]], n + 1))
    BY <2>3, <2>4, FrameTypes, BeforeAppend DEF OrderInv
  <2> QED BY <2>1, <2>2, <2>4, <2>5, <2>6 DEF OrderInv
<1>8. ASSUME SendToUser PROVE OrderInv'
  <2>1. PICK reached : Enqueue(reached, PrivateFrame)
    BY <1>8 DEF SendToUser
  <2>2. UNCHANGED <<published, inbox, room, received>>
    BY <1>8 DEF SendToUser, subVars, clientVars, pumpVars
  <2> QED BY <2>1, <2>2, EnqueuePrivateOrder
<1>9. ASSUME NEW c \in Clients,
             Add(c) \/ ReadClose(c) \/ PeerGone(c) \/ Leave(c) \/ PumpClosed(c) \/ Subscribe(c)
      PROVE  Still
  BY <1>9 DEF Add, ReadClose, PeerGone, Leave, ReadError, Remove, CloseSend, DropRoom, AwaitDone,
     PumpClosed, Subscribe, hubVars, subVars, clientVars, sendVars, pumpVars
<1>10. ASSUME (\E u \in Users : NotifyLookup(u)) \/ UNCHANGED vars PROVE Still
  BY <1>10 DEF NotifyLookup, vars, subVars, clientVars, sendVars, pumpVars
<1> QED
  BY <1>1, <1>2, <1>3, <1>4, <1>5, <1>6, <1>7, <1>8, <1>9, <1>10 DEF Next

------------------------------------------------------------------------------
(* The theorems.                                                           *)

IndInv == TypeOK /\ HubInv /\ OrderInv

LEMMA Inductive == Spec => []IndInv
<1>1. Init => IndInv
  BY TypeInit, HubInit, OrderInit DEF IndInv
<1>2. IndInv /\ [Next]_vars => IndInv'
  BY TypeStep, HubStep, OrderStep DEF IndInv, HubInv
<1> QED BY <1>1, <1>2, PTL DEF Spec

(* The types hold: no send channel ever holds more than clientSendBuf      *)
(* frames and every subscription broadcasts to an existing room. And       *)
(* getOrCreateRoom and dropRoom keep one subscription for a stream, the    *)
(* registered room's, for any number of clients.                           *)
THEOREM RoomsInvHolds == Spec => []RoomsInv
<1>1. IndInv => TypeOK
  BY DEF IndInv
<1>2. IndInv => OneSubscription
  BY DEF IndInv, HubInv, Subscription, OneSubscription, Subscribed
<1> QED BY <1>1, <1>2, Inductive, PTL DEF RoomsInv

(* After the last client has left, the registry, the rooms and the         *)
(* subscriptions of a stream are empty.                                    *)
THEOREM NothingLeaksHolds == Spec => []NothingLeaks
<1>1. ASSUME IndInv PROVE NothingLeaks
  <2> SUFFICES ASSUME \A c \in Clients : pc[c] \in {"waiting", "gone"}
               PROVE  /\ hubRoom = None
                      /\ \A c \in Clients : clients[c] = {} /\ sub[c] \notin Subscribed
    BY DEF NothingLeaks
  <2>1. hubRoom = None
    BY <1>1 DEF IndInv, HubInv, Guarded
  <2>2. \A c \in Clients : clients[c] = {}
    BY <1>1 DEF IndInv, HubInv, Membership, TypeOK
  <2>3. \A c \in Clients : sub[c] \notin Subscribed
    BY <1>1, <2>1, ChatAssumption DEF IndInv, HubInv, Subscription
  <2> QED BY <2>1, <2>2, <2>3
<1> QED BY <1>1, Inductive, PTL

(* Only the eviction of a slow client leads to a send on a closed channel. *)
THEOREM PanicNeedsEvictionHolds == Spec => []PanicNeedsEviction
<1>1. IndInv => PanicNeedsEviction
  BY DEF IndInv, HubInv
<1> QED BY <1>1, Inductive, PTL

(* Every client sees the events in the order of Redis and none twice, for  *)
(* any number of clients, rooms that come and go, and any buffer size.     *)
THEOREM InOrderHolds == Spec => []InOrderAtMostOnce
<1>1. ASSUME IndInv PROVE InOrderAtMostOnce
  <2> SUFFICES ASSUME NEW c \in Clients,
                      NEW i \in 1 .. Len(received[c]), NEW j \in 1 .. Len(received[c]), i < j
               PROVE  received[c][i] < received[c][j]
    BY DEF InOrderAtMostOnce, StrictlyIncreasing
  <2>1. received[c] \in Seq(1 .. MaxEvents)
    BY <1>1 DEF IndInv, TypeOK
  <2>2. received[c][i] # PrivateFrame /\ received[c][j] # PrivateFrame
    BY <2>1, ElementOfSeq, ChatAssumption DEF PrivateFrame
  <2> QED BY <1>1, <2>2 DEF IndInv, OrderInv, Inc
<1> QED BY <1>1, Inductive, PTL

------------------------------------------------------------------------------
(* Delivery without gaps.                                                  *)

(* The events that a client receives are consecutive: it misses those      *)
(* before it joined and those after it was cut off (evicted, disconnected, *)
(* or its subscription broke), and none in between. enqueue never drops a  *)
(* frame and goes on, and redisSubscribe hands on every event it gets.     *)
NoGaps ==
  \A c \in Clients : \A i \in 1 .. Len(received[c]) :
    i + 1 <= Len(received[c]) => received[c][i + 1] = received[c][i] + 1

(* The events in a sequence of frames.                                     *)
EventsOf(a) == {x \in 1 .. MaxEvents : \E i \in 1 .. Len(a) : a[i] = x}

(* Every event between two of S is in S.                                   *)
GapFree(S) == \A x, y \in S : \A z \in 1 .. MaxEvents : x <= z /\ z <= y => z \in S

(* What has reached a client or waits in its channel.                      *)
Got(c) == EventsOf(received[c]) \cup EventsOf(send[c])

(* And what its room's subscription has still to broadcast.                *)
Due(c) == Got(c) \cup EventsOf(inbox[room[c]])

(* The client gets the next event its subscription broadcasts.             *)
Fed(c) ==
  /\ alive /\ pump[c] = "on" /\ ws[c] = "open" /\ ~ closed[c]
  /\ room[c] \in Clients /\ c \in clients[room[c]]

(* A room's creator has been through getOrCreateRoom.                      *)
RoomsOpened ==
  /\ hubRoom # None => pc[hubRoom] # "new"
  /\ \A c \in Clients : room[c] # None => pc[room[c]] # "new"

(* What a subscription has to broadcast has no gap and, while it is live,  *)
(* ends with the last event published; before SUBSCRIBE there is nothing.  *)
InboxWhole ==
  \A s \in Clients :
    /\ GapFree(EventsOf(inbox[s]))
    /\ sub[s] = "live" /\ EventsOf(inbox[s]) # {} => published \in EventsOf(inbox[s])
    /\ sub[s] \in {"none", "starting"} => EventsOf(inbox[s]) = {}

(* Nobody has got an event from a subscription that is not live yet.       *)
Unfed ==
  \A c \in Clients :
    room[c] \in Clients /\ sub[room[c]] \in {"none", "starting"} => Got(c) = {}

(* A client's events have no gap on the wire, up to the channel while its  *)
(* pump writes, and up to the subscription while it is fed; with a live    *)
(* one they then end with the last event published.                        *)
Whole ==
  \A c \in Clients :
    /\ GapFree(EventsOf(received[c]))
    /\ pump[c] = "on" /\ ws[c] = "open" => GapFree(Got(c))
    /\ Fed(c) => GapFree(Due(c))
    /\ Fed(c) /\ sub[room[c]] = "live" /\ Due(c) # {} => published \in Due(c)

GapInv == RoomsOpened /\ InboxWhole /\ Unfed /\ Whole

(* What EventsOf makes of a send on a channel and of a receive from it.    *)
LEMMA EventsAppend ==
  ASSUME NEW S, NEW a \in Seq(S), NEW x
  PROVE  EventsOf(Append(a, x)) = EventsOf(a) \cup ({x} \cap 1 .. MaxEvents)
<1>1. /\ Len(Append(a, x)) = Len(a) + 1 /\ Len(a) \in Nat
      /\ \A i \in 1 .. Len(a) : Append(a, x)[i] = a[i]
      /\ Append(a, x)[Len(a) + 1] = x
  OBVIOUS
<1>2. ASSUME NEW y \in EventsOf(Append(a, x)) PROVE y \in EventsOf(a) \cup ({x} \cap 1 .. MaxEvents)
  BY <1>1 DEF EventsOf
<1>3. ASSUME NEW y \in EventsOf(a) \cup ({x} \cap 1 .. MaxEvents) PROVE y \in EventsOf(Append(a, x))
  BY <1>1 DEF EventsOf
<1> QED BY <1>2, <1>3

LEMMA EventsTail ==
  ASSUME NEW S, NEW a \in Seq(S), a # <<>>
  PROVE  EventsOf(a) = EventsOf(Tail(a)) \cup ({Head(a)} \cap 1 .. MaxEvents)
<1>1. /\ Len(Tail(a)) = Len(a) - 1 /\ Len(a) \in Nat \ {0} /\ Head(a) = a[1]
      /\ \A i \in 1 .. Len(a) - 1 : Tail(a)[i] = a[i + 1]
  OBVIOUS
<1>2. ASSUME NEW y \in EventsOf(a)
      PROVE  y \in EventsOf(Tail(a)) \cup ({Head(a)} \cap 1 .. MaxEvents)
  <2>1. PICK i \in 1 .. Len(a) : a[i] = y
    BY DEF EventsOf
  <2>2. CASE i = 1
    BY <1>1, <2>1, <2>2 DEF EventsOf
  <2>3. CASE i # 1
    <3>1. i - 1 \in 1 .. Len(a) - 1 /\ Tail(a)[i - 1] = a[i]
      BY <1>1, <2>3
    <3> QED BY <1>1, <2>1, <3>1 DEF EventsOf
  <2> QED BY <2>2, <2>3
<1>3. ASSUME NEW y \in EventsOf(Tail(a)) \cup ({Head(a)} \cap 1 .. MaxEvents)
      PROVE  y \in EventsOf(a)
  BY <1>1 DEF EventsOf
<1> QED BY <1>2, <1>3

(* The first of increasing events is their least, and above all before.    *)
LEMMA HeadIsFirst ==
  ASSUME NEW S, NEW T, NEW a \in Seq(S), NEW b \in Seq(T), b # <<>>,
         Head(b) \in 1 .. MaxEvents, Inc(b), Before(a, b)
  PROVE  /\ Head(b) \in EventsOf(b)
         /\ \A y \in EventsOf(b) : Head(b) <= y
         /\ \A x \in EventsOf(a) : x < Head(b)
<1>1. Len(b) \in Nat \ {0} /\ Head(b) = b[1] /\ 1 \in 1 .. Len(b)
  OBVIOUS
<1>2. Head(b) \in EventsOf(b)
  BY <1>1 DEF EventsOf
<1>3. ASSUME NEW y \in EventsOf(b) PROVE Head(b) <= y
  <2>1. PICK i \in 1 .. Len(b) : b[i] = y
    BY DEF EventsOf
  <2>2. y \in 1 .. MaxEvents
    BY DEF EventsOf
  <2>3. CASE i = 1
    BY <1>1, <2>1, <2>2, <2>3, ChatAssumption
  <2>4. CASE i # 1
    BY <1>1, <2>1, <2>2, <2>4, ChatAssumption DEF Inc, PrivateFrame
  <2> QED BY <2>3, <2>4
<1>4. ASSUME NEW x \in EventsOf(a) PROVE x < Head(b)
  BY <1>1, ChatAssumption DEF EventsOf, Before, PrivateFrame
<1> QED BY <1>2, <1>3, <1>4

(* A gap-free set that is cut after one of its members is gap-free.        *)
LEMMA GapFreePrefix ==
  ASSUME NEW A \in SUBSET (1 .. MaxEvents), NEW B \in SUBSET (1 .. MaxEvents), GapFree(A \cup B),
         NEW e \in B, \A x \in A : x < e, \A y \in B : e <= y
  PROVE  GapFree(A \cup {e})
<1> SUFFICES ASSUME NEW x \in A \cup {e}, NEW y \in A \cup {e}, NEW z \in 1 .. MaxEvents,
                    x <= z, z <= y
             PROVE  z \in A \cup {e}
  BY DEF GapFree
<1>1. z \in A \cup B
  BY DEF GapFree
<1>2. y <= e /\ z \in Int /\ y \in Int /\ e \in Int
  BY ChatAssumption
<1>3. z <= e
  BY <1>2
<1> QED BY <1>1, <1>2, <1>3

(* The event after the last one published leaves no gap.                   *)
LEMMA GapFreeNext ==
  ASSUME NEW A \in SUBSET (1 .. MaxEvents), NEW n \in Nat, n + 1 \in 1 .. MaxEvents,
         GapFree(A), \A x \in A : x <= n, A # {} => n \in A
  PROVE  GapFree(A \cup {n + 1})
<1> SUFFICES ASSUME NEW x \in A \cup {n + 1}, NEW y \in A \cup {n + 1}, NEW z \in 1 .. MaxEvents,
                    x <= z, z <= y
             PROVE  z \in A \cup {n + 1}
  BY DEF GapFree
<1>1. x \in Int /\ y \in Int /\ z \in Int /\ y <= n + 1
  BY ChatAssumption
<1>2. CASE z = n + 1
  BY <1>2
<1>3. CASE z # n + 1
  <2>1. z <= n /\ x <= n
    BY <1>1, <1>3
  <2>2. x \in A
    BY <1>1, <2>1
  <2>3. n \in A
    BY <2>2
  <2> QED BY <2>1, <2>2, <2>3 DEF GapFree
<1> QED BY <1>2, <1>3

LEMMA EmptyEvents == EventsOf(<<>>) = {}
BY DEF EventsOf

LEMMA GapInit == Init => GapInv
<1> SUFFICES ASSUME Init PROVE GapInv
  OBVIOUS
<1>1. EventsOf(<<>>) = {}
  BY DEF EventsOf
<1>2. \A c \in Clients : /\ EventsOf(inbox[c]) = {}
                         /\ EventsOf(send[c]) = {} /\ EventsOf(received[c]) = {}
  BY <1>1 DEF Init
<1> QED BY <1>2 DEF Init, GapInv, RoomsOpened, InboxWhole, Unfed, Whole, GapFree, Got, Fed

(* Nor does a gap-free set without its least member have one.              *)
LEMMA GapFreeSuffix ==
  ASSUME NEW T \in SUBSET (1 .. MaxEvents), NEW e \in 1 .. MaxEvents, GapFree(T \cup {e}),
         \A y \in T : e < y
  PROVE  GapFree(T)
<1> SUFFICES ASSUME NEW x \in T, NEW y \in T, NEW z \in 1 .. MaxEvents, x <= z, z <= y
             PROVE  z \in T
  BY DEF GapFree
<1>1. z \in T \cup {e}
  BY DEF GapFree
<1>2. e < x /\ x \in Int /\ z \in Int /\ e \in Int
  BY ChatAssumption
<1> QED BY <1>1, <1>2

LEMMA TailIsLater ==
  ASSUME NEW S, NEW b \in Seq(S), b # <<>>, Head(b) \in 1 .. MaxEvents, Inc(b)
  PROVE  \A y \in EventsOf(Tail(b)) : Head(b) < y
<1>1. Len(b) \in Nat \ {0} /\ Head(b) = b[1] /\ Len(Tail(b)) = Len(b) - 1
      /\ \A i \in 1 .. Len(b) - 1 : Tail(b)[i] = b[i + 1]
  OBVIOUS
<1> SUFFICES ASSUME NEW y \in EventsOf(Tail(b)) PROVE Head(b) < y
  OBVIOUS
<1>2. PICK i \in 1 .. Len(b) - 1 : b[i + 1] = y
  BY <1>1 DEF EventsOf
<1>3. y \in 1 .. MaxEvents /\ 1 \in 1 .. Len(b) /\ i + 1 \in 1 .. Len(b) /\ 1 < i + 1
  BY <1>1 DEF EventsOf
<1> QED BY <1>1, <1>2, <1>3, ChatAssumption DEF Inc, PrivateFrame

LEMMA EventsUpTo ==
  ASSUME NEW S, NEW a \in Seq(S), NEW n, UpTo(a, n)
  PROVE  \A x \in EventsOf(a) : x <= n
BY DEF EventsOf, UpTo

(* Only getOrCreateRoom registers a room, for the client it serves.        *)
LEMMA RoomsOpenedStep ==
  ASSUME TypeOK, RoomsOpened, [Next]_vars
  PROVE  RoomsOpened'
<1> DEFINE Keeps == /\ hubRoom' \in {hubRoom, None} /\ room' = room
                    /\ \A d \in Clients : pc'[d] = "new" => pc[d] = "new"
<1>1. ASSUME Keeps PROVE RoomsOpened'
  <2>1. hubRoom' # None => pc'[hubRoom'] # "new"
    <3>1. hubRoom' # None => hubRoom' = hubRoom /\ hubRoom \in Clients
      BY <1>1 DEF TypeOK
    <3> QED BY <1>1, <3>1 DEF RoomsOpened
  <2>2. ASSUME NEW c \in Clients, room'[c] # None PROVE pc'[room'[c]] # "new"
    <3>1. room[c] \in Clients /\ room'[c] = room[c] /\ pc[room[c]] # "new"
      BY <1>1, <2>2 DEF RoomsOpened, TypeOK
    <3> QED BY <1>1, <3>1
  <2> QED BY <2>1, <2>2 DEF RoomsOpened
<1> USE DEF Goto
<1>2. ASSUME NEW c \in Clients, GetOrCreateRoom(c) PROVE RoomsOpened'
  <2>1. /\ \A d \in Clients : pc'[d] = IF d = c THEN "joining" ELSE pc[d]
        /\ \A d \in Clients : room'[d] = room[d] \/ room'[d] = hubRoom'
        /\ hubRoom' = hubRoom \/ hubRoom' = c
    BY <1>2 DEF GetOrCreateRoom, TypeOK
  <2>2. hubRoom' # None => hubRoom' \in Clients /\ pc'[hubRoom'] # "new"
    <3>1. hubRoom' # None => hubRoom' = c \/ (hubRoom' \in Clients /\ pc[hubRoom'] # "new")
      BY <2>1 DEF RoomsOpened, TypeOK
    <3> QED BY <2>1, <3>1
  <2>3. ASSUME NEW d \in Clients, room'[d] # None PROVE pc'[room'[d]] # "new"
    <3>1. CASE room'[d] = room[d]
      <4>1. room[d] \in Clients /\ pc[room[d]] # "new"
        BY <2>3, <3>1 DEF RoomsOpened, TypeOK
      <4> QED BY <2>1, <3>1, <4>1
    <3>2. CASE room'[d] = hubRoom'
      BY <2>2, <2>3, <3>2
    <3> QED BY <2>1, <3>1, <3>2
  <2> QED BY <2>2, <2>3 DEF RoomsOpened
<1>3. ASSUME NEW c \in Clients, Add(c) \/ ReadClose(c) \/ Reply(c) \/ PeerGone(c) PROVE Keeps
  <2>1. UNCHANGED <<hubRoom, room>>
    BY <1>3 DEF Add, ReadClose, Reply, PeerGone, hubVars
  <2>2. \A d \in Clients : pc'[d] = "new" => pc[d] = "new"
    BY <1>3 DEF Add, ReadClose, Reply, PeerGone, TypeOK
  <2> QED BY <2>1, <2>2
<1>4. ASSUME NEW c \in Clients, Leave(c) PROVE Keeps
  <2>1. hubRoom' \in {hubRoom, None} /\ room' = room
    BY <1>4 DEF Leave, ReadError, Remove, CloseSend, DropRoom, AwaitDone, hubVars
  <2>2. \A d \in Clients : pc'[d] = "new" => pc[d] = "new"
    BY <1>4 DEF Leave, ReadError, Remove, CloseSend, DropRoom, AwaitDone, TypeOK
  <2> QED BY <2>1, <2>2
<1>5. ASSUME NEW c \in Clients,
             PumpWrite(c) \/ PumpClosed(c) \/ Subscribe(c) \/ Broadcast(c) \/ SubscriptionEnds(c)
      PROVE  Keeps
  BY <1>5 DEF PumpWrite, PumpClosed, Subscribe, Broadcast, SubscriptionEnds, hubVars, clientVars
<1>6. ASSUME Publish \/ (\E u \in Users : NotifyLookup(u)) \/ SendToUser \/ UNCHANGED vars
      PROVE  Keeps
  BY <1>6 DEF Publish, NotifyLookup, SendToUser, vars, hubVars, clientVars
<1> HIDE DEF Keeps
<1> QED BY <1>1, <1>2, <1>3, <1>4, <1>5, <1>6 DEF Next

(* GapInv without the part that RoomsOpenedStep proves.                    *)
GapRest == InboxWhole /\ Unfed /\ Whole

(* A step that publishes and broadcasts nothing, where a pump that goes on *)
(* loses nothing and nobody joins a room.                                  *)
LEMMA GapFrame ==
  ASSUME TypeOK, GapInv, UNCHANGED <<published, inbox, room>>, alive' => alive,
         \A c \in Clients :
           /\ GapFree(EventsOf(received'[c]))
           /\ EventsOf(received'[c]) \cup EventsOf(send'[c]) \subseteq Got(c)
           /\ pump'[c] = "on" /\ ws'[c] = "open" =>
                /\ pump[c] = "on" /\ ws[c] = "open"
                /\ EventsOf(received'[c]) \cup EventsOf(send'[c]) = Got(c)
           /\ closed[c] => closed'[c]
           /\ clients'[c] \subseteq clients[c]
           /\ sub'[c] = "live" => sub[c] = "live"
           /\ sub'[c] \in {"none", "starting"} => sub[c] \in {"none", "starting"}
  PROVE  GapRest'
<1>1. InboxWhole'
  BY DEF GapInv, InboxWhole
<1>2. Unfed'
  BY DEF GapInv, Unfed, Got
<1>3. ASSUME NEW c \in Clients, Fed(c)' PROVE Fed(c) /\ Due(c)' = Due(c)
  <2>1. Fed(c)
    BY <1>3 DEF Fed
  <2>2. EventsOf(received'[c]) \cup EventsOf(send'[c]) = Got(c)
    BY <1>3 DEF Fed
  <2> QED BY <2>1, <2>2 DEF Due, Got
<1>4. ASSUME NEW c \in Clients
      PROVE  /\ GapFree(EventsOf(received'[c]))
             /\ pump'[c] = "on" /\ ws'[c] = "open" =>
                  GapFree(EventsOf(received'[c]) \cup EventsOf(send'[c]))
             /\ Fed(c)' => GapFree(Due(c)')
             /\ Fed(c)' /\ sub'[room'[c]] = "live" /\ Due(c)' # {} => published' \in Due(c)'
  <2>1. Fed(c)' => room[c] \in Clients
    BY DEF Fed
  <2>2. pump'[c] = "on" /\ ws'[c] = "open" =>
          GapFree(EventsOf(received'[c]) \cup EventsOf(send'[c]))
    BY DEF GapInv, Whole
  <2>3. ASSUME Fed(c)'
        PROVE  GapFree(Due(c)') /\ (sub'[room'[c]] = "live" /\ Due(c)' # {} => published' \in Due(c)')
    <3>1. Fed(c) /\ Due(c)' = Due(c) /\ room[c] \in Clients
      BY <1>3, <2>1, <2>3
    <3>2. sub'[room'[c]] = "live" => sub[room[c]] = "live"
      BY <3>1
    <3>3. GapFree(Due(c)) /\ (sub[room[c]] = "live" /\ Due(c) # {} => published \in Due(c))
      BY <3>1 DEF GapInv, Whole
    <3> QED BY <3>1, <3>2, <3>3
  <2> QED BY <2>2, <2>3
<1>5. Whole'
  BY <1>4 DEF Whole, Got
<1> QED BY <1>1, <1>2, <1>5 DEF GapRest

(* Private frames are no events.                                           *)
LEMMA EnqueuePrivateGaps ==
  ASSUME TypeOK, NEW targets \in SUBSET Clients, Enqueue(targets, PrivateFrame)
  PROVE  \A c \in Clients : EventsOf(send'[c]) = EventsOf(send[c]) /\ (closed[c] => closed'[c])
<1> SUFFICES ASSUME NEW c \in Clients
             PROVE  EventsOf(send'[c]) = EventsOf(send[c]) /\ (closed[c] => closed'[c])
  OBVIOUS
<1>1. closed[c] => closed'[c]
  BY DEF Enqueue
<1>2. send'[c] = send[c] \/ send'[c] = Append(send[c], PrivateFrame)
  BY DEF Enqueue
<1>3. send[c] \in Seq(Frames)
  BY DEF TypeOK
<1>4. EventsOf(Append(send[c], PrivateFrame)) =
        EventsOf(send[c]) \cup ({PrivateFrame} \cap 1 .. MaxEvents)
  BY <1>3, EventsAppend
<1>5. {PrivateFrame} \cap 1 .. MaxEvents = {}
  BY ChatAssumption DEF PrivateFrame
<1> QED BY <1>1, <1>2, <1>4, <1>5

(* The next event goes to the end of what a live subscription has.         *)
LEMMA GapPublish ==
  ASSUME TypeOK, OrderInv, GapInv, Publish
  PROVE  GapRest'
<1> DEFINE n == published + 1
<1>1. /\ UNCHANGED <<alive, clients, sub, room, ws, send, closed, pump, received>>
      /\ published \in Nat /\ n \in 1 .. MaxEvents /\ published' = n
      /\ \A s \in Clients : inbox'[s] = IF sub[s] = "live" THEN Append(inbox[s], n) ELSE inbox[s]
  BY ChatAssumption DEF Publish, hubVars, clientVars, sendVars, pumpVars, TypeOK
<1> HIDE DEF n
<1>2. \A d \in Clients : Got(d)' = Got(d) /\ Fed(d)' = Fed(d)
  BY <1>1 DEF Got, Fed
<1>3. ASSUME NEW s \in Clients, sub[s] = "live"
      PROVE  EventsOf(inbox'[s]) = EventsOf(inbox[s]) \cup {n}
  <2>1. inbox[s] \in Seq(1 .. MaxEvents)
    BY DEF TypeOK
  <2>2. EventsOf(Append(inbox[s], n)) = EventsOf(inbox[s]) \cup ({n} \cap 1 .. MaxEvents)
    BY <2>1, EventsAppend
  <2> QED BY <1>1, <1>3, <2>2
<1>4. \A s \in Clients : sub[s] # "live" => inbox'[s] = inbox[s]
  BY <1>1
<1>5. ASSUME NEW A \in SUBSET (1 .. MaxEvents), GapFree(A), \A x \in A : x <= published,
             A # {} => published \in A
      PROVE  GapFree(A \cup {n})
  BY <1>1, <1>5, GapFreeNext DEF n
<1>6. ASSUME NEW d \in Clients
      PROVE  /\ EventsOf(inbox[d]) \in SUBSET (1 .. MaxEvents)
             /\ \A x \in EventsOf(inbox[d]) : x <= published
             /\ Got(d) \in SUBSET (1 .. MaxEvents)
             /\ \A x \in Got(d) : x <= published
  <2>1. /\ inbox[d] \in Seq(1 .. MaxEvents) /\ send[d] \in Seq(Frames)
        /\ received[d] \in Seq(1 .. MaxEvents)
    BY DEF TypeOK
  <2>2. UpTo(inbox[d], published) /\ UpTo(send[d], published) /\ UpTo(received[d], published)
    BY DEF OrderInv
  <2>3. /\ \A x \in EventsOf(inbox[d]) : x <= published
        /\ \A x \in EventsOf(send[d]) : x <= published
        /\ \A x \in EventsOf(received[d]) : x <= published
    BY <2>1, <2>2, EventsUpTo
  <2>4. \A a : EventsOf(a) \in SUBSET (1 .. MaxEvents)
    BY DEF EventsOf
  <2> QED BY <2>3, <2>4 DEF Got
<1>7. InboxWhole'
  <2> SUFFICES ASSUME NEW s \in Clients
               PROVE  /\ GapFree(EventsOf(inbox'[s]))
                      /\ sub[s] = "live" /\ EventsOf(inbox'[s]) # {} => n \in EventsOf(inbox'[s])
                      /\ sub[s] \in {"none", "starting"} => EventsOf(inbox'[s]) = {}
    BY <1>1 DEF InboxWhole
  <2>1. CASE sub[s] = "live"
    <3>1. GapFree(EventsOf(inbox[s]) \cup {n})
      BY <1>5, <1>6, <2>1 DEF GapInv, InboxWhole
    <3> QED BY <1>3, <2>1, <3>1
  <2>2. CASE sub[s] # "live"
    BY <1>4, <2>2 DEF GapInv, InboxWhole
  <2> QED BY <2>1, <2>2
<1>8. Unfed'
  BY <1>1, <1>2 DEF GapInv, Unfed
<1>9. ASSUME NEW d \in Clients, Fed(d)
      PROVE  GapFree(Due(d)') /\ (sub[room[d]] = "live" => n \in Due(d)')
  <2>1. room[d] \in Clients
    BY <1>9 DEF Fed
  <2>2. CASE sub[room[d]] = "live"
    <3>1. Due(d)' = Due(d) \cup {n}
      BY <1>1, <1>2, <1>3, <2>1, <2>2 DEF Due
    <3>2. Due(d) \in SUBSET (1 .. MaxEvents) /\ \A x \in Due(d) : x <= published
      BY <1>6, <2>1 DEF Due
    <3>3. GapFree(Due(d)) /\ (Due(d) # {} => published \in Due(d))
      BY <1>9, <2>2 DEF GapInv, Whole
    <3> QED BY <1>5, <3>1, <3>2, <3>3
  <2>3. CASE sub[room[d]] # "live"
    <3>1. Due(d)' = Due(d)
      BY <1>1, <1>2, <1>4, <2>1, <2>3 DEF Due
    <3> QED BY <1>9, <2>3, <3>1 DEF GapInv, Whole
  <2> QED BY <2>2, <2>3
<1>10. Whole'
  BY <1>1, <1>2, <1>9 DEF GapInv, Whole
<1> QED BY <1>7, <1>8, <1>10 DEF GapRest

(* The first event of an inbox reaches every client of the room that has   *)
(* space for it; the others' channels are closed, and a send on a channel  *)
(* that is closed already ends the process.                                *)
LEMMA GapBroadcast ==
  ASSUME TypeOK, HubInv, OrderInv, GapInv, NEW s \in Clients, Broadcast(s)
  PROVE  GapRest'
<1> DEFINE e == Head(inbox[s])
           B == EventsOf(inbox[s])
           T == EventsOf(Tail(inbox[s]))
<1>1. /\ UNCHANGED <<published, clients, sub, room, ws, pump, received>>
      /\ alive /\ sub[s] \in {"live", "cancelled"} /\ inbox[s] # <<>> /\ room[s] = s
      /\ inbox'[s] = Tail(inbox[s]) /\ \A r \in Clients \ {s} : inbox'[r] = inbox[r]
  BY DEF Broadcast, hubVars, clientVars, pumpVars, TypeOK, HubInv, Subscription
<1>2. inbox[s] \in Seq(1 .. MaxEvents) /\ e \in 1 .. MaxEvents
  BY <1>1, HeadTailProperties DEF TypeOK
<1>3. B = T \cup {e} /\ B \in SUBSET (1 .. MaxEvents) /\ T \in SUBSET (1 .. MaxEvents)
  <2>1. B = T \cup ({e} \cap 1 .. MaxEvents)
    BY <1>1, <1>2, EventsTail
  <2>2. \A a : EventsOf(a) \in SUBSET (1 .. MaxEvents)
    BY DEF EventsOf
  <2> QED BY <1>2, <2>1, <2>2
<1>4. Inc(inbox[s]) /\ UpTo(inbox[s], published)
  BY DEF OrderInv
<1>5. \A y \in T : e < y
  BY <1>1, <1>2, <1>4, TailIsLater
<1>6. \A y \in B : y <= published
  BY <1>2, <1>4, EventsUpTo
<1>7. InboxWhole'
  <2>1. EventsOf(inbox'[s]) = T
    BY <1>1
  <2>2. GapFree(B) /\ (sub[s] = "live" => published \in B)
    BY <1>1, <1>3 DEF GapInv, InboxWhole
  <2>3. GapFree(T)
    BY <1>2, <1>3, <1>5, <2>2, GapFreeSuffix
  <2>4. sub[s] = "live" /\ T # {} => published \in T
    <3>1. T # {} => published # e
      <4> SUFFICES ASSUME NEW y \in T PROVE published # e
        OBVIOUS
      <4>1. y <= published /\ e < y /\ y \in Int /\ published \in Int /\ e \in Int
        BY <1>2, <1>3, <1>5, <1>6, ChatAssumption DEF TypeOK
      <4> QED BY <4>1
    <3> QED BY <1>3, <2>2, <3>1
  <2> HIDE DEF T, B, e
  <2> QED BY <1>1, <2>1, <2>3, <2>4 DEF GapInv, InboxWhole
<1> HIDE DEF e, T, B
<1>8. CASE Closed(clients[room[s]]) # {}
  <2>1. ~ alive' /\ UNCHANGED <<send, closed>>
    BY <1>8 DEF Broadcast, sendVars
  <2>2. \A d \in Clients : Got(d)' = Got(d) /\ ~ Fed(d)'
    BY <1>1, <2>1 DEF Got, Fed
  <2>3. Unfed'
    BY <1>1, <2>2 DEF GapInv, Unfed
  <2>4. Whole'
    BY <1>1, <2>2 DEF GapInv, Whole
  <2> QED BY <1>7, <2>3, <2>4 DEF GapRest
<1>9. CASE Closed(clients[room[s]]) = {}
  <2>1. Enqueue(clients[s], e)
    BY <1>1, <1>9 DEF Broadcast, e
  <2>2. \A d \in Clients :
          /\ d \notin clients[s] => send'[d] = send[d] /\ closed'[d] = closed[d]
          /\ d \in clients[s] => ~ closed[d] /\ room[d] = s
          /\ d \in clients[s] => \/ send'[d] = send[d] /\ closed'[d]
                                 \/ send'[d] = Append(send[d], e) /\ closed'[d] = closed[d]
    <3>1. \A d \in clients[s] : ~ closed[d]
      BY <1>1, <1>9 DEF Closed
    <3>2. \A d \in Clients : d \in clients[s] => room[d] = s
      BY DEF HubInv, Membership
    <3> QED BY <2>1, <3>1, <3>2 DEF Enqueue, TypeOK
  <2>3. \A d \in Clients : EventsOf(Append(send[d], e)) = EventsOf(send[d]) \cup {e}
    <3> SUFFICES ASSUME NEW d \in Clients
                 PROVE  EventsOf(Append(send[d], e)) = EventsOf(send[d]) \cup {e}
      OBVIOUS
    <3>1. send[d] \in Seq(Frames)
      BY DEF TypeOK
    <3>2. EventsOf(Append(send[d], e)) = EventsOf(send[d]) \cup ({e} \cap 1 .. MaxEvents)
      BY <3>1, EventsAppend
    <3> QED BY <1>2, <3>2
  <2>4. \A d \in Clients :
          /\ Got(d)' = Got(d) \/ (d \in clients[s] /\ Got(d)' = Got(d) \cup {e})
          /\ d \in clients[s] /\ ~ closed'[d] => Got(d)' = Got(d) \cup {e}
    BY <1>1, <2>2, <2>3 DEF Got, TypeOK
  <2>5. Unfed'
    BY <1>1, <2>2, <2>4 DEF GapInv, Unfed
  <2>6. ASSUME NEW d \in Clients, Fed(d)'
        PROVE  Fed(d) /\ Due(d)' = Due(d)
    <3>1. Fed(d) /\ ~ closed'[d] /\ d \in clients[room[d]] /\ room[d] \in Clients
      BY <1>1, <2>2, <2>6 DEF Fed, TypeOK
    <3>2. CASE room[d] = s
      BY <1>1, <1>3, <2>4, <3>1, <3>2 DEF Due, T, B
    <3>3. CASE room[d] # s
      <4>1. d \notin clients[s]
        BY <2>2, <3>3
      <4> QED BY <1>1, <2>4, <3>1, <3>3, <4>1 DEF Due
    <3> QED BY <3>1, <3>2, <3>3
  <2>7. ASSUME NEW d \in clients[s], d \in Clients, pump[d] = "on", ws[d] = "open"
        PROVE  GapFree(Got(d) \cup {e})
    <3>1. Fed(d) /\ room[d] = s
      BY <1>1, <2>2, <2>7 DEF Fed
    <3>2. GapFree(Got(d) \cup B)
      BY <2>7, <3>1 DEF GapInv, Whole, Due, B
    <3>3. /\ received[d] \in Seq(1 .. MaxEvents) /\ send[d] \in Seq(Frames)
      BY <2>7 DEF TypeOK
    <3>4. Before(send[d], inbox[s]) /\ Before(received[d], inbox[s])
      BY <2>7, <3>1 DEF OrderInv
    <3>5. e \in B /\ \A y \in B : e <= y
      BY <1>1, <1>2, <1>4, <3>3, <3>4, HeadIsFirst DEF e, B
    <3>6. \A x \in Got(d) : x < e
      <4>1. \A x \in EventsOf(send[d]) : x < e
        BY <1>1, <1>2, <1>4, <3>3, <3>4, HeadIsFirst DEF e
      <4>2. \A x \in EventsOf(received[d]) : x < e
        BY <1>1, <1>2, <1>4, <3>3, <3>4, HeadIsFirst DEF e
      <4> QED BY <4>1, <4>2 DEF Got
    <3>7. Got(d) \in SUBSET (1 .. MaxEvents)
      BY DEF Got, EventsOf
    <3> QED BY <1>3, <3>2, <3>5, <3>6, <3>7, GapFreePrefix
  <2>8. ASSUME NEW d \in Clients, pump[d] = "on", ws[d] = "open" PROVE GapFree(Got(d)')
    <3>1. CASE Got(d)' = Got(d)
      BY <2>8, <3>1 DEF GapInv, Whole
    <3>2. CASE d \in clients[s] /\ Got(d)' = Got(d) \cup {e}
      BY <2>7, <2>8, <3>2
    <3> QED BY <2>4, <3>1, <3>2
  <2>9. Whole'
    BY <1>1, <2>6, <2>8 DEF GapInv, Whole
  <2> QED BY <1>7, <2>5, <2>9 DEF GapRest
<1> QED BY <1>8, <1>9

LEMMA GapStep ==
  ASSUME TypeOK, HubInv, OrderInv, GapInv, [Next]_vars
  PROVE  GapRest'
<1> DEFINE Same == /\ UNCHANGED <<published, inbox, room, received>>
                   /\ alive' => alive
                   /\ \A c \in Clients :
                        /\ EventsOf(send'[c]) = EventsOf(send[c])
                        /\ pump'[c] = "on" => pump[c] = "on"
                        /\ ws'[c] = "open" => ws[c] = "open"
                        /\ closed[c] => closed'[c]
                        /\ clients'[c] \subseteq clients[c]
                        /\ sub'[c] = "live" => sub[c] = "live"
                        /\ sub'[c] \in {"none", "starting"} => sub[c] \in {"none", "starting"}
<1>1. ASSUME Same PROVE GapRest'
  <2>1. \A c \in Clients : GapFree(EventsOf(received[c]))
    BY DEF GapInv, Whole
  <2> QED BY <1>1, <2>1, GapFrame DEF Got
<1> USE DEF Goto
<1>2. ASSUME NEW c \in Clients, ReadClose(c) \/ ReadError(c) \/ AwaitDone(c) PROVE Same
  BY <1>2 DEF ReadClose, ReadError, AwaitDone, hubVars, subVars, sendVars, pumpVars
<1>3. ASSUME NEW c \in Clients, PeerGone(c) PROVE Same
  BY <1>3 DEF PeerGone, hubVars, subVars, sendVars, pumpVars, TypeOK
<1>4. ASSUME NEW c \in Clients, Remove(c) PROVE Same
  BY <1>4 DEF Remove, subVars, sendVars, pumpVars, TypeOK
<1>5. ASSUME NEW c \in Clients, CloseSend(c) PROVE Same
  BY <1>5 DEF CloseSend, hubVars, subVars, pumpVars, TypeOK
<1>6. ASSUME NEW c \in Clients, DropRoom(c) PROVE Same
  <2>1. \A d \in Clients : \/ sub'[d] = sub[d]
                           \/ sub'[d] = "cancelled"
    BY <1>6 DEF DropRoom, TypeOK
  <2> QED BY <1>6, <2>1 DEF DropRoom, sendVars, pumpVars
<1>7. ASSUME NEW c \in Clients, PumpClosed(c) PROVE Same
  BY <1>7 DEF PumpClosed, PumpExit, hubVars, subVars, sendVars, TypeOK
<1>8. ASSUME NEW c \in Clients, Reply(c) PROVE Same
  <2>1. \A d \in Clients : EventsOf(send'[d]) = EventsOf(send[d]) /\ (closed[d] => closed'[d])
    BY <1>8, EnqueuePrivateGaps DEF Reply, sendVars
  <2> QED BY <1>8, <2>1 DEF Reply, hubVars, subVars, pumpVars
<1>9. ASSUME SendToUser PROVE Same
  <2>1. PICK reached \in SUBSET Clients : Enqueue(reached, PrivateFrame)
    BY <1>9 DEF SendToUser, TypeOK
  <2> QED BY <1>9, <2>1, EnqueuePrivateGaps DEF SendToUser, hubVars, subVars, clientVars, pumpVars
<1>10. ASSUME (\E u \in Users : NotifyLookup(u)) \/ UNCHANGED vars PROVE Same
  BY <1>10 DEF NotifyLookup, vars, hubVars, subVars, clientVars, sendVars, pumpVars
<1> HIDE DEF Same
<1>11. ASSUME NEW c \in Clients, GetOrCreateRoom(c) PROVE GapRest'
  <2>1. /\ UNCHANGED <<alive, published, clients, inbox, ws, send, closed, pump, received>>
        /\ pc[c] = "new" /\ Got(c) = {} /\ sub[c] = "none"
        /\ \A r \in Clients : c \notin clients[r]
    <3>1. /\ UNCHANGED <<alive, published, clients, inbox, ws, send, closed, pump, received>>
          /\ pc[c] = "new"
      BY <1>11 DEF GetOrCreateRoom, sendVars, pumpVars
    <3>2. send[c] = <<>> /\ received[c] = <<>> /\ sub[c] = "none"
      BY <3>1 DEF HubInv, Fresh, Subscription
    <3> QED BY <3>1, <3>2, EmptyEvents DEF Got, HubInv, Membership
  <2>2. /\ \A d \in Clients \ {c} : room'[d] = room[d] /\ room[d] # c
        /\ \A s \in Clients \ {c} : sub'[s] = sub[s]
        /\ sub'[c] \in {"none", "starting"}
    <3>1. \A d \in Clients : room[d] # c
      BY <2>1, ChatAssumption DEF GapInv, RoomsOpened
    <3> QED BY <1>11, <2>1, <3>1 DEF GetOrCreateRoom, TypeOK
  <2>3. InboxWhole'
    BY <2>1, <2>2 DEF GapInv, InboxWhole
  <2>4. \A d \in Clients : Got(d)' = Got(d)
    BY <2>1 DEF Got
  <2>5. Unfed'
    BY <2>1, <2>2, <2>4 DEF GapInv, Unfed
  <2>6. ASSUME NEW d \in Clients, Fed(d)'
        PROVE  Fed(d) /\ d # c /\ Due(d)' = Due(d) /\ sub'[room'[d]] = sub[room[d]]
    <3>1. d # c /\ Fed(d)
      BY <2>1, <2>2, <2>6 DEF Fed
    <3> QED BY <2>1, <2>2, <2>4, <3>1 DEF Due, Fed
  <2>7. Whole'
    BY <2>1, <2>4, <2>6 DEF GapInv, Whole
  <2> QED BY <2>3, <2>5, <2>7 DEF GapRest
<1>12. ASSUME NEW c \in Clients, Add(c) PROVE GapRest'
  <2>1. /\ UNCHANGED <<alive, published, inbox, sub, room, ws, send, closed, received>>
        /\ \A d \in Clients \ {c} : pump'[d] = pump[d]
        /\ \A d \in Clients \ {c}, r \in Clients : d \in clients'[r] => d \in clients[r]
    BY <1>12 DEF Add, subVars, sendVars, TypeOK
  <2>2. Got(c) = {}
    BY <1>12, EmptyEvents DEF Add, Got, HubInv, Fresh
  <2>3. \A d \in Clients : Got(d)' = Got(d) /\ Due(d)' = Due(d)
    BY <2>1 DEF Got, Due
  <2>4. InboxWhole'
    BY <2>1 DEF GapInv, InboxWhole
  <2>5. Unfed'
    BY <2>1, <2>3 DEF GapInv, Unfed
  <2>6. \A d \in Clients \ {c} : Fed(d)' => Fed(d)
    BY <2>1 DEF Fed
  <2>7. ASSUME NEW d \in Clients
        PROVE  /\ GapFree(EventsOf(received[d]))
               /\ pump'[d] = "on" /\ ws[d] = "open" => GapFree(Got(d))
               /\ Fed(d)' => GapFree(Due(d))
               /\ Fed(d)' /\ sub[room[d]] = "live" /\ Due(d) # {} => published \in Due(d)
    <3>1. CASE d # c
      BY <2>1, <2>6, <3>1 DEF GapInv, Whole
    <3>2. CASE d = c
      <4>1. room[c] \in Clients
        BY <1>12 DEF Add, TypeOK
      <4>2. Due(c) = EventsOf(inbox[room[c]])
        BY <2>2 DEF Due
      <4>3. GapFree({})
        BY DEF GapFree
      <4> QED BY <2>2, <3>2, <4>1, <4>2, <4>3 DEF GapInv, InboxWhole, Whole
    <3> QED BY <3>1, <3>2
  <2>8. Whole'
    BY <2>1, <2>3, <2>7 DEF Whole
  <2> QED BY <2>4, <2>5, <2>8 DEF GapRest
<1>13. ASSUME NEW c \in Clients, PumpWrite(c) PROVE GapRest'
  <2>1. /\ UNCHANGED <<published, inbox, room, alive, closed, clients, sub>>
        /\ pump[c] = "on" /\ send[c] # <<>> /\ send'[c] = Tail(send[c])
        /\ \A d \in Clients \ {c} : send'[d] = send[d] /\ received'[d] = received[d]
                                    /\ pump'[d] = pump[d] /\ ws'[d] = ws[d]
    BY <1>13 DEF PumpWrite, PumpExit, hubVars, subVars, TypeOK
  <2>2. /\ received[c] \in Seq(1 .. MaxEvents) /\ send[c] \in Seq(Frames)
        /\ Head(send[c]) \in Frames
    BY <2>1, HeadTailProperties DEF TypeOK
  <2>3. EventsOf(send[c]) = EventsOf(Tail(send[c])) \cup ({Head(send[c])} \cap 1 .. MaxEvents)
    BY <2>1, <2>2, EventsTail
  <2>4. \/ received'[c] = received[c] /\ (pump'[c] # "on" \/ ws'[c] # "open")
        \/ /\ received'[c] = received[c] /\ Head(send[c]) = PrivateFrame
           /\ pump'[c] = pump[c] /\ ws'[c] = ws[c]
        \/ /\ ws[c] = "open" /\ Head(send[c]) # PrivateFrame /\ pump'[c] = pump[c] /\ ws'[c] = ws[c]
           /\ received'[c] = Append(received[c], Head(send[c]))
    BY <1>13 DEF PumpWrite, PumpExit, TypeOK
  <2>5. Head(send[c]) # PrivateFrame =>
          /\ Head(send[c]) \in 1 .. MaxEvents
          /\ EventsOf(Append(received[c], Head(send[c]))) =
               EventsOf(received[c]) \cup {Head(send[c])}
    <3>1. Head(send[c]) # PrivateFrame => Head(send[c]) \in 1 .. MaxEvents
      BY <2>2, ChatAssumption DEF Frames, PrivateFrame
    <3>2. EventsOf(Append(received[c], Head(send[c]))) =
            EventsOf(received[c]) \cup ({Head(send[c])} \cap 1 .. MaxEvents)
      BY <2>2, EventsAppend
    <3> QED BY <3>1, <3>2
  <2>6. Head(send[c]) = PrivateFrame => {Head(send[c])} \cap 1 .. MaxEvents = {}
    BY ChatAssumption DEF PrivateFrame
  <2>7. /\ EventsOf(received'[c]) \cup EventsOf(send'[c]) \subseteq Got(c)
        /\ pump'[c] = "on" /\ ws'[c] = "open" =>
             /\ pump[c] = "on" /\ ws[c] = "open"
             /\ EventsOf(received'[c]) \cup EventsOf(send'[c]) = Got(c)
    BY <2>1, <2>3, <2>4, <2>5, <2>6 DEF Got
  <2>8. \A d \in Clients : GapFree(EventsOf(received[d]))
    BY DEF GapInv, Whole
  <2>9. ASSUME ws[c] = "open", Head(send[c]) # PrivateFrame
        PROVE  GapFree(EventsOf(received[c]) \cup {Head(send[c])})
    <3>1. GapFree(EventsOf(received[c]) \cup EventsOf(send[c]))
      BY <2>1, <2>9 DEF GapInv, Whole, Got
    <3>2. Inc(send[c]) /\ Before(received[c], send[c])
      BY DEF OrderInv
    <3>3. /\ Head(send[c]) \in EventsOf(send[c])
          /\ \A y \in EventsOf(send[c]) : Head(send[c]) <= y
          /\ \A x \in EventsOf(received[c]) : x < Head(send[c])
      BY <2>1, <2>2, <2>5, <2>9, <3>2, HeadIsFirst
    <3>4. /\ EventsOf(received[c]) \in SUBSET (1 .. MaxEvents)
          /\ EventsOf(send[c]) \in SUBSET (1 .. MaxEvents)
      BY DEF EventsOf
    <3> QED BY <3>1, <3>3, <3>4, GapFreePrefix
  <2>10. GapFree(EventsOf(received'[c]))
    BY <2>4, <2>5, <2>8, <2>9
  <2> QED BY <2>1, <2>7, <2>8, <2>10, GapFrame DEF Got
<1>14. ASSUME NEW s \in Clients, Subscribe(s) PROVE GapRest'
  <2>1. /\ UNCHANGED <<alive, published, clients, inbox, room, ws, send, closed, pump, received>>
        /\ sub[s] = "starting" /\ sub'[s] = "live"
        /\ \A r \in Clients \ {s} : sub'[r] = sub[r]
    BY <1>14 DEF Subscribe, hubVars, clientVars, sendVars, pumpVars, TypeOK
  <2>2. \A d \in Clients : Got(d)' = Got(d) /\ Due(d)' = Due(d) /\ Fed(d)' = Fed(d)
    BY <2>1 DEF Got, Due, Fed
  <2>3. EventsOf(inbox[s]) = {}
    BY <2>1 DEF GapInv, InboxWhole
  <2>4. InboxWhole'
    BY <2>1, <2>3 DEF GapInv, InboxWhole
  <2>5. Unfed'
    BY <2>1, <2>2 DEF GapInv, Unfed
  <2>6. \A d \in Clients : room[d] = s => Due(d) = {}
    BY <2>1, <2>3 DEF GapInv, Unfed, Due
  <2>7. Whole'
    <3> SUFFICES ASSUME NEW d \in Clients, Fed(d), sub'[room[d]] = "live", Due(d) # {}
                 PROVE  published \in Due(d)
      BY <2>1, <2>2 DEF GapInv, Whole
    <3> QED BY <2>1, <2>6 DEF GapInv, Whole, Fed
  <2> QED BY <2>4, <2>5, <2>7 DEF GapRest
<1>15. ASSUME NEW s \in Clients, Broadcast(s) PROVE GapRest'
  BY <1>15, GapBroadcast
<1>16. ASSUME NEW s \in Clients, SubscriptionEnds(s) PROVE GapRest'
  <2>1. /\ UNCHANGED <<alive, published, clients, room, ws, send, closed, pump, received>>
        /\ inbox'[s] = <<>> /\ sub'[s] = "ended"
        /\ \A r \in Clients \ {s} : sub'[r] = sub[r] /\ inbox'[r] = inbox[r]
    BY <1>16 DEF SubscriptionEnds, hubVars, clientVars, sendVars, pumpVars, TypeOK
  <2>2. \A d \in Clients : Got(d)' = Got(d) /\ Fed(d)' = Fed(d)
    BY <2>1 DEF Got, Fed
  <2>3. EventsOf(inbox'[s]) = {} /\ GapFree({})
    BY <2>1, EmptyEvents DEF GapFree
  <2>4. InboxWhole'
    BY <2>1, <2>3 DEF GapInv, InboxWhole
  <2>5. Unfed'
    BY <2>1, <2>2 DEF GapInv, Unfed
  <2>6. ASSUME NEW d \in Clients, Fed(d)
        PROVE  /\ GapFree(Due(d)')
               /\ sub'[room[d]] = "live" /\ Due(d)' # {} => published \in Due(d)'
    <3>1. CASE room[d] = s
      <4>1. Due(d)' = Got(d)
        BY <2>1, <2>2, <2>3, <3>1 DEF Due
      <4> QED BY <2>1, <2>6, <3>1, <4>1 DEF GapInv, Whole, Fed
    <3>2. CASE room[d] # s
      <4>1. Due(d)' = Due(d) /\ sub'[room[d]] = sub[room[d]]
        BY <2>1, <2>2, <2>6, <3>2 DEF Due, Fed
      <4> QED BY <2>6, <4>1 DEF GapInv, Whole
    <3> QED BY <3>1, <3>2
  <2>7. Whole'
    BY <2>1, <2>2, <2>6 DEF GapInv, Whole
  <2> QED BY <2>4, <2>5, <2>7 DEF GapRest
<1>17. ASSUME Publish PROVE GapRest'
  BY <1>17, GapPublish
<1> QED
  BY <1>1, <1>2, <1>3, <1>4, <1>5, <1>6, <1>7, <1>8, <1>9, <1>10, <1>11, <1>12, <1>13, <1>14,
     <1>15, <1>16, <1>17 DEF Next, Leave

(* The hub delivers without gaps, for any number of clients and events,    *)
(* rooms that come and go, evictions, and subscriptions that break.        *)
THEOREM NoGapsHolds == Spec => []NoGaps
<1>1. Init => GapInv
  BY GapInit
<1>2. IndInv /\ GapInv /\ [Next]_vars => GapInv'
  BY RoomsOpenedStep, GapStep DEF IndInv, GapInv, GapRest
<1>3. ASSUME IndInv, GapInv PROVE NoGaps
  <2> SUFFICES ASSUME NEW c \in Clients, NEW i \in 1 .. Len(received[c]),
                      i + 1 <= Len(received[c])
               PROVE  received[c][i + 1] = received[c][i] + 1
    BY DEF NoGaps
  <2> DEFINE x == received[c][i]
             y == received[c][i + 1]
  <2>1. received[c] \in Seq(1 .. MaxEvents) /\ i + 1 \in 1 .. Len(received[c])
    BY <1>3 DEF IndInv, TypeOK
  <2>2. x \in 1 .. MaxEvents /\ y \in 1 .. MaxEvents
    BY <2>1, ElementOfSeq
  <2>3. Inc(received[c]) /\ GapFree(EventsOf(received[c]))
    BY <1>3 DEF IndInv, OrderInv, GapInv, Whole
  <2>3a. \A p, q \in 1 .. Len(received[c]) : p < q => received[c][p] < received[c][q]
    <3> SUFFICES ASSUME NEW p \in 1 .. Len(received[c]), NEW q \in 1 .. Len(received[c]), p < q
                 PROVE  received[c][p] < received[c][q]
      OBVIOUS
    <3>1. received[c][p] # PrivateFrame /\ received[c][q] # PrivateFrame
      BY <2>1, ElementOfSeq, ChatAssumption DEF PrivateFrame
    <3> QED BY <2>3, <3>1 DEF Inc
  <2>4. x < y
    BY <2>1, <2>3a
  <2>5. x \in EventsOf(received[c]) /\ y \in EventsOf(received[c])
    BY <2>1, <2>2 DEF EventsOf
  <2>6. x + 1 \in EventsOf(received[c])
    BY <2>2, <2>3, <2>4, <2>5, ChatAssumption DEF GapFree
  <2>7. PICK k \in 1 .. Len(received[c]) : received[c][k] = x + 1
    BY <2>6 DEF EventsOf
  <2>8. k > i
    <3>1. k # i
      BY <2>2, <2>7, ChatAssumption
    <3>2. ~ (k < i)
      <4>1. k < i => received[c][k] < x
        BY <2>3a
      <4> QED BY <2>2, <2>7, <4>1, ChatAssumption
    <3> QED BY <2>1, <3>1, <3>2
  <2>9. ~ (i + 1 < k)
    <3>1. i + 1 < k => y < received[c][k]
      BY <2>1, <2>3a
    <3> QED BY <2>2, <2>4, <2>7, <3>1, ChatAssumption
  <2>10. k = i + 1
    BY <2>1, <2>8, <2>9
  <2> QED BY <2>7, <2>10
<1> QED BY <1>1, <1>2, <1>3, Inductive, PTL DEF Spec

------------------------------------------------------------------------------
(* An evicted client is disconnected.                                      *)

(* writePump runs from rm.add on, closes the connection when it exits, and *)
(* whoever has called closeSend or was evicted has a closed channel.       *)
PumpInv ==
  \A c \in Clients :
    /\ pump[c] = "off" <=> pc[c] \in {"new", "joining"}
    /\ pump[c] = "exited" => ws[c] = "closed"
    /\ pc[c] \in {"dropping", "waiting", "gone"} => closed[c]
    /\ c \in evicted => closed[c]

LEMMA PumpInit == Init => PumpInv
BY DEF Init, PumpInv

(* enqueue opens no channel again.                                         *)
LEMMA EnqueueCloses ==
  ASSUME TypeOK, NEW targets \in SUBSET Clients, NEW frame, Enqueue(targets, frame)
  PROVE  \A c \in Clients : /\ closed[c] => closed'[c]
                            /\ c \in evicted' => c \in evicted \/ closed'[c]
BY DEF Enqueue, TypeOK

LEMMA EnqueuePump ==
  ASSUME TypeOK, PumpInv, NEW targets \in SUBSET Clients, NEW frame, Enqueue(targets, frame),
         UNCHANGED <<pc, pump, ws>>
  PROVE  PumpInv'
BY EnqueueCloses DEF PumpInv

LEMMA PumpStep ==
  ASSUME TypeOK, HubInv, PumpInv, [Next]_vars
  PROVE  PumpInv'
<1> USE DEF Goto
<1>1. ASSUME NEW c \in Clients, GetOrCreateRoom(c) PROVE PumpInv'
  BY <1>1 DEF GetOrCreateRoom, sendVars, pumpVars, PumpInv, TypeOK
<1>2. ASSUME NEW c \in Clients, Add(c) PROVE PumpInv'
  BY <1>2 DEF Add, sendVars, PumpInv, TypeOK
<1>3. ASSUME NEW c \in Clients, ReadClose(c) \/ ReadError(c) PROVE PumpInv'
  <2>1. pc[c] = "reading" /\ pc' = [pc EXCEPT ![c] = "leaving"]
        /\ UNCHANGED <<ws, sendVars, pumpVars>>
    BY <1>3 DEF ReadClose, ReadError
  <2> QED BY <2>1 DEF sendVars, pumpVars, PumpInv, TypeOK
<1>4. ASSUME NEW c \in Clients, Reply(c) PROVE PumpInv'
  <2>1. CASE closed[c]
    BY <1>4, <2>1 DEF Reply, sendVars, pumpVars, PumpInv, TypeOK
  <2>2. CASE ~ closed[c]
    BY <1>4, <2>2, EnqueuePump DEF Reply, pumpVars
  <2> QED BY <2>1, <2>2
<1>5. ASSUME NEW c \in Clients, PeerGone(c) PROVE PumpInv'
  BY <1>5 DEF PeerGone, sendVars, pumpVars, PumpInv, TypeOK
<1>6. ASSUME NEW c \in Clients, Remove(c) PROVE PumpInv'
  BY <1>6 DEF Remove, sendVars, pumpVars, PumpInv, TypeOK
<1>7. ASSUME NEW c \in Clients, CloseSend(c) PROVE PumpInv'
  BY <1>7 DEF CloseSend, pumpVars, PumpInv, TypeOK
<1>8. ASSUME NEW c \in Clients, DropRoom(c) PROVE PumpInv'
  BY <1>8 DEF DropRoom, sendVars, pumpVars, PumpInv, TypeOK
<1>9. ASSUME NEW c \in Clients, AwaitDone(c) PROVE PumpInv'
  BY <1>9 DEF AwaitDone, sendVars, pumpVars, PumpInv, TypeOK
<1>10. ASSUME NEW c \in Clients, PumpWrite(c) PROVE PumpInv'
  BY <1>10 DEF PumpWrite, PumpExit, PumpInv, TypeOK
<1>11. ASSUME NEW c \in Clients, PumpClosed(c) PROVE PumpInv'
  BY <1>11 DEF PumpClosed, PumpExit, sendVars, PumpInv, TypeOK
<1>12. ASSUME NEW c \in Clients, Subscribe(c) \/ SubscriptionEnds(c) PROVE PumpInv'
  BY <1>12 DEF Subscribe, SubscriptionEnds, clientVars, sendVars, pumpVars, PumpInv
<1>13. ASSUME NEW c \in Clients, Broadcast(c) PROVE PumpInv'
  <2>1. clients[room[c]] \in SUBSET Clients
    BY <1>13 DEF Broadcast, HubInv, Subscription, TypeOK
  <2>2. CASE Closed(clients[room[c]]) = {}
    BY <1>13, <2>1, <2>2, EnqueuePump DEF Broadcast, clientVars, pumpVars
  <2>3. CASE Closed(clients[room[c]]) # {}
    BY <1>13, <2>3 DEF Broadcast, clientVars, sendVars, pumpVars, PumpInv
  <2> QED BY <2>2, <2>3
<1>14. ASSUME Publish PROVE PumpInv'
  BY <1>14 DEF Publish, clientVars, sendVars, pumpVars, PumpInv
<1>15. ASSUME NEW u \in Users, NotifyLookup(u) PROVE PumpInv'
  BY <1>15 DEF NotifyLookup, clientVars, sendVars, pumpVars, PumpInv
<1>16. ASSUME SendToUser PROVE PumpInv'
  <2>1. PICK reached \in SUBSET Clients : Enqueue(reached, PrivateFrame)
    BY <1>16 DEF SendToUser, TypeOK
  <2> QED BY <1>16, <2>1, EnqueuePump DEF SendToUser, clientVars, pumpVars
<1>17. CASE UNCHANGED vars
  BY <1>17 DEF vars, clientVars, sendVars, pumpVars, PumpInv
<1> QED
  BY <1>1, <1>2, <1>3, <1>4, <1>5, <1>6, <1>7, <1>8, <1>9, <1>10, <1>11, <1>12, <1>13,
     <1>14, <1>15, <1>16, <1>17 DEF Next, Leave

(* The steps AddClient has still to take.                                  *)
ReadLeft(c) ==
  CASE pc[c] \in {"new", "joining", "reading"} -> 5 [] pc[c] = "leaving" -> 4
    [] pc[c] = "closing" -> 3 [] pc[c] = "dropping" -> 2 [] pc[c] = "waiting" -> 1
    [] pc[c] = "gone" -> 0

(* The frames writePump has still to take, and its exit.                   *)
PumpLeft(c) == IF pump[c] = "on" THEN Len(send[c]) + 1 ELSE 0

(* AddClient or writePump has a step it can take by itself: no message     *)
(* from the peer and no other goroutine of the hub is needed.              *)
CanLeave(c) ==
  \/ pc[c] = "reading" /\ ws[c] = "closed"
  \/ pc[c] \in {"leaving", "closing", "dropping"}
  \/ pc[c] = "waiting" /\ pump[c] = "exited"
  \/ pump[c] = "on" /\ (send[c] # <<>> \/ closed[c])

LeaveLeft(c) == ReadLeft(c) + PumpLeft(c)

(* A client with a closed channel is never stuck: its pump drains the      *)
(* channel and exits, which closes the connection and so ends the read     *)
(* loop, which goes on to wait for the pump.                               *)
LEMMA LeaveState ==
  ASSUME TypeOK, HubInv, PumpInv
  PROVE  /\ \A c \in Clients : LeaveLeft(c) \in 0 .. BufSize + 6
         /\ \A c \in Clients : closed[c] /\ pc[c] # "gone" => CanLeave(c)
<1>1. ASSUME NEW c \in Clients PROVE ReadLeft(c) \in 0 .. 5 /\ PumpLeft(c) \in 0 .. BufSize + 1
  <2>1. Len(send[c]) \in Nat /\ Len(send[c]) <= BufSize /\ BufSize \in Nat
    BY ChatAssumption DEF TypeOK
  <2>2. ReadLeft(c) \in 0 .. 5
    BY DEF TypeOK, ReadLeft
  <2> QED BY <2>1, <2>2 DEF PumpLeft
<1>2. \A c \in Clients : LeaveLeft(c) \in 0 .. BufSize + 6
  BY <1>1, ChatAssumption DEF LeaveLeft
<1>3. ASSUME NEW c \in Clients, closed[c], pc[c] # "gone" PROVE CanLeave(c)
  <2>1. pc[c] \notin {"new", "joining"}
    BY <1>3 DEF HubInv, Fresh
  <2> QED BY <1>3, <2>1 DEF PumpInv, CanLeave, TypeOK
<1> QED BY <1>2, <1>3

(* Nothing is sent to a client that is not a target.                       *)
LEMMA EnqueueSpares ==
  ASSUME TypeOK, NEW targets \in SUBSET Clients, NEW frame, Enqueue(targets, frame),
         NEW c \in Clients, c \notin targets
  PROVE  send'[c] = send[c]
BY DEF Enqueue

(* Nothing is added to a closed channel, and every step of the client's    *)
(* two goroutines is one fewer to take.                                    *)
LEMMA LeaveStep ==
  ASSUME TypeOK, HubInv, PumpInv, Next, NEW c \in Clients, closed[c],
         ~ (pc'[c] = pc[c] /\ pump'[c] = pump[c] /\ send'[c] = send[c])
  PROVE  LeaveLeft(c)' < LeaveLeft(c)
<1> USE DEF Goto
<1>1. /\ pc \in [Clients -> {"new", "joining", "reading", "leaving", "closing", "dropping",
                           "waiting", "gone"}]
      /\ pump \in [Clients -> {"off", "on", "exited"}]
      /\ send \in [Clients -> Seq(Frames)] /\ Len(send[c]) \in Nat
      /\ pc[c] \notin {"new", "joining"}
  BY DEF TypeOK, HubInv, Fresh
<1>2. ReadLeft(c) \in Nat /\ PumpLeft(c) \in Nat
  BY <1>1 DEF ReadLeft, PumpLeft
<1>3. ASSUME pump'[c] = pump[c], send'[c] = send[c],
             \/ pc[c] = "reading" /\ pc'[c] = "leaving"
             \/ pc[c] = "leaving" /\ pc'[c] = "closing"
             \/ pc[c] = "closing" /\ pc'[c] = "dropping"
             \/ pc[c] = "dropping" /\ pc'[c] = "waiting"
             \/ pc[c] = "waiting" /\ pc'[c] = "gone"
      PROVE  LeaveLeft(c)' < LeaveLeft(c)
  <2>1. ReadLeft(c)' \in Nat /\ ReadLeft(c)' < ReadLeft(c)
    BY <1>3 DEF ReadLeft
  <2>2. PumpLeft(c)' = PumpLeft(c)
    BY <1>3 DEF PumpLeft
  <2> QED BY <1>2, <2>1, <2>2 DEF LeaveLeft
<1>4. ASSUME pc'[c] = pc[c], pump[c] = "on",
             \/ pump'[c] = "exited"
             \/ pump'[c] = "on" /\ send[c] # <<>> /\ send'[c] = Tail(send[c])
      PROVE  LeaveLeft(c)' < LeaveLeft(c)
  <2>1. ReadLeft(c)' = ReadLeft(c)
    BY <1>4 DEF ReadLeft
  <2>2. send[c] # <<>> => Len(Tail(send[c])) = Len(send[c]) - 1
    BY <1>1
  <2>3. PumpLeft(c)' \in Int /\ PumpLeft(c)' < PumpLeft(c)
    BY <1>1, <1>4, <2>2 DEF PumpLeft
  <2> QED BY <1>2, <2>1, <2>3 DEF LeaveLeft
<1>5. ASSUME NEW targets \in SUBSET Clients, NEW frame, Enqueue(targets, frame),
             c \notin targets, UNCHANGED <<pc, pump>>
      PROVE  FALSE
  BY <1>5, EnqueueSpares
<1>6. ASSUME NEW d \in Clients, GetOrCreateRoom(d) \/ Add(d) \/ PeerGone(d) PROVE FALSE
  BY <1>1, <1>6 DEF GetOrCreateRoom, Add, PeerGone, sendVars, pumpVars
<1>7. ASSUME NEW d \in Clients, ReadClose(d) \/ ReadError(d) PROVE LeaveLeft(c)' < LeaveLeft(c)
  BY <1>1, <1>3, <1>7 DEF ReadClose, ReadError, sendVars, pumpVars
<1>8. ASSUME NEW d \in Clients, Reply(d) PROVE LeaveLeft(c)' < LeaveLeft(c)
  <2>1. CASE closed[d]
    BY <1>1, <1>3, <1>8, <2>1 DEF Reply, sendVars, pumpVars
  <2>2. CASE ~ closed[d]
    BY <1>5, <1>8, <2>2 DEF Reply, pumpVars
  <2> QED BY <2>1, <2>2
<1>9. ASSUME NEW d \in Clients, Remove(d) PROVE LeaveLeft(c)' < LeaveLeft(c)
  BY <1>1, <1>3, <1>9 DEF Remove, sendVars, pumpVars
<1>10. ASSUME NEW d \in Clients, CloseSend(d) PROVE LeaveLeft(c)' < LeaveLeft(c)
  BY <1>1, <1>3, <1>10 DEF CloseSend, pumpVars
<1>11. ASSUME NEW d \in Clients, DropRoom(d) PROVE LeaveLeft(c)' < LeaveLeft(c)
  BY <1>1, <1>3, <1>11 DEF DropRoom, sendVars, pumpVars
<1>12. ASSUME NEW d \in Clients, AwaitDone(d) PROVE LeaveLeft(c)' < LeaveLeft(c)
  BY <1>1, <1>3, <1>12 DEF AwaitDone, sendVars, pumpVars
<1>13. ASSUME NEW d \in Clients, PumpWrite(d) PROVE LeaveLeft(c)' < LeaveLeft(c)
  BY <1>1, <1>4, <1>13 DEF PumpWrite, PumpExit
<1>14. ASSUME NEW d \in Clients, PumpClosed(d) PROVE LeaveLeft(c)' < LeaveLeft(c)
  BY <1>1, <1>4, <1>14 DEF PumpClosed, PumpExit, sendVars
<1>15. ASSUME NEW d \in Clients, Subscribe(d) \/ SubscriptionEnds(d) PROVE FALSE
  BY <1>15 DEF Subscribe, SubscriptionEnds, clientVars, sendVars, pumpVars
<1>16. ASSUME NEW d \in Clients, Broadcast(d) PROVE FALSE
  <2>1. clients[room[d]] \in SUBSET Clients
    BY <1>16 DEF Broadcast, HubInv, Subscription, TypeOK
  <2>2. CASE Closed(clients[room[d]]) = {}
    <3>1. c \notin clients[room[d]]
      BY <2>2 DEF Closed
    <3> QED BY <1>5, <1>16, <2>1, <2>2, <3>1 DEF Broadcast, clientVars, pumpVars
  <2>3. CASE Closed(clients[room[d]]) # {}
    BY <1>16, <2>3 DEF Broadcast, clientVars, sendVars, pumpVars
  <2> QED BY <2>2, <2>3
<1>17. ASSUME Publish \/ \E u \in Users : NotifyLookup(u) PROVE FALSE
  BY <1>17 DEF Publish, NotifyLookup, clientVars, sendVars, pumpVars
<1>18. ASSUME SendToUser PROVE FALSE
  <2>1. PICK reached \in SUBSET Clients : Enqueue(reached, PrivateFrame) /\ c \notin reached
    BY <1>18 DEF SendToUser, Closed, TypeOK
  <2> QED BY <1>5, <1>18, <2>1 DEF SendToUser, clientVars, pumpVars
<1> QED
  BY <1>6, <1>7, <1>8, <1>9, <1>10, <1>11, <1>12, <1>13, <1>14, <1>15, <1>16, <1>17, <1>18
     DEF Next, Leave

(* closeSend and the eviction are final.                                   *)
LEMMA ClosedStays ==
  ASSUME TypeOK, HubInv, [Next]_vars, NEW c \in Clients, closed[c]
  PROVE  closed'[c]
<1>1. ASSUME NEW targets \in SUBSET Clients, NEW frame, Enqueue(targets, frame) PROVE closed'[c]
  BY <1>1, EnqueueCloses
<1>2. ASSUME NEW d \in Clients, Reply(d) PROVE closed'[c]
  BY <1>1, <1>2 DEF Reply, sendVars
<1>3. ASSUME NEW d \in Clients, Broadcast(d) PROVE closed'[c]
  <2>1. clients[room[d]] \in SUBSET Clients
    BY <1>3 DEF Broadcast, HubInv, Subscription, TypeOK
  <2> QED BY <1>1, <1>3, <2>1 DEF Broadcast, sendVars
<1>4. ASSUME SendToUser PROVE closed'[c]
  <2>1. PICK reached \in SUBSET Clients : Enqueue(reached, PrivateFrame)
    BY <1>4 DEF SendToUser, TypeOK
  <2> QED BY <1>1, <2>1
<1>5. ASSUME NEW d \in Clients, CloseSend(d) PROVE closed'[c]
  BY <1>5 DEF CloseSend, TypeOK
<1>6. ASSUME NEW d \in Clients,
             \/ GetOrCreateRoom(d) \/ Add(d) \/ ReadClose(d) \/ PeerGone(d) \/ ReadError(d)
             \/ Remove(d) \/ DropRoom(d) \/ AwaitDone(d) \/ PumpWrite(d) \/ PumpClosed(d)
             \/ Subscribe(d) \/ SubscriptionEnds(d)
      PROVE  closed'[c]
  BY <1>6 DEF GetOrCreateRoom, Add, ReadClose, PeerGone, ReadError, Remove, DropRoom, AwaitDone,
     PumpWrite, PumpClosed, Subscribe, SubscriptionEnds, sendVars
<1>7. ASSUME Publish \/ (\E u \in Users : NotifyLookup(u)) \/ UNCHANGED vars PROVE closed'[c]
  BY <1>7 DEF Publish, NotifyLookup, vars, sendVars
<1> QED BY <1>2, <1>3, <1>4, <1>5, <1>6, <1>7 DEF Next, Leave

(* An evicted client is gone after at most clientSendBuf + 6 steps of its  *)
(* own two goroutines, and until then one of them can always go on while   *)
(* the process lives: neither waits for the peer, for Redis or for another *)
(* client. With the fairness of ChatHub this is EvictedLeaves; what is     *)
(* proved here is all of it but the temporal step.                         *)
THEOREM EvictionIsBounded ==
  Spec =>
    /\ [](\A c \in Clients : LeaveLeft(c) \in 0 .. BufSize + 6)
    /\ [](\A c \in Clients : /\ c \in evicted => closed[c]
                             /\ closed[c] /\ pc[c] # "gone" => CanLeave(c))
    /\ [][\A c \in Clients : closed[c] =>
            /\ closed'[c]
            /\ \/ pc'[c] = pc[c] /\ pump'[c] = pump[c] /\ send'[c] = send[c]
               \/ LeaveLeft(c)' < LeaveLeft(c)]_vars
<1> DEFINE Bounded == \A c \in Clients : LeaveLeft(c) \in 0 .. BufSize + 6
           GoesOn == \A c \in Clients : /\ c \in evicted => closed[c]
                                        /\ closed[c] /\ pc[c] # "gone" => CanLeave(c)
           Falls == \A c \in Clients : closed[c] =>
                      /\ closed'[c]
                      /\ \/ pc'[c] = pc[c] /\ pump'[c] = pump[c] /\ send'[c] = send[c]
                         \/ LeaveLeft(c)' < LeaveLeft(c)
<1>1. Init => PumpInv
  BY PumpInit
<1>2. IndInv /\ PumpInv /\ [Next]_vars => PumpInv'
  BY PumpStep DEF IndInv
<1>3. IndInv /\ PumpInv => Bounded /\ GoesOn
  BY LeaveState DEF IndInv, PumpInv
<1>4. IndInv /\ PumpInv /\ [Next]_vars => [Falls]_vars
  BY LeaveStep, ClosedStays DEF IndInv
<1> HIDE DEF Bounded, GoesOn, Falls
<1>5. Spec => []Bounded /\ []GoesOn /\ [][Falls]_vars
  BY Inductive, <1>1, <1>2, <1>3, <1>4, PTL DEF Spec
<1> QED BY <1>5 DEF Bounded, GoesOn, Falls
==============================================================================
