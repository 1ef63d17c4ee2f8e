------------------------------- MODULE ChatHub -------------------------------
(***************************************************************************)
(* The live-chat hub of one API instance for one stream (chat_hub.go): the *)
(* room registry, the Redis subscription of a room, and the WebSocket      *)
(* clients with their buffered send channels.                              *)
(*                                                                         *)
(* Each connection is a client that joins once. A room or subscription is  *)
(* named after the client whose AddClient created it. Chat events (user    *)
(* messages, deletions, lock changes) are numbered in the order in which   *)
(* Redis receives them; PrivateFrame stands for a frame for one client     *)
(* (error, pong, banned, timed_out, timeout_removed).                      *)
(*                                                                         *)
(* room.broadcast holds the room's read lock and only touches the clients' *)
(* own channels, so it is one step here: loops over the same room that     *)
(* overlap reach each single client in some order, and no property         *)
(* compares the orders of two clients. writePump takes a frame and writes  *)
(* it in one step: the frame in its hand is counted as still buffered.     *)
(***************************************************************************)
EXTENDS Naturals, Sequences, FiniteSets

CONSTANTS Clients,      \* WebSocket connections
          UserOf,       \* the user behind a connection
          BufSize,      \* clientSendBuf
          MaxEvents,    \* bound: events published on the channel
          MaxPrivate,   \* bound: private frames
          RedisFails    \* the subscription's connection may break

None == "none"
PrivateFrame == 0

ASSUME ChatAssumption ==
  /\ None \notin Clients
  /\ BufSize \in Nat \ {0}
  /\ MaxEvents \in Nat
  /\ MaxPrivate \in Nat
  /\ RedisFails \in BOOLEAN

Users == {UserOf[c] : c \in Clients}

VARIABLES
  alive,      \* the process runs: no goroutine outside a handler has panicked
  published,  \* number of events published so far
  privates,   \* number of private frames so far
  hubRoom,    \* h.rooms[streamID]
  unsub,      \* h.unsubs[streamID]: the subscription it cancels
  clients,    \* the clients of each room
  sub,        \* redisSubscribe goroutines
  inbox,      \* events a subscription has received and not broadcast yet
  pc,         \* where AddClient is
  room,       \* rm of AddClient
  ws,         \* the connection, as the server sees it
  send,       \* the send channel's buffer
  closed,     \* the send channel is closed
  pump,       \* writePump
  received,   \* events that reached the peer
  notice,     \* BroadcastToUser between its two locks: <<room, user>>
  evicted     \* clients whose channel enqueue has closed

hubVars    == <<hubRoom, unsub, clients>>
subVars    == <<sub, inbox>>
clientVars == <<pc, room, ws>>
sendVars   == <<send, closed, evicted>>
pumpVars   == <<pump, received>>
vars == <<alive, published, privates, hubVars, subVars, clientVars, sendVars,
          pumpVars, notice>>

Subscribed == {"starting", "live"}
Frames == 0 .. MaxEvents

TypeOK ==
  /\ alive \in BOOLEAN
  /\ published \in 0 .. MaxEvents
  /\ privates \in 0 .. MaxPrivate
  /\ hubRoom \in Clients \cup {None}
  /\ unsub \in Clients \cup {None}
  /\ clients \in [Clients -> SUBSET Clients]
  /\ sub \in [Clients -> Subscribed \cup {"none", "cancelled", "ended"}]
  /\ inbox \in [Clients -> Seq(1 .. MaxEvents)]
  /\ pc \in [Clients -> {"new", "joining", "reading", "leaving", "closing",
                         "dropping", "waiting", "gone"}]
  /\ room \in [Clients -> Clients \cup {None}]
  /\ \A c \in Clients : pc[c] # "new" => room[c] \in Clients
  /\ ws \in [Clients -> {"open", "closed"}]
  /\ send \in [Clients -> Seq(Frames)]
  /\ \A c \in Clients : Len(send[c]) <= BufSize
  /\ closed \in [Clients -> BOOLEAN]
  /\ pump \in [Clients -> {"off", "on", "exited"}]
  /\ received \in [Clients -> Seq(1 .. MaxEvents)]
  /\ notice \in (Clients \X Users) \cup {<<>>}
  /\ evicted \subseteq Clients

Init ==
  /\ alive = TRUE
  /\ published = 0
  /\ privates = 0
  /\ hubRoom = None
  /\ unsub = None
  /\ clients = [c \in Clients |-> {}]
  /\ sub = [c \in Clients |-> "none"]
  /\ inbox = [c \in Clients |-> <<>>]
  /\ pc = [c \in Clients |-> "new"]
  /\ room = [c \in Clients |-> None]
  /\ ws = [c \in Clients |-> "open"]
  /\ send = [c \in Clients |-> <<>>]
  /\ closed = [c \in Clients |-> FALSE]
  /\ pump = [c \in Clients |-> "off"]
  /\ received = [c \in Clients |-> <<>>]
  /\ notice = <<>>
  /\ evicted = {}

Goto(c, label) == pc' = [pc EXCEPT ![c] = label]

------------------------------------------------------------------------------
(* ChatClient.enqueue, for every client of a set none of whose channels is *)
(* closed: append, or close the channel of a slow consumer. (A send on a   *)
(* closed channel panics; the callers say what a panic does.)              *)

(* Seeded bug: off by one.                                                 *)
FullLate(c) == Len(send[c]) > BufSize

Full(c) == Len(send[c]) >= BufSize

(* Seeded bug: a frame for a slow consumer is dropped silently.            *)
EnqueueOrDrop(targets, frame) ==
  /\ send' = [c \in Clients |-> IF c \in targets /\ ~ Full(c)
                                THEN Append(send[c], frame) ELSE send[c]]
  /\ UNCHANGED <<closed, evicted>>

Enqueue(targets, frame) ==
  /\ send' = [c \in Clients |-> IF c \in targets /\ ~ Full(c)
                                THEN Append(send[c], frame) ELSE send[c]]
  /\ closed' = [c \in Clients |-> closed[c] \/ (c \in targets /\ Full(c))]
  /\ evicted' = evicted \cup {c \in targets : Full(c)}

Closed(targets) == {c \in targets : closed[c]}

------------------------------------------------------------------------------
(* AddClient.                                                              *)

(* Seeded bug: every join starts a subscription.                           *)
ResubscribeOnJoin(c) ==
  /\ alive
  /\ pc[c] = "new"
  /\ hubRoom' = IF hubRoom # None THEN hubRoom ELSE c
  /\ room' = [room EXCEPT ![c] = hubRoom']
  /\ unsub' = c
  /\ sub' = [sub EXCEPT ![c] = "starting"]
  /\ Goto(c, "joining")
  /\ UNCHANGED <<alive, published, privates, clients, inbox, ws, sendVars, pumpVars,
                 notice>>

(* getOrCreateRoom, under the hub's lock.                                  *)
GetOrCreateRoom(c) ==
  /\ alive
  /\ pc[c] = "new"
  /\ IF hubRoom # None
     THEN /\ room' = [room EXCEPT ![c] = hubRoom]
          /\ UNCHANGED <<hubRoom, unsub, sub>>
     ELSE /\ room' = [room EXCEPT ![c] = c]
          /\ hubRoom' = c
          /\ unsub' = c
          /\ sub' = [sub EXCEPT ![c] = "starting"]
  /\ Goto(c, "joining")
  /\ UNCHANGED <<alive, published, privates, clients, inbox, ws, sendVars, pumpVars,
                 notice>>

(* rm.add, under the room's lock, and go c.writePump().                    *)
Add(c) ==
  /\ alive
  /\ pc[c] = "joining"
  /\ clients' = [clients EXCEPT ![room[c]] = @ \cup {c}]
  /\ pump' = [pump EXCEPT ![c] = "on"]
  /\ Goto(c, "reading")
  /\ UNCHANGED <<alive, published, privates, hubRoom, unsub, subVars, room, ws,
                 sendVars, received, notice>>

(* readFrame returns an error on a connection that is gone.                *)
ReadError(c) ==
  /\ alive
  /\ pc[c] = "reading"
  /\ ws[c] = "closed"
  /\ Goto(c, "leaving")
  /\ UNCHANGED <<alive, published, privates, hubVars, subVars, room, ws, sendVars,
                 pumpVars, notice>>

(* A close frame, an oversized one, or 60 s of silence.                    *)
ReadClose(c) ==
  /\ alive
  /\ pc[c] = "reading"
  /\ ws[c] = "open"
  /\ Goto(c, "leaving")
  /\ UNCHANGED <<alive, published, privates, hubVars, subVars, room, ws, sendVars,
                 pumpVars, notice>>

(* The read pump answers its own client: pong, or the error of onMessage.  *)
(* A panic unwinds AddClient through its deferred function and ends in the *)
(* Recoverer middleware.                                                   *)
Reply(c) ==
  /\ alive
  /\ pc[c] = "reading"
  /\ privates < MaxPrivate
  /\ privates' = privates + 1
  /\ IF closed[c]
     THEN Goto(c, "leaving") /\ UNCHANGED sendVars
     ELSE Enqueue({c}, PrivateFrame) /\ UNCHANGED pc
  /\ UNCHANGED <<alive, published, hubVars, subVars, room, ws, pumpVars, notice>>

(* Seeded bug: the channel is closed before the client is removed.         *)
RemoveAfterClose(c) ==
  /\ alive
  /\ pc[c] = "leaving"
  /\ IF closed[c]
     THEN /\ clients' = [clients EXCEPT ![room[c]] = @ \ {c}]
          /\ Goto(c, "closing")
          /\ UNCHANGED closed
     ELSE /\ closed' = [closed EXCEPT ![c] = TRUE]
          /\ UNCHANGED <<clients, pc>>
  /\ UNCHANGED <<alive, published, privates, hubRoom, unsub, subVars, room, ws,
                 send, evicted, pumpVars, notice>>

(* The deferred function: rm.remove, c.closeSend, h.dropRoom, <-c.done.    *)
Remove(c) ==
  /\ alive
  /\ pc[c] = "leaving"
  /\ clients' = [clients EXCEPT ![room[c]] = @ \ {c}]
  /\ Goto(c, "closing")
  /\ UNCHANGED <<alive, published, privates, hubRoom, unsub, subVars, room, ws,
                 sendVars, pumpVars, notice>>

(* Seeded bug: the deferred function returns early when the channel has    *)
(* been closed already.                                                    *)
CloseSendOrReturn(c) ==
  /\ alive
  /\ pc[c] = "closing"
  /\ closed' = [closed EXCEPT ![c] = TRUE]
  /\ Goto(c, IF closed[c] THEN "waiting" ELSE "dropping")
  /\ UNCHANGED <<alive, published, privates, hubVars, subVars, room, ws, send, evicted,
                 pumpVars, notice>>

CloseSend(c) ==
  /\ alive
  /\ pc[c] = "closing"
  /\ closed' = [closed EXCEPT ![c] = TRUE]
  /\ Goto(c, "dropping")
  /\ UNCHANGED <<alive, published, privates, hubVars, subVars, room, ws, send, evicted,
                 pumpVars, notice>>

DropRoom(c) ==
  /\ alive
  /\ pc[c] = "dropping"
  /\ IF hubRoom # None /\ clients[hubRoom] = {}
     THEN /\ hubRoom' = None
          /\ unsub' = None
          /\ sub' = [sub EXCEPT ![unsub] = IF @ \in Subscribed THEN "cancelled" ELSE @]
     ELSE UNCHANGED <<hubRoom, unsub, sub>>
  /\ Goto(c, "waiting")
  /\ UNCHANGED <<alive, published, privates, clients, inbox, room, ws, sendVars,
                 pumpVars, notice>>

AwaitDone(c) ==
  /\ alive
  /\ pc[c] = "waiting"
  /\ pump[c] = "exited"
  /\ Goto(c, "gone")
  /\ UNCHANGED <<alive, published, privates, hubVars, subVars, room, ws, sendVars,
                 pumpVars, notice>>

(* The peer closes or loses the connection.                                *)
PeerGone(c) ==
  /\ alive
  /\ pc[c] # "new"
  /\ ws[c] = "open"
  /\ ws' = [ws EXCEPT ![c] = "closed"]
  /\ UNCHANGED <<alive, published, privates, hubVars, subVars, pc, room, sendVars,
                 pumpVars, notice>>

------------------------------------------------------------------------------
(* writePump. Its deferred function closes the connection and c.done.      *)

(* Seeded bug: the connection is left open.                                *)
PumpExitOpen(c) ==
  /\ pump' = [pump EXCEPT ![c] = "exited"]
  /\ UNCHANGED ws

PumpExit(c) ==
  /\ pump' = [pump EXCEPT ![c] = "exited"]
  /\ ws' = [ws EXCEPT ![c] = "closed"]

(* WriteText succeeds, or fails (connection gone, 10 s write deadline).    *)
PumpWrite(c) ==
  /\ alive
  /\ pump[c] = "on"
  /\ send[c] # <<>>
  /\ send' = [send EXCEPT ![c] = Tail(@)]
  /\ \/ /\ received' = IF ws[c] = "open" /\ Head(send[c]) # PrivateFrame
                       THEN [received EXCEPT ![c] = Append(@, Head(send[c]))]
                       ELSE received
        /\ UNCHANGED <<pump, ws>>
     \/ PumpExit(c) /\ UNCHANGED received
  /\ UNCHANGED <<alive, published, privates, hubVars, subVars, pc, room, closed, evicted,
                 notice>>

PumpClosed(c) ==
  /\ alive
  /\ pump[c] = "on"
  /\ send[c] = <<>>
  /\ closed[c]
  /\ PumpExit(c)
  /\ UNCHANGED <<alive, published, privates, hubVars, subVars, pc, room, sendVars,
                 received, notice>>

------------------------------------------------------------------------------
(* redisSubscribe and Publish.                                             *)

(* SUBSCRIBE takes effect at Redis.                                        *)
Subscribe(s) ==
  /\ alive
  /\ sub[s] = "starting"
  /\ sub' = [sub EXCEPT ![s] = "live"]
  /\ UNCHANGED <<alive, published, privates, hubVars, inbox, clientVars, sendVars,
                 pumpVars, notice>>

(* A handler of this or of another API instance publishes the next event;  *)
(* Redis hands it to every live subscription.                              *)
Publish ==
  /\ published < MaxEvents
  /\ published' = published + 1
  /\ inbox' = [s \in Clients |-> IF sub[s] = "live" THEN Append(inbox[s], published + 1)
                                 ELSE inbox[s]]
  /\ UNCHANGED <<alive, privates, hubVars, sub, clientVars, sendVars, pumpVars, notice>>

(* Seeded bug: a goroutine per event, so that two may overtake each other. *)
BroadcastInParallel(s) ==
  /\ alive
  /\ sub[s] \in {"live", "cancelled"}
  /\ \E i \in 1 .. Len(inbox[s]) :
       /\ inbox' = [inbox EXCEPT ![s] = SubSeq(@, 1, i - 1) \o SubSeq(@, i + 1, Len(@))]
       /\ IF Closed(clients[room[s]]) = {}
          THEN Enqueue(clients[room[s]], inbox[s][i]) /\ UNCHANGED alive
          ELSE alive' = FALSE /\ UNCHANGED sendVars
  /\ UNCHANGED <<published, privates, hubVars, sub, clientVars, pumpVars, notice>>

(* ReceiveMessage returns an event, rm.broadcast. Nothing recovers a panic *)
(* of this goroutine: it ends the process.                                 *)
Broadcast(s) ==
  /\ alive
  /\ sub[s] \in {"live", "cancelled"}
  /\ inbox[s] # <<>>
  /\ inbox' = [inbox EXCEPT ![s] = Tail(@)]
  /\ IF Closed(clients[room[s]]) = {}
     THEN Enqueue(clients[room[s]], Head(inbox[s])) /\ UNCHANGED alive
     ELSE alive' = FALSE /\ UNCHANGED sendVars
  /\ UNCHANGED <<published, privates, hubVars, sub, clientVars, pumpVars, notice>>

(* ReceiveMessage returns an error: the context was cancelled, or the      *)
(* connection broke. Either way the goroutine returns.                     *)
SubscriptionEnds(s) ==
  /\ alive
  /\ sub[s] = "cancelled" \/ (RedisFails /\ sub[s] \in Subscribed)
  /\ sub' = [sub EXCEPT ![s] = "ended"]
  /\ inbox' = [inbox EXCEPT ![s] = <<>>]
  /\ UNCHANGED <<alive, published, privates, hubVars, clientVars, sendVars, pumpVars,
                 notice>>

------------------------------------------------------------------------------
(* BroadcastToUser: the room is looked up under the hub's lock and used    *)
(* after it was released. A panic is the calling request's, recovered; the *)
(* clients before the closed one in the map's order have got the frame.    *)

NotifyLookup(u) ==
  /\ alive
  /\ privates < MaxPrivate
  /\ notice = <<>>
  /\ hubRoom # None
  /\ privates' = privates + 1
  /\ notice' = <<hubRoom, u>>
  /\ UNCHANGED <<alive, published, hubVars, subVars, clientVars, sendVars, pumpVars>>

SendToUser ==
  /\ alive
  /\ notice # <<>>
  /\ LET targets == {c \in clients[notice[1]] : UserOf[c] = notice[2]}
     IN  \E reached \in SUBSET (targets \ Closed(targets)) :
           /\ Closed(targets) = {} => reached = targets
           /\ Enqueue(reached, PrivateFrame)
  /\ notice' = <<>>
  /\ UNCHANGED <<alive, published, privates, hubVars, subVars, clientVars, pumpVars>>

------------------------------------------------------------------------------

(* What AddClient's goroutine does of its own accord.                      *)
Leave(c) == ReadError(c) \/ Remove(c) \/ CloseSend(c) \/ DropRoom(c) \/ AwaitDone(c)

Next ==
  \/ \E c \in Clients :
       \/ GetOrCreateRoom(c) \/ Add(c) \/ ReadClose(c) \/ Reply(c) \/ PeerGone(c)
       \/ Leave(c) \/ PumpWrite(c) \/ PumpClosed(c)
       \/ Subscribe(c) \/ Broadcast(c) \/ SubscriptionEnds(c)
  \/ Publish
  \/ \E u \in Users : NotifyLookup(u)
  \/ SendToUser

Spec == Init /\ [][Next]_vars

(* Goroutines that can run do run. A read or a write that the peer holds   *)
(* up ends at its deadline (60 s, 10 s).                                   *)
Fairness ==
  \A c \in Clients :
    /\ WF_vars(Add(c))
    /\ WF_vars(Leave(c))
    /\ WF_vars(PumpWrite(c) \/ PumpClosed(c))
    /\ WF_vars(Subscribe(c))
    /\ WF_vars(Broadcast(c))

FairSpec == Spec /\ Fairness

------------------------------------------------------------------------------
(* Properties.                                                             *)

(* The instance holds at most one subscription to the stream, and it is    *)
(* the one of the registered room: rooms that come and go while clients    *)
(* join and leave never leave a subscription behind that nobody can cancel. *)
OneSubscription ==
  \A s \in Clients : sub[s] \in Subscribed => s = unsub /\ room[s] = hubRoom

StrictlyIncreasing(seq) ==
  \A i, j \in 1 .. Len(seq) : i < j => seq[i] < seq[j]

(* A client sees the events in the order in which Redis got them, each at  *)
(* most once, whichever of them it misses.                                 *)
InOrderAtMostOnce == \A c \in Clients : StrictlyIncreasing(received[c])

(* When every client is gone so are the room, its subscription and every   *)
(* entry in a room: nothing of a stream nobody watches is leaked.          *)
NothingLeaks ==
  (\A c \in Clients : pc[c] \in {"waiting", "gone"}) =>
    /\ hubRoom = None
    /\ \A c \in Clients : clients[c] = {} /\ sub[c] \notin Subscribed

(* A client that leaves is out of its room before its channel is closed,   *)
(* so a broadcast can only hit a closed channel, and take the process      *)
(* down, after a client was evicted for being slow.                        *)
PanicNeedsEviction ==
  /\ ~ alive => evicted # {}
  /\ \A r \in Clients : Closed(clients[r]) \subseteq evicted

(* The connections of one user are interchangeable: what holds of the one  *)
(* the liveness properties look at holds of each.                          *)
AnyClient == CHOOSE c \in Clients : TRUE

(* An evicted client is disconnected: the closed channel ends the write    *)
(* pump, which closes the connection, which ends the read pump.            *)
EvictedLeaves ==
  AnyClient \in evicted ~> (pc[AnyClient] = "gone" \/ ~ alive)

(* An event that reaches the instance is delivered to every client that is *)
(* in the room, unless the client leaves or is being disconnected, or the  *)
(* subscription breaks with the event unread.                              *)
Delivered ==
  LET c == AnyClient IN \A e \in 1 .. MaxEvents :
    (\E s \in Clients : /\ sub[s] = "live"
                        /\ c \in clients[room[s]]
                        /\ \E i \in 1 .. Len(inbox[s]) : inbox[s][i] = e)
      ~> \/ \E i \in 1 .. Len(received[c]) : received[c][i] = e
         \/ pc[c] # "reading"
         \/ ws[c] = "closed"
         \/ closed[c]
         \/ RedisFails /\ sub[room[c]] = "ended"
         \/ ~ alive

(* chat_hub.go:242, of a full buffer: "evicts the client". The eviction    *)
(* concerns that client and nobody else: the process lives on.             *)
EvictionIsLocal == alive

(* The types, capacities of channels included, and one subscription.       *)
RoomsInv == TypeOK /\ OneSubscription
==============================================================================
