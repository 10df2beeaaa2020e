---------------------------- MODULE WebSocketPool ----------------------------
(***************************************************************************)
(* The channels of WebSockets: each WebSocket has a CppWebSocketProvider    *)
(* that acquires a channel from the pool, wraps it as a MyChannel and gives *)
(* it back when the server says LOOP, or END, or the session disconnects.   *)
(*                                                                          *)
(* The pool is the IChannelPool of WebSocketPoolManager, a queue.  A         *)
(* provider connects once.  MyChannel's methods run under its mutex, and so *)
(* are one step, but onBroken calls close with the mutex locked: that       *)
(* thread never goes on, and the session thread neither once it needs the   *)
(* mutex.                                                                   *)
(***************************************************************************)
EXTENDS Naturals, Sequences, SequencesExt, FiniteSets

CONSTANTS
  Providers,
  PoolSize      (* the channels the pool was made with *)

ASSUME PoolAssumption == PoolSize \in Nat

VARIABLES
  free,         (* IChannelPool.connections                                 *)
  alive,        (* channels that are open                                   *)
  connected,    (* has the provider called connect                          *)
  myChannel,    (* its MyChannel, or NoChannel                              *)
  stuck,        (* providers whose MyChannel is locked for ever             *)
  waits,        (* does the session thread wait for such a lock             *)
  told,         (* what the network listener was told last                  *)
  lostChannels, (* acquired, found closed and not given back                *)
  twice         (* given back although free, or in use by another           *)

poolVars == <<free, alive, connected, myChannel, stuck, waits, told, lostChannels, twice>>

Channels  == 1..PoolSize
NoChannel == [ch |-> 0, closed |-> TRUE, released |-> TRUE]
Usable(p) == ~myChannel[p].closed /\ ~myChannel[p].released

PoolTypeOK ==
  /\ free \in Seq(Channels) /\ alive \subseteq Channels
  /\ connected \in [Providers -> BOOLEAN] /\ stuck \subseteq Providers /\ waits \in BOOLEAN
  /\ myChannel \in [Providers -> [ch : 0..PoolSize, closed : BOOLEAN, released : BOOLEAN]]
  /\ told \in [Providers -> {"nothing", "open", "closed", "broken"}]
  /\ lostChannels \subseteq Channels /\ twice \subseteq Channels
-----------------------------------------------------------------------------
(* IChannelPool.release. *)
Given(c) == free' = Append(free, c)
InUse(c, others) == \E q \in others : Usable(q) /\ myChannel[q].ch = c
IsTwice(p, c) == Contains(free, c) \/ c \in lostChannels \/ InUse(c, Providers \ {p})

(* connect.  A channel that is not active, or comes too late, breaks the     *)
(* connection; the former is not given back. *)
Acquire(p) ==
  /\ ~connected[p] /\ ~waits /\ free # <<>>
  /\ connected' = [connected EXCEPT ![p] = TRUE] /\ free' = Tail(free)
  /\ \/ /\ Head(free) \in alive
        /\ myChannel' = [myChannel EXCEPT ![p] = [ch |-> Head(free), closed |-> FALSE, released |-> FALSE]]
        /\ told' = [told EXCEPT ![p] = "open"]
        /\ UNCHANGED lostChannels
     \/ /\ Head(free) \notin alive
        /\ told' = [told EXCEPT ![p] = "broken"]
        /\ lostChannels' = lostChannels \cup {Head(free)}
        /\ UNCHANGED myChannel
  /\ UNCHANGED <<alive, stuck, waits, twice>>
AcquireTimeout(p) ==
  /\ ~connected[p] /\ ~waits /\ free = <<>>
  /\ connected' = [connected EXCEPT ![p] = TRUE] /\ told' = [told EXCEPT ![p] = "broken"]
  /\ UNCHANGED <<free, alive, myChannel, stuck, waits, lostChannels, twice>>

(* MyChannel.release on each LOOP, also on one that was released. *)
ReleaseAgain(p) ==
  /\ ~myChannel[p].closed
  /\ Given(myChannel[p].ch)
  /\ twice' = (IF Usable(p) /\ IsTwice(p, myChannel[p].ch) THEN twice \cup {myChannel[p].ch} ELSE twice)
  /\ myChannel' = [myChannel EXCEPT ![p].released = TRUE]
  /\ UNCHANGED <<alive, connected, stuck, waits, told, lostChannels>>

(* MyChannel.release. *)
Release(p) ==
  /\ Usable(p)
  /\ Given(myChannel[p].ch)
  /\ twice' = (IF IsTwice(p, myChannel[p].ch) THEN twice \cup {myChannel[p].ch} ELSE twice)
  /\ myChannel' = [myChannel EXCEPT ![p].released = TRUE]
  /\ UNCHANGED <<alive, connected, stuck, waits, told, lostChannels>>

(* MyChannel.close: it gives the channel back each time, and it closes one   *)
(* that was released.  Closing the channel may fail. *)
CloseChannel(p) ==
  LET c == myChannel[p].ch IN
  /\ IF myChannel[p].closed THEN UNCHANGED alive ELSE alive' \in {alive, alive \ {c}}
  /\ IF myChannel[p].released THEN UNCHANGED <<free, twice>>
     ELSE Given(c) /\ twice' = (IF IsTwice(p, c) THEN twice \cup {c} ELSE twice)

(* RequestListenerDecorator.onMessage, on a thread of the network. *)
Loop(p) == p \notin stuck /\ Release(p)
End(p) ==
  /\ p \notin stuck /\ myChannel[p] # NoChannel /\ ~myChannel[p].closed
  /\ CloseChannel(p)
  /\ myChannel' = [myChannel EXCEPT ![p].closed = TRUE]
  /\ UNCHANGED <<connected, stuck, waits, told, lostChannels>>

(* The channel is closed by the other side: channelInactive. *)
ChannelInactive(c) ==
  /\ c \in alive
  /\ alive' = alive \ {c}
  /\ told' = [p \in Providers |-> IF Usable(p) /\ myChannel[p].ch = c THEN "closed" ELSE told[p]]
  /\ UNCHANGED <<free, connected, myChannel, stuck, waits, lostChannels, twice>>

(* A write fails: onBroken locks, and close waits for it. *)
WriteFails(p) ==
  /\ Usable(p) /\ p \notin stuck
  /\ stuck' = stuck \cup {p}
  /\ UNCHANGED <<free, alive, connected, myChannel, waits, told, lostChannels, twice>>

(* The session thread writes, or disconnects. *)
NeedsLock(p) ==
  /\ p \in stuck /\ ~waits
  /\ waits' = TRUE
  /\ UNCHANGED <<free, alive, connected, myChannel, stuck, told, lostChannels, twice>>
Disconnect(p) ==
  /\ myChannel[p] # NoChannel /\ p \notin stuck /\ ~waits
  /\ CloseChannel(p)
  /\ myChannel' = [myChannel EXCEPT ![p] = NoChannel]
  /\ UNCHANGED <<connected, stuck, waits, told, lostChannels>>
-----------------------------------------------------------------------------
PoolInit ==
  /\ free = [c \in Channels |-> c] /\ alive = Channels
  /\ connected = [p \in Providers |-> FALSE] /\ myChannel = [p \in Providers |-> NoChannel]
  /\ stuck = {} /\ waits = FALSE /\ told = [p \in Providers |-> "nothing"]
  /\ lostChannels = {} /\ twice = {}

PoolNext ==
  \/ \E p \in Providers :
       Acquire(p) \/ AcquireTimeout(p) \/ Loop(p) \/ End(p) \/ WriteFails(p) \/ NeedsLock(p) \/ Disconnect(p)
  \/ \E c \in Channels : ChannelInactive(c)

PoolSpec == PoolInit /\ [][PoolNext]_poolVars
-----------------------------------------------------------------------------
(* Properties.                                                             *)

(* Every channel is in one place: free, used by one WebSocket, or lost to    *)
(* the pool, unless it was given back twice, as an END and the disconnection *)
(* that follows do.                                                          *)
Users(c)  == {p \in Providers : Usable(p) /\ myChannel[p].ch = c}
OnePlace ==
  \A c \in Channels \ twice :
    Cardinality(Users(c)) + Cardinality({i \in DOMAIN free : free[i] = c}) + Cardinality({c} \cap lostChannels) = 1
=============================================================================
