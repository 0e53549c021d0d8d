-------------------------------- MODULE Access --------------------------------
(***************************************************************************)
(* Who is connected to a Runtime and which devices it knows (pairing.py,   *)
(* runtime_server.py, gateway_ws.py).  Unix connections are counted when   *)
(* they are accepted; WebSocket connections are pending until a handshake  *)
(* has shown a device's token.  Handshakes from one source take turns, and *)
(* one that follows a failure sleeps first.  The device list is kept in    *)
(* memory and written to disk at every change; writing may fail, before or *)
(* after the new file is in place.  Everything between two awaits is one   *)
(* step.  A device is named after the connection that has claimed it; the  *)
(* source of all WebSocket connections is the same.                        *)
(***************************************************************************)
EXTENDS FiniteSets, Naturals

CONSTANTS
    Remotes,        \* WebSocket connections
    Locals,         \* Unix connections
    Paired,         \* devices that were paired before
    MaxClients, MaxPerDevice, MaxPending,
    SaveFails,      \* whether writing the device list may fail
    None

Connections == Remotes \cup Locals
Devices == Paired \cup Remotes
Wrong == "wrong"    \* a token that is no device's

VARIABLES
    up,             \* "down", "loaded" (the list is read) or "serving"
    memory, disk,   \* the device list
    code,           \* an enrollment code is in the vault
    told,           \* devices whose token was given to a client
    asked,          \* devices somebody wanted revoked
    revoked,        \* devices whose revocation was answered
    overtaken,      \* `devices revoke` wrote a list that a Runtime had read
    command,        \* the `devices revoke` command
    pc,
    device,         \* connection -> the device it has proven to be
    tries,          \* connection -> the token of its handshake
    todo,           \* connection -> those that its devices.revoke has to close
    counted, pending,   \* server.connections, server.pending_connections
    lost,           \* connections whose run() waits for ever
    turn,           \* who holds the limiter's lock
    blocked         \* the next handshake has to wait

listed == <<memory, disk, code, told, asked, revoked, overtaken, command>>
limiter == <<turn, blocked>>
places == <<counted, pending, lost>>
accessVars == <<up, listed, pc, device, tries, todo, places, limiter>>

TypeOK ==
    /\ up \in {"down", "loaded", "serving"}
    /\ memory \subseteq Devices /\ disk \subseteq Devices
    /\ code \in BOOLEAN /\ overtaken \in BOOLEAN /\ blocked \in BOOLEAN
    /\ told \subseteq Devices /\ asked \subseteq Devices /\ revoked \subseteq asked
    /\ command \in {"idle", "offline", "done"}
    /\ pc \in [Connections -> {"idle", "pending", "waiting", "sleeping", "half", "active",
                               "revoking", "closing", "gone"}]
    /\ device \in [Connections -> Devices \cup {None}]
    /\ tries \in [Remotes -> Devices \cup {None, Wrong}]
    /\ todo \in [Connections -> SUBSET Connections]
    /\ turn \in Remotes \cup {None}
    /\ turn # None => pc[turn] = "sleeping"
    /\ counted \cap pending = {} /\ lost \subseteq counted
    /\ \A k \in counted \cup pending : pc[k] \notin {"idle", "gone"}

Init ==
    /\ up = "serving" /\ memory = Paired /\ disk = Paired
    /\ code = FALSE /\ told = Paired /\ asked = {} /\ revoked = {}
    /\ overtaken = FALSE /\ command = "idle"
    /\ pc = [k \in Connections |-> "idle"]
    /\ device = [k \in Connections |-> None] /\ tries = [k \in Remotes |-> None]
    /\ todo = [k \in Connections |-> {}]
    /\ counted = {} /\ pending = {} /\ lost = {} /\ turn = None /\ blocked = FALSE

Goes(k, where) == pc' = [pc EXCEPT ![k] = where]

\* DeviceStore._save: temporary file, fsync, replace, fsync of the directory.
Saves(list) == disk' = list
SaveRaises(list) == SaveFails /\ disk' \in {disk, list}

----------------------------------------------------------------------------
(* Connections come and go.                                                *)

AcceptLocal(k) ==
    /\ k \in Locals /\ up = "serving" /\ pc[k] = "idle"
    /\ IF Cardinality(counted) < MaxClients
       THEN Goes(k, "active") /\ counted' = counted \cup {k}
       ELSE Goes(k, "gone") /\ UNCHANGED counted
    /\ UNCHANGED <<up, listed, device, tries, todo, pending, lost, limiter>>

AcceptRemote(k) ==
    /\ k \in Remotes /\ up = "serving" /\ pc[k] = "idle"
    /\ IF Cardinality(pending) < MaxPending
       THEN Goes(k, "pending") /\ pending' = pending \cup {k}
       ELSE Goes(k, "gone") /\ UNCHANGED pending
    /\ UNCHANGED <<up, listed, device, tries, todo, counted, lost, limiter>>

\* The peer goes away, or is silent for too long before its handshake; run()
\* does not notice while it is in a handshake.
PeerLeaves(k) ==
    /\ pc[k] \in {"pending", "half", "active", "revoking"} /\ Goes(k, "closing")
    /\ UNCHANGED <<up, listed, device, tries, todo, places, limiter>>

\* Slip: only the connections that have shown a token give their place back.
ReturnCounted(k) ==
    /\ pc[k] = "closing" /\ k \notin lost /\ Goes(k, "gone")
    /\ counted' = counted \ {k}
    /\ UNCHANGED <<up, listed, device, tries, todo, pending, lost, limiter>>

\* run() returns to _accept or to the WebSocket handler.
Return(k) ==
    /\ pc[k] = "closing" /\ k \notin lost /\ Goes(k, "gone")
    /\ counted' = counted \ {k} /\ pending' = pending \ {k}
    /\ UNCHANGED <<up, listed, device, tries, todo, lost, limiter>>

\* close() was another task's, and cancelled the writer amid an answer, to the
\* handshake or to a frame that could not be read, which run() awaits; or a
\* request that run() awaits was closing the connection itself.  Nobody but run()
\* and its own handshake closes a connection that is pending.
Lose(k) ==
    /\ pc[k] = "closing" /\ k \in counted \ lost /\ lost' = lost \cup {k}
    /\ UNCHANGED <<up, listed, pc, device, tries, todo, counted, pending, limiter>>

----------------------------------------------------------------------------
(* system.handshake of a WebSocket connection.                             *)

Handshake(k) ==
    /\ k \in Remotes /\ pc[k] = "pending" /\ Goes(k, "waiting")
    /\ \E token \in told \cup {Wrong} : tries' = [tries EXCEPT ![k] = token]
    /\ UNCHANGED <<up, listed, device, todo, places, limiter>>

Connected(d) == {k \in counted : device[k] = d}

\* Slip: the limits are looked at before the wait for the limiter.
AuthenticateUncounted(k) ==
    LET d == tries[k]
    IN  \/ /\ d \notin memory
           /\ Goes(k, "closing") /\ blocked' = TRUE
           /\ UNCHANGED <<disk, device, places>>
        \/ /\ d \in memory
           /\ device' = [device EXCEPT ![k] = d]
           /\ counted' = counted \cup {k} /\ pending' = pending \ {k} /\ UNCHANGED lost
           /\ blocked' = FALSE
           /\ \/ Goes(k, "active") /\ Saves(memory)
              \/ Goes(k, "half") /\ SaveRaises(memory)

\* _accept_device_token, and what _authenticate_handshake_locked makes of its
\* outcome.
Authenticate(k) ==
    LET d == tries[k]
    IN  \/ /\ d \notin memory
           /\ Goes(k, "closing") /\ blocked' = TRUE
           /\ UNCHANGED <<disk, device, places>>
        \/ /\ d \in memory
           /\ Cardinality(Connected(d)) >= MaxPerDevice \/ Cardinality(counted) >= MaxClients
           /\ Goes(k, "closing") /\ blocked' = FALSE
           /\ UNCHANGED <<disk, device, places>>
        \/ /\ d \in memory
           /\ Cardinality(Connected(d)) < MaxPerDevice /\ Cardinality(counted) < MaxClients
           /\ device' = [device EXCEPT ![k] = d]
           /\ counted' = counted \cup {k} /\ pending' = pending \ {k} /\ UNCHANGED lost
           /\ blocked' = FALSE
           /\ \/ Goes(k, "active") /\ Saves(memory)
              \/ Goes(k, "half") /\ SaveRaises(memory)

\* The lock is free: without a delay all is done at once.
TakeTurn(k) ==
    /\ k \in Remotes /\ pc[k] = "waiting" /\ turn = None
    /\ IF blocked
       THEN Goes(k, "sleeping") /\ turn' = k /\ UNCHANGED <<disk, device, places, blocked>>
       ELSE Authenticate(k) /\ UNCHANGED turn
    /\ UNCHANGED <<up, memory, code, told, asked, revoked, overtaken, command, tries, todo>>

Wake(k) ==
    /\ k \in Remotes /\ pc[k] = "sleeping" /\ Authenticate(k) /\ turn' = None
    /\ UNCHANGED <<up, memory, code, told, asked, revoked, overtaken, command, tries, todo>>

\* The list could not be written after the connection was activated: the client
\* is told of an internal error, and a second handshake needs no token.
HandshakeAgain(k) ==
    /\ pc[k] = "half" /\ Goes(k, "active")
    /\ UNCHANGED <<up, listed, device, tries, todo, places, limiter>>

----------------------------------------------------------------------------
(* devices.enroll, devices.claim.                                          *)

Enroll(k) ==
    /\ pc[k] = "active" /\ code' = TRUE
    /\ UNCHANGED <<up, memory, disk, told, asked, revoked, overtaken, command, pc, device,
                   tries, todo, places, limiter>>

Expire ==
    /\ code /\ code' = FALSE
    /\ UNCHANGED <<up, memory, disk, told, asked, revoked, overtaken, command, pc, device,
                   tries, todo, places, limiter>>

\* Slip: the token is issued before the list is written.
ClaimUnsaved(k) ==
    /\ k \in Remotes /\ pc[k] \in {"pending", "active"} /\ code /\ code' = FALSE
    /\ memory' = memory \cup {k} /\ told' = told \cup {k}
    /\ Goes(k, "closing") /\ (Saves(memory') \/ SaveRaises(memory'))
    /\ blocked' = FALSE
    /\ UNCHANGED <<up, asked, revoked, overtaken, command, device, tries, todo, places, turn>>

\* The code is used up first; a list that cannot be written forgets the device
\* again, on disk it may be there.
Claim(k) ==
    /\ k \in Remotes /\ pc[k] \in {"pending", "active"} /\ code /\ code' = FALSE
    /\ \/ /\ memory' = memory \cup {k} /\ Saves(memory') /\ told' = told \cup {k}
          /\ Goes(k, "closing") /\ blocked' = FALSE
       \/ /\ SaveRaises(memory \cup {k}) /\ UNCHANGED <<memory, told, pc, blocked>>
    /\ UNCHANGED <<up, asked, revoked, overtaken, command, device, tries, todo, places, turn>>

ClaimFails(k) ==
    /\ k \in Remotes /\ pc[k] \in {"pending", "active"} /\ ~code /\ Goes(k, "closing")
    /\ UNCHANGED <<up, listed, device, tries, todo, places, limiter>>

----------------------------------------------------------------------------
(* devices.revoke, and the command that writes the list itself.            *)

\* Slip: the revoking connection is not closed for being the device's own.
RevokeOthers(k, d) ==
    /\ pc[k] = "active" /\ asked' = asked \cup {d}
    /\ memory' = memory \ {d} /\ revoked' = revoked \cup {d}
    /\ IF d \in memory THEN Saves(memory') ELSE UNCHANGED disk
    /\ todo' = [todo EXCEPT ![k] = {}] /\ Goes(k, "revoking")
    /\ UNCHANGED <<up, code, told, overtaken, command, device, tries, places, limiter>>

Revoke(k, d) ==
    /\ pc[k] = "active" /\ asked' = asked \cup {d}
    /\ \/ /\ memory' = memory \ {d} /\ revoked' = revoked \cup {d}
          /\ IF d \in memory THEN Saves(memory') ELSE UNCHANGED disk
          /\ todo' = [todo EXCEPT ![k] = Connected(d)] /\ Goes(k, "revoking")
       \/ /\ d \in memory /\ SaveRaises(memory \ {d})
          /\ UNCHANGED <<memory, revoked, todo, pc>>
    /\ UNCHANGED <<up, code, told, overtaken, command, device, tries, places, limiter>>

\* One connection after the other is closed; its own comes last.
RevokeCloses(k) ==
    /\ pc[k] = "revoking"
    /\ \E other \in todo[k] :
           /\ other = k => todo[k] = {k}
           /\ pc' = [pc EXCEPT ![other] = IF @ = "gone" THEN @ ELSE "closing"]
           /\ todo' = [todo EXCEPT ![k] = @ \ {other}]
    /\ UNCHANGED <<up, listed, device, tries, places, limiter>>

RevokeAnswered(k) ==
    /\ pc[k] = "revoking" /\ todo[k] = {} /\ Goes(k, "active")
    /\ UNCHANGED <<up, listed, device, tries, todo, places, limiter>>

\* `devices revoke` asks a Runtime that serves; otherwise it goes on by itself.
CommandProbe ==
    /\ command = "idle" /\ up # "serving" /\ command' = "offline"
    /\ UNCHANGED <<up, memory, disk, code, told, asked, revoked, overtaken, pc, device,
                   tries, todo, places, limiter>>

CommandRevoke(d) ==
    /\ command = "offline" /\ d \in disk /\ command' = "done"
    /\ disk' = disk \ {d} /\ asked' = asked \cup {d} /\ revoked' = revoked \cup {d}
    /\ overtaken' = (up # "down")
    /\ UNCHANGED <<up, memory, code, told, pc, device, tries, todo, places, limiter>>

----------------------------------------------------------------------------
Stop ==
    /\ up # "down" /\ up' = "down" /\ memory' = {} /\ code' = FALSE
    /\ pc' = [k \in Connections |-> IF pc[k] = "idle" THEN "idle" ELSE "gone"]
    /\ counted' = {} /\ pending' = {} /\ lost' = {} /\ turn' = None /\ blocked' = FALSE
    /\ UNCHANGED <<disk, told, asked, revoked, overtaken, command, device, tries, todo>>

Load ==
    /\ up = "down" /\ up' = "loaded" /\ memory' = disk
    /\ UNCHANGED <<disk, code, told, asked, revoked, overtaken, command, pc, device, tries,
                   todo, places, limiter>>

Listen ==
    /\ up = "loaded" /\ up' = "serving"
    /\ UNCHANGED <<listed, pc, device, tries, todo, places, limiter>>

Serve(k) == Return(k) \/ TakeTurn(k) \/ Wake(k)

Next ==
    \/ \E k \in Connections :
           \/ AcceptLocal(k) \/ AcceptRemote(k) \/ PeerLeaves(k) \/ Handshake(k)
           \/ HandshakeAgain(k) \/ Enroll(k) \/ Claim(k) \/ ClaimFails(k) \/ Serve(k)
           \/ Lose(k) \/ RevokeCloses(k) \/ RevokeAnswered(k)
           \/ \E d \in told : Revoke(k, d)
    \/ Expire \/ CommandProbe \/ (\E d \in Paired : CommandRevoke(d))
    \/ Stop \/ Load \/ Listen

Fairness == \A k \in Connections : WF_accessVars(Serve(k))

Spec == Init /\ [][Next]_accessVars /\ Fairness

----------------------------------------------------------------------------
\* No order of handshakes, sleeps and departures lets more connections in than
\* there may be, in all, of one device, or without a token.
LimitsHold ==
    /\ Cardinality(counted) <= MaxClients /\ Cardinality(pending) <= MaxPending
    /\ \A d \in Devices : Cardinality(Connected(d)) <= MaxPerDevice

\* A token that a client was given opens the door, now and after a restart,
\* whatever else could not be written, until someone wants it revoked.
TokensWork ==
    \A d \in told \ asked : d \in disk /\ (up # "down" => d \in memory)

\* A revoked device is not known again, and its connections are closed or next
\* to be, unless the connection that was closing them went away.  A Runtime
\* that had read the list before the command rewrote it knows it still.
RevokedIsGone ==
    \A d \in revoked :
        /\ d \in memory \cup disk => overtaken
        /\ \A k \in Connected(d) :
               pc[k] \in {"half", "active", "revoking"} =>
                   overtaken \/ \E r \in Connections :
                       k \in todo[r] /\ pc[r] \in {"revoking", "closing", "gone"}

\* A handshake is answered: the lock that handshakes take turns with is always
\* given back, and so is the place of a connection that has ended, whether it
\* was among the pending or among those that count.  A connection that counts
\* and whose run() never returns, see Lose, keeps its place until the Runtime
\* stops.  (A connection has one handshake and one end.)
PlacesReturn ==
    <>[](\A k \in Connections :
             /\ pc[k] \notin {"waiting", "sleeping"}
             /\ k \in (counted \cup pending) \ lost => pc[k] \notin {"closing", "gone"})

\* The limits on connections hold, tokens that were given work until they are
\* revoked, and revoked ones do not.
AccessSafe == TypeOK /\ LimitsHold /\ TokensWork /\ RevokedIsGone
=============================================================================
