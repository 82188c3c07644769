---------------------------- MODULE TunnelClient ----------------------------
(***************************************************************************)
(* TunnelClient, the engine's side of the tunnel (qaio-tunnel/src/         *)
(* connection.rs, connection/session.rs, connection/dispatch.rs,           *)
(* proxy.rs): a loop that dials the room, serves its frames and, when the  *)
(* session ends, waits for its writer before it dials again. Calls and     *)
(* legs are tasks of their own and outlive their session.                  *)
(***************************************************************************)
EXTENDS TunnelLink

VARIABLES
  phase,      \* where the loop of `run` is
  session,    \* the socket of the latest session, 0 before the first
  outq,       \* out_tx to out_rx, by session
  writer,     \* the writer task of a session
  taskOf,     \* the session whose task works on a call
  legOf,      \* the session a leg was opened by
  leg,        \* the leg's connection to the engine
  legMap,     \* LegsMap: the legs that take c2s messages
  ran,        \* how often the client has taken up a call for the engine
  engineSent, \* messages the engine has sent on a leg
  engineGot   \* messages the engine has received on it

clientVars == <<phase, session, outq, writer, taskOf, legOf, leg, legMap, ran,
                engineSent, engineGot>>

ClientTypeOK ==
  /\ phase \in {"dialing", "serving", "ending"}
  /\ session \in Sockets \cup {0}
  /\ outq \in [Sockets -> Seq(Frames)]
  /\ writer \in [Sockets -> {"none", "running", "done"}]
  /\ taskOf \in [Requests -> Sockets \cup {None}]
  /\ legOf \in [Legs -> Sockets \cup {None}]
  /\ leg \in [Legs -> {"none", "connecting", "piping", "gone"}]
  /\ legMap \subseteq Legs
  /\ ran \in [Requests -> Nat]
  /\ engineSent \in [Legs -> 0..MaxMessages]
  /\ engineGot \in [Legs -> Seq(1..MaxMessages)]

ClientInit ==
  /\ phase = "dialing"
  /\ session = 0
  /\ outq = [c \in Sockets |-> <<>>]
  /\ writer = [c \in Sockets |-> "none"]
  /\ taskOf = [r \in Requests |-> None]
  /\ legOf = [w \in Legs |-> None]
  /\ leg = [w \in Legs |-> "none"]
  /\ legMap = {}
  /\ ran = [r \in Requests |-> 0]
  /\ engineSent = [w \in Legs |-> 0]
  /\ engineGot = [w \in Legs |-> <<>>]

LegsOf(c)    == {w \in Legs : legOf[w] = c}
Piping(c)    == {w \in LegsOf(c) : leg[w] = "piping"}
(* The clones of a session's out_tx that its tasks hold. *)
Senders(c)   == {r \in Requests : taskOf[r] = c}
                  \cup {w \in LegsOf(c) : leg[w] \in {"connecting", "piping"}}

(* send_frame: a frame for a session whose writer is gone is dropped. *)
SendFrame(c, frame) ==
  outq' = [outq EXCEPT ![c] = IF writer[c] = "running" THEN Append(@, frame) ELSE @]
-----------------------------------------------------------------------------
(* connect_async of run_once. *)
Dial(c) ==
  /\ phase = "dialing"
  /\ c = session + 1
  /\ phase' = "serving"
  /\ session' = c
  /\ writer' = [writer EXCEPT ![c] = "running"]
  /\ clientEnd' = [clientEnd EXCEPT ![c] = "open"]
  /\ UNCHANGED <<outq, taskOf, legOf, leg, legMap, ran, engineSent, engineGot>>

(***************************************************************************)
(* dispatch: a call and a leg get a task; a message goes to its leg if the *)
(* session has it in its map; a close takes the leg out of the map and     *)
(* leaves its connection to the engine open.                               *)
(***************************************************************************)
StartCall(c, r) ==
  /\ taskOf' = [taskOf EXCEPT ![r] = c]
  /\ UNCHANGED <<legOf, leg, legMap, engineGot>>

WsOpen(c, w) ==
  /\ legOf' = [legOf EXCEPT ![w] = c]
  /\ leg' = [leg EXCEPT ![w] = "connecting"]
  /\ UNCHANGED <<taskOf, legMap, engineGot>>

ForwardC2s(c, w, n) ==
  /\ engineGot' = IF w \in legMap \cap LegsOf(c)
                    THEN [engineGot EXCEPT ![w] = Append(@, n)] ELSE engineGot
  /\ UNCHANGED <<taskOf, legOf, leg, legMap>>

CloseLeg(c, w) ==
  /\ legMap' = legMap \ ({w} \cap LegsOf(c))
  /\ UNCHANGED <<taskOf, legOf, leg, engineGot>>

Handle(c, frame) ==
  /\ CASE frame.kind \in {"http_request", "pair_request"} -> StartCall(c, frame.id)
       [] frame.kind = "ws_open"    -> WsOpen(c, frame.id)
       [] frame.kind = "ws_message" -> ForwardC2s(c, frame.id, frame.n)
       [] frame.kind = "ws_close"   -> CloseLeg(c, frame.id)
  /\ UNCHANGED <<relayEnd, clientEnd, up, cut, faults, phase, session, outq, writer, ran,
                 engineSent>>

(* The read loop handles one frame after the other.
   Bug: each frame gets a task, and any of them may come first. *)
Dispatch_Concurrent(c) ==
  /\ phase = "serving" /\ c = session
  /\ \E k \in DOMAIN down[c] :
       /\ Handle(c, down[c][k])
       /\ down' = [down EXCEPT ![c] = SubSeq(@, 1, k - 1) \o SubSeq(@, k + 1, Len(@))]
Dispatch(c) ==
  /\ phase = "serving" /\ c = session /\ down[c] # <<>>
  /\ Handle(c, Head(down[c]))
  /\ down' = [down EXCEPT ![c] = Tail(@)]

(* proxy_http and redeem: the engine's answer, whatever it is, is sent up. So is a 400 or
   502 that proxy_http makes itself, for a method it cannot parse or a request that
   does not reach the engine: the call was taken up all the same. *)
RunCall(r) ==
  /\ taskOf[r] # None
  /\ ran' = [ran EXCEPT ![r] = @ + 1]
  /\ SendFrame(taskOf[r],
       Frame(IF r \in HttpRequests THEN "http_response" ELSE "pair_response", r, 0))
  /\ taskOf' = [taskOf EXCEPT ![r] = None]
  /\ UNCHANGED <<linkVars, phase, session, writer, legOf, leg, legMap, engineSent, engineGot>>

(***************************************************************************)
(* proxy_ws_open: the engine takes the leg or refuses it. The ack of a leg *)
(* it takes says nothing the room acts on.                                 *)
(***************************************************************************)
LegConnects(w) ==
  /\ leg[w] = "connecting"
  /\ leg' = [leg EXCEPT ![w] = "piping"]
  /\ legMap' = legMap \cup {w}
  /\ UNCHANGED <<linkVars, phase, session, outq, writer, taskOf, legOf, ran, engineSent,
                 engineGot>>

LegRefused(w) ==
  /\ leg[w] = "connecting"
  /\ leg' = [leg EXCEPT ![w] = "gone"]
  /\ SendFrame(legOf[w], Frame("ws_open_refused", w, 0))
  /\ UNCHANGED <<linkVars, phase, session, writer, taskOf, legOf, legMap, ran, engineSent,
                 engineGot>>

(* The pump from the engine goes on whatever became of its session. *)
EngineSends(w) ==
  /\ leg[w] = "piping" /\ engineSent[w] < MaxMessages
  /\ engineSent' = [engineSent EXCEPT ![w] = @ + 1]
  /\ SendFrame(legOf[w], Frame("ws_message", w, engineSent[w] + 1))
  /\ UNCHANGED <<linkVars, phase, session, writer, taskOf, legOf, leg, legMap, ran, engineGot>>

EngineCloses(w) ==
  /\ leg[w] = "piping"
  /\ leg' = [leg EXCEPT ![w] = "gone"]
  /\ SendFrame(legOf[w], Frame("ws_close", w, 0))
  /\ legMap' = legMap \ {w}
  /\ UNCHANGED <<linkVars, phase, session, writer, taskOf, legOf, ran, engineSent, engineGot>>
-----------------------------------------------------------------------------
(* The writer puts the next frame on its socket.
   Bug: each frame is written by a task of its own. *)
WriterSends_Concurrent(c) ==
  /\ writer[c] = "running" /\ clientEnd[c] = "open"
  /\ \E k \in DOMAIN outq[c] :
       /\ outq' = [outq EXCEPT ![c] = SubSeq(@, 1, k - 1) \o SubSeq(@, k + 1, Len(@))]
       /\ up' = IF relayEnd[c] = "closed" THEN up ELSE Put(up, c, outq[c][k])
  /\ UNCHANGED <<relayEnd, clientEnd, down, cut, faults, phase, session, writer, taskOf,
                 legOf, leg, legMap, ran, engineSent, engineGot>>
WriterSends(c) ==
  /\ writer[c] = "running" /\ outq[c] # <<>> /\ clientEnd[c] = "open"
  /\ outq' = [outq EXCEPT ![c] = Tail(@)]
  /\ up' = IF relayEnd[c] = "closed" THEN up ELSE Put(up, c, Head(outq[c]))
  /\ UNCHANGED <<relayEnd, clientEnd, down, cut, faults, phase, session, writer, taskOf,
                 legOf, leg, legMap, ran, engineSent, engineGot>>

(***************************************************************************)
(* A send fails on a socket that is cut or closed, and the writer ends; a  *)
(* leg gives it something to send at least every 20 seconds, the engine's  *)
(* ping, and so does the session's own heartbeat.                          *)
(* Bug: the writer drops the frame and goes on.                            *)
(***************************************************************************)
WriterFails_GoesOn(c) ==
  /\ writer[c] = "running" /\ outq[c] # <<>>
  /\ c \in cut \/ relayEnd[c] # "open"
  /\ outq' = [outq EXCEPT ![c] = Tail(@)]
  /\ UNCHANGED <<linkVars, phase, session, writer, taskOf, legOf, leg, legMap, ran,
                 engineSent, engineGot>>
WriterFails(c) ==
  /\ writer[c] = "running"
  /\ c \in cut \/ relayEnd[c] # "open"
  /\ outq[c] # <<>> \/ Piping(c) # {} \/ (phase = "serving" /\ c = session)
  /\ writer' = [writer EXCEPT ![c] = "done"]
  /\ outq' = [outq EXCEPT ![c] = <<>>]
  /\ UNCHANGED <<linkVars, phase, session, taskOf, legOf, leg, legMap, ran, engineSent,
                 engineGot>>

(* Every sender is dropped and the channel is empty: recv answers None. *)
WriterDone(c) ==
  /\ writer[c] = "running" /\ outq[c] = <<>>
  /\ phase = "ending" /\ c = session
  /\ Senders(c) = {}
  /\ writer' = [writer EXCEPT ![c] = "done"]
  /\ UNCHANGED <<linkVars, phase, session, outq, taskOf, legOf, leg, legMap, ran,
                 engineSent, engineGot>>

(* The read loop of run_once breaks. *)
EndSession ==
  /\ phase = "serving"
  /\ phase' = "ending"
  /\ UNCHANGED <<linkVars, session, outq, writer, taskOf, legOf, leg, legMap, ran,
                 engineSent, engineGot>>

(* The stream ends or fails. *)
StreamEnds ==
  /\ EndSession
  /\ session \in cut \/ (relayEnd[session] # "open" /\ down[session] = <<>>)

(* writer.await returns: the socket is dropped, `run` backs off and dials again. *)
SessionOver ==
  /\ phase = "ending" /\ writer[session] = "done"
  /\ phase' = "dialing"
  /\ clientEnd' = [clientEnd EXCEPT ![session] = "closed"]
  /\ UNCHANGED <<relayEnd, up, down, cut, faults, session, outq, writer, taskOf, legOf,
                 leg, legMap, ran, engineSent, engineGot>>

ClientNext ==
  \/ \E c \in Sockets : Dispatch(c) \/ WriterSends(c) \/ WriterFails(c) \/ WriterDone(c)
  \/ StreamEnds \/ SessionOver
  \/ \E r \in Requests : RunCall(r)
  \/ \E w \in Legs : LegConnects(w) \/ LegRefused(w) \/ EngineSends(w) \/ EngineCloses(w)
=============================================================================
