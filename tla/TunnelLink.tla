----------------------------- MODULE TunnelLink -----------------------------
(***************************************************************************)
(* The WebSockets between a desktop and its room at the relay: one per     *)
(* dial of the desktop, numbered in the order of the dials, each with a    *)
(* queue of frames in either direction (qaio-relay/src/types.ts,           *)
(* qaio-tunnel/src/frame.rs). A socket can be cut: its frames vanish and   *)
(* neither end is told. Pings and pongs are not modelled as frames; what   *)
(* their absence does to either end is an action of that end.              *)
(***************************************************************************)
EXTENDS Naturals, Sequences, FiniteSets

CONSTANTS
  HttpRequests,  \* HTTP calls of phones
  PairRequests,  \* pairing calls of phones
  Legs,          \* WebSockets of phones to the engine, by wsId
  MaxSockets,    \* bound: dials of the desktop
  MaxMessages,   \* bound: messages on a leg, in each direction
  MaxFaults,     \* bound: cuts of a link and hibernations of the room
  MaxInflight,   \* MAX_INFLIGHT
  None

Requests == HttpRequests \cup PairRequests
Sockets  == 1..MaxSockets

ASSUME LinkAssumption ==
  /\ {MaxSockets, MaxMessages, MaxFaults, MaxInflight} \subseteq Nat
  /\ HttpRequests \cap PairRequests = {}
  /\ None \notin Sockets \cup {0}

VARIABLES
  relayEnd,    \* the room's end of a socket
  clientEnd,   \* the desktop's end of it
  up, down,    \* frames in flight to the room, to the desktop
  cut,         \* sockets whose network path is gone
  faults       \* cuts and hibernations so far

linkVars == <<relayEnd, clientEnd, up, down, cut, faults>>

FrameKind == {"http_request", "http_response", "pair_request", "pair_response",
              "ws_open", "ws_open_refused", "ws_message", "ws_close"}
Frame(kind, id, n) == [kind |-> kind, id |-> id, n |-> n]
Frames == [kind : FrameKind, id : Requests \cup Legs, n : 0..MaxMessages]

LinkTypeOK ==
  /\ relayEnd \in [Sockets -> {"none", "open", "closing", "closed"}]
  /\ clientEnd \in [Sockets -> {"none", "open", "closed"}]
  /\ up \in [Sockets -> Seq(Frames)]
  /\ down \in [Sockets -> Seq(Frames)]
  /\ cut \subseteq Sockets
  /\ faults \in 0..MaxFaults

LinkInit ==
  /\ relayEnd = [c \in Sockets |-> "none"]
  /\ clientEnd = [c \in Sockets |-> "none"]
  /\ up = [c \in Sockets |-> <<>>]
  /\ down = [c \in Sockets |-> <<>>]
  /\ cut = {}
  /\ faults = 0

(* A frame put on a socket arrives, unless the socket is cut. *)
Put(queue, c, frame) ==
  [queue EXCEPT ![c] = IF c \in cut THEN @ ELSE Append(@, frame)]

(* The network path of a socket fails; what is in flight is lost. *)
CutLink(c) ==
  /\ faults < MaxFaults
  /\ c \notin cut
  /\ relayEnd[c] = "open" /\ clientEnd[c] = "open"
  /\ cut' = cut \cup {c}
  /\ up' = [up EXCEPT ![c] = <<>>]
  /\ down' = [down EXCEPT ![c] = <<>>]
  /\ faults' = faults + 1
  /\ UNCHANGED <<relayEnd, clientEnd>>
=============================================================================
