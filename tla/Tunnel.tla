------------------------------- MODULE Tunnel -------------------------------
(***************************************************************************)
(* The tunnel: the room at the relay and the engine's tunnel client over   *)
(* the sockets between them, with the phones' calls and WebSockets at one  *)
(* end and the engine at the other.                                        *)
(***************************************************************************)
EXTENDS TunnelRoom, TunnelClient

vars == <<linkVars, roomVars, clientVars>>

Init == LinkInit /\ RoomInit /\ ClientInit

(* A dial of the desktop reaches the room and is accepted there. *)
Register(c) ==
  /\ Dial(c)
  /\ HandleDesktopRegister(c)
  /\ UNCHANGED <<cut, faults>>

(* Whether the pings of the client reach the room, and those of the room the client. *)
Served == phase = "serving" /\ session = desktop /\ session \notin cut

(* DESKTOP_WATCHDOG_MS pass without a frame of the desktop. *)
DesktopFallsSilent ==
  /\ active /\ desktop # None /\ (~Served \/ writer[session] # "running")
  /\ active' = FALSE
  /\ UNCHANGED <<linkVars, clientVars, desktop, alarmSet, request, answer, pending, phone,
                 mobileSockets, phoneSent, phoneGot>>

(***************************************************************************)
(* The client's own watchdog: WATCHDOG_SILENCE passes without a frame of   *)
(* the room, which pings and answers only the socket it holds for the      *)
(* desktop.                                                                *)
(***************************************************************************)
RoomFallsSilent ==
  /\ phase = "serving" /\ ~Served
  /\ EndSession
  /\ UNCHANGED roomVars

(* A step of one side leaves the other's own state alone. *)
RoomDoes(A)   == A /\ UNCHANGED clientVars
ClientDoes(A) == A /\ UNCHANGED roomVars

Next ==
  \/ \E c \in Sockets : Register(c)
  \/ \E c \in Sockets : CutLink(c) /\ UNCHANGED <<roomVars, clientVars>>
  \/ DesktopFallsSilent \/ RoomFallsSilent
  \/ RoomDoes(RoomNext)
  \/ ClientDoes(ClientNext)

(***************************************************************************)
(* Timers fire, frames in flight and closes are delivered, tasks run, and  *)
(* the engine answers each call and each leg it is asked for. A phone owes *)
(* nothing, and neither does the engine owe a message.                     *)
(***************************************************************************)
Fairness ==
  /\ \A c \in Sockets : WF_vars(Register(c))
  /\ \A c \in Sockets : WF_vars(RoomDoes(DesktopSocketCloses(c)))
  /\ \A c \in Sockets : WF_vars(RoomDoes(OnDesktopMessage(c)))
  /\ \A c \in Sockets : WF_vars(ClientDoes(Dispatch(c)))
  /\ \A c \in Sockets : WF_vars(ClientDoes(WriterSends(c)))
  /\ \A c \in Sockets : WF_vars(ClientDoes(WriterFails(c)))
  /\ \A c \in Sockets : WF_vars(ClientDoes(WriterDone(c)))
  /\ WF_vars(DesktopFallsSilent) /\ WF_vars(RoomFallsSilent)
  /\ WF_vars(RoomDoes(Watchdog))
  /\ WF_vars(ClientDoes(StreamEnds)) /\ WF_vars(ClientDoes(SessionOver))
  /\ \A r \in Requests : WF_vars(RoomDoes(TimeOut(r)))
  /\ \A r \in Requests : WF_vars(ClientDoes(RunCall(r)))
  /\ \A w \in Legs : WF_vars(ClientDoes(LegConnects(w) \/ LegRefused(w)))

Spec == Init /\ [][Next]_vars
FairSpec == Spec /\ Fairness
-----------------------------------------------------------------------------
TypeOK == LinkTypeOK /\ RoomTypeOK /\ ClientTypeOK

(* The room's tables hold exactly the calls that were sent and have no
   answer yet: a call is neither answered twice nor left without an answer
   by a reconnect, a close, a watchdog or a hibernation. *)
PendingAreUnanswered ==
  \A r \in Requests : r \in pending <=> request[r] = "sent" /\ answer[r] = None

(* What a phone is told about its call is what happened to it: a call that
   was refused was never taken up for the engine, one that got a reply was,
   and none is taken up twice, however often the desktop reconnects. A reply
   may still be a 502 of the desktop's own (proxy.rs:48-57, 101-109). *)
AnswersTellTheTruth ==
  \A r \in Requests :
    /\ answer[r] \in Refusals => ran[r] = 0
    /\ answer[r] = "reply" => ran[r] = 1
    /\ ran[r] <= 1

(* Through the leg, the writer, the socket and the room, a phone gets what
   the engine sent on its leg in order and without a gap: it may miss the
   end, never the middle, whatever is cut or closed meanwhile. *)
PhoneSeesEngineOrder ==
  \A w \in Legs :
    /\ Len(phoneGot[w]) <= engineSent[w]
    /\ \A k \in DOMAIN phoneGot[w] : phoneGot[w][k] = k

(* The engine gets the messages of a phone in order and at most once. *)
EngineSeesPhoneOrder ==
  \A w \in Legs :
    /\ \A k \in 2..Len(engineGot[w]) : engineGot[w][k - 1] < engineGot[w][k]
    /\ \A k \in DOMAIN engineGot[w] : engineGot[w][k] <= phoneSent[w]

(* A phone whose socket is open is one the room can reach, also after it
   was built again from its sockets. *)
OpenPhonesAreKnown == \A w \in Legs : phone[w] = "open" => w \in mobileSockets

(* Every call that was sent to the desktop is answered. *)
EveryCallAnswered == \A r \in Requests : request[r] = "sent" ~> answer[r] # None

(* A session whose socket is cut or closed at the other end is given up,
   although legs of that session outlive it and keep senders of its channel,
   and the desktop dials again. *)
BrokenSessionsRedial ==
  phase # "dialing" /\ (session \in cut \/ relayEnd[session] # "open") ~> phase = "dialing"

(* An open phone is served through the present session, or it is closed so
   that it connects again: none stays open on a dead leg. *)
NoZombiePhone ==
  \A w \in Legs :
    phone[w] = "open" ~>
      (phone[w] # "open" \/ (leg[w] = "piping" /\ legOf[w] = session /\ Served))
=============================================================================
