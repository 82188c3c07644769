----------------------------- MODULE TunnelRoom -----------------------------
(***************************************************************************)
(* TunnelRoom, the relay's Durable Object of one tunnel                    *)
(* (qaio-relay/src/tunnel-do.ts): it multiplexes the HTTP calls, pairing   *)
(* calls and WebSockets of phones onto the desktop's socket. Each handler  *)
(* runs to its next await as one action; the object may hibernate between  *)
(* two events and be built again from its sockets.                         *)
(***************************************************************************)
EXTENDS TunnelLink

VARIABLES
  desktop,       \* this.desktop
  active,        \* lastDesktopActivity lies within DESKTOP_WATCHDOG_MS
  alarmSet,      \* the storage alarm is set
  request,       \* how far the handler of a call is
  answer,        \* what the call was answered
  pending,       \* pendingHttp and pendingPair
  phone,         \* the room's end of a phone's WebSocket
  mobileSockets, \* this.mobileSockets
  phoneSent,     \* messages a phone has sent on its leg
  phoneGot       \* messages a phone has received on it

roomVars == <<desktop, active, alarmSet, request, answer, pending, phone,
              mobileSockets, phoneSent, phoneGot>>

(* Answers given before the desktop was asked, and after. *)
Refusals == {"offline", "busy", "malformed", "send_failed"}
Answers  == Refusals \cup {"reply", "timeout", "dropped"}

(* A call that has no answer yet is told from one that has. *)
ASSUME AnswerAssumption == None \notin Answers

RoomTypeOK ==
  /\ desktop \in Sockets \cup {None}
  /\ active \in BOOLEAN
  /\ alarmSet \in BOOLEAN
  /\ request \in [Requests -> {"idle", "body", "sent"}]
  /\ answer \in [Requests -> Answers \cup {None}]
  /\ pending \subseteq Requests
  /\ phone \in [Legs -> {"none", "refused", "open", "closing", "closed"}]
  /\ mobileSockets \subseteq Legs
  /\ phoneSent \in [Legs -> 0..MaxMessages]
  /\ phoneGot \in [Legs -> Seq(1..MaxMessages)]

RoomInit ==
  /\ desktop = None
  /\ active = FALSE
  /\ alarmSet = FALSE
  /\ request = [r \in Requests |-> "idle"]
  /\ answer = [r \in Requests |-> None]
  /\ pending = {}
  /\ phone = [w \in Legs |-> "none"]
  /\ mobileSockets = {}
  /\ phoneSent = [w \in Legs |-> 0]
  /\ phoneGot = [w \in Legs |-> <<>>]

Answered(R, a) == [r \in Requests |-> IF r \in R THEN a ELSE answer[r]]
Closing(S)     == [w \in Legs |-> IF w \in S /\ phone[w] = "open" THEN "closing" ELSE phone[w]]
-----------------------------------------------------------------------------
(***************************************************************************)
(* sendToDesktop: false without a desktop, and when its socket throws.     *)
(***************************************************************************)
CanSend == desktop # None /\ relayEnd[desktop] = "open"
SendToDesktop(frame) == down' = IF CanSend THEN Put(down, desktop, frame) ELSE down

(***************************************************************************)
(* failAllPending resolves every call that waits for the desktop.          *)
(* Bug: the tables are cleared without resolving what waits in them.       *)
(* Bug: they are resolved with something no caller knows.                  *)
(***************************************************************************)
FailAllPending_Silent == pending' = {} /\ answer' = answer
FailAllPending_Unknown ==
  /\ pending' = {}
  /\ answer' = Answered(pending, "internal")
FailAllPending ==
  /\ pending' = {}
  /\ answer' = Answered(pending, "dropped")

(***************************************************************************)
(* handleDesktopRegister: a new socket of the desktop replaces the old     *)
(* one; the phones of the old one are left as they are.                    *)
(* Bug: the calls that wait are asked again of the new desktop.            *)
(***************************************************************************)
HandleDesktopRegister_Resends(c) ==
  /\ relayEnd' = [relayEnd EXCEPT ![c] = "open"]
  /\ desktop' = c
  /\ active' = TRUE
  /\ alarmSet' = TRUE
  /\ \E ask \in [1..Cardinality(pending) -> pending] :
       /\ {ask[k] : k \in DOMAIN ask} = pending
       /\ down' = [down EXCEPT ![c] =
            [k \in DOMAIN ask |-> Frame(IF ask[k] \in HttpRequests THEN "http_request"
                                        ELSE "pair_request", ask[k], 0)]]
  /\ UNCHANGED <<up, request, answer, pending, phone, mobileSockets, phoneSent, phoneGot>>
HandleDesktopRegister(c) ==
  /\ relayEnd' = [d \in Sockets |->
       IF d = c THEN "open"
       ELSE IF d = desktop /\ relayEnd[d] = "open" THEN "closing" ELSE relayEnd[d]]
  /\ IF desktop = None THEN UNCHANGED <<pending, answer>> ELSE FailAllPending
  /\ desktop' = c
  /\ active' = TRUE
  /\ alarmSet' = TRUE
  /\ UNCHANGED <<up, down, request, phone, mobileSockets, phoneSent, phoneGot>>

(***************************************************************************)
(* onDesktopClose: what the room does whenever a socket of the desktop     *)
(* ends.                                                                   *)
(* Bug: the phones are left to find out by themselves.                     *)
(***************************************************************************)
OnDesktopClose_KeepsPhones ==
  /\ desktop' = None
  /\ FailAllPending
  /\ UNCHANGED <<request, phone, mobileSockets, phoneSent, phoneGot>>
OnDesktopClose ==
  /\ desktop' = None
  /\ FailAllPending
  /\ phone' = Closing(mobileSockets)
  /\ mobileSockets' = {}
  /\ UNCHANGED <<request, phoneSent, phoneGot>>

(***************************************************************************)
(* webSocketClose of a desktop socket. It does not ask whether the socket  *)
(* is this.desktop: the close of a replaced one forgets its successor.     *)
(***************************************************************************)
DesktopSocketCloses(c) ==
  /\ relayEnd[c] \in {"open", "closing"}
  /\ c \in cut \/ (clientEnd[c] = "closed" /\ up[c] = <<>>)
  /\ relayEnd' = [relayEnd EXCEPT ![c] = "closed"]
  /\ OnDesktopClose
  /\ UNCHANGED <<clientEnd, up, down, cut, faults, active, alarmSet>>

(***************************************************************************)
(* alarm: the watchdog closes a desktop that has been silent; an alarm     *)
(* that finds no desktop is not set again. Otherwise it pings and sets     *)
(* itself again, which changes nothing here.                               *)
(***************************************************************************)
Watchdog ==
  /\ alarmSet
  /\ desktop # None /\ ~active
  /\ relayEnd' = [relayEnd EXCEPT ![desktop] = IF @ = "open" THEN "closing" ELSE @]
  /\ alarmSet' = FALSE
  /\ OnDesktopClose
  /\ UNCHANGED <<clientEnd, up, down, cut, faults, active>>

AlarmWithoutDesktop ==
  /\ alarmSet /\ desktop = None
  /\ alarmSet' = FALSE
  /\ UNCHANGED <<linkVars, desktop, active, request, answer, pending, phone,
                 mobileSockets, phoneSent, phoneGot>>

(***************************************************************************)
(* The object hibernates when no handler of a call is under way, and its   *)
(* constructor runs on the next event: `desktop` is some desktop socket    *)
(* that still exists, the phones are found again, lastDesktopActivity is 0.*)
(* Bug: the constructor restores the desktop only.                         *)
(***************************************************************************)
RestoredMobiles_None == {}
RestoredMobiles == {w \in Legs : phone[w] \in {"open", "closing"}}
Restorable == {c \in Sockets : relayEnd[c] \in {"open", "closing"}}
Hibernate ==
  /\ faults < MaxFaults
  /\ \A r \in Requests : request[r] # "idle" => answer[r] # None
  /\ desktop # None \/ mobileSockets # {}
  /\ desktop' \in IF Restorable = {} THEN {None} ELSE Restorable
  /\ mobileSockets' = RestoredMobiles
  /\ active' = FALSE
  /\ faults' = faults + 1
  /\ UNCHANGED <<relayEnd, clientEnd, up, down, cut, alarmSet, request, answer, pending,
                 phone, phoneSent, phoneGot>>
-----------------------------------------------------------------------------
(* handleProxyHttp and handlePairRequest up to the await of the body. *)
Arrive(r) ==
  /\ request[r] = "idle" /\ answer[r] = None
  /\ IF desktop = None
       THEN answer' = [answer EXCEPT ![r] = "offline"] /\ UNCHANGED request
       ELSE IF r \in HttpRequests /\ Cardinality(pending \cap HttpRequests) >= MaxInflight
         THEN answer' = [answer EXCEPT ![r] = "busy"] /\ UNCHANGED request
         ELSE request' = [request EXCEPT ![r] = "body"] /\ UNCHANGED answer
  /\ UNCHANGED <<linkVars, desktop, active, alarmSet, pending, phone, mobileSockets,
                 phoneSent, phoneGot>>

(* A pairing call without a code. *)
PairWithoutCode(r) ==
  /\ r \in PairRequests /\ request[r] = "body" /\ answer[r] = None
  /\ answer' = [answer EXCEPT ![r] = "malformed"]
  /\ UNCHANGED <<linkVars, desktop, active, alarmSet, request, pending, phone,
                 mobileSockets, phoneSent, phoneGot>>

(* The body is here: the call is registered and its frame sent. *)
Forward(r) ==
  /\ request[r] = "body" /\ answer[r] = None
  /\ request' = [request EXCEPT ![r] = "sent"]
  /\ SendToDesktop(Frame(IF r \in HttpRequests THEN "http_request" ELSE "pair_request", r, 0))
  /\ IF CanSend THEN pending' = pending \cup {r} /\ UNCHANGED answer
     ELSE answer' = [answer EXCEPT ![r] = "send_failed"] /\ UNCHANGED pending
  /\ UNCHANGED <<relayEnd, clientEnd, up, cut, faults, desktop, active, alarmSet, phone,
                 mobileSockets, phoneSent, phoneGot>>

(* The timer of a call.
   Bug: it clears the table and forgets to resolve the call. *)
TimeOut_Silent(r) ==
  /\ r \in pending
  /\ pending' = pending \ {r}
  /\ UNCHANGED <<linkVars, desktop, active, alarmSet, request, answer, phone,
                 mobileSockets, phoneSent, phoneGot>>
TimeOut(r) ==
  /\ r \in pending
  /\ pending' = pending \ {r}
  /\ answer' = [answer EXCEPT ![r] = "timeout"]
  /\ UNCHANGED <<linkVars, desktop, active, alarmSet, request, phone, mobileSockets,
                 phoneSent, phoneGot>>
-----------------------------------------------------------------------------
(* handleMobileWs; whether ws_open could be sent is not looked at. *)
PhoneOpens(w) ==
  /\ phone[w] = "none"
  /\ IF desktop = None
       THEN phone' = [phone EXCEPT ![w] = "refused"] /\ UNCHANGED <<mobileSockets, down>>
       ELSE /\ phone' = [phone EXCEPT ![w] = "open"]
            /\ mobileSockets' = mobileSockets \cup {w}
            /\ SendToDesktop(Frame("ws_open", w, 0))
  /\ UNCHANGED <<relayEnd, clientEnd, up, cut, faults, desktop, active, alarmSet, request,
                 answer, pending, phoneSent, phoneGot>>

(* onMobileMessage. *)
PhoneSends(w) ==
  /\ phone[w] = "open" /\ phoneSent[w] < MaxMessages
  /\ phoneSent' = [phoneSent EXCEPT ![w] = @ + 1]
  /\ SendToDesktop(Frame("ws_message", w, phoneSent[w] + 1))
  /\ UNCHANGED <<relayEnd, clientEnd, up, cut, faults, desktop, active, alarmSet, request,
                 answer, pending, phone, mobileSockets, phoneGot>>

(* webSocketClose of a phone: it left, or answers the room's close. *)
PhoneCloses(w) ==
  /\ phone[w] \in {"open", "closing"}
  /\ phone' = [phone EXCEPT ![w] = "closed"]
  /\ mobileSockets' = mobileSockets \ {w}
  /\ SendToDesktop(Frame("ws_close", w, 0))
  /\ UNCHANGED <<relayEnd, clientEnd, up, cut, faults, desktop, active, alarmSet, request,
                 answer, pending, phoneSent, phoneGot>>
-----------------------------------------------------------------------------
(* resolveHttp and resolvePair: an answer nobody waits for is dropped. *)
Resolve(r) ==
  /\ pending' = pending \ {r}
  /\ answer' = IF r \in pending THEN [answer EXCEPT ![r] = "reply"] ELSE answer
  /\ UNCHANGED <<phone, mobileSockets, phoneGot>>

(* onWsMessageFromDesktop. *)
DeliverToPhone(w, n) ==
  /\ phoneGot' = IF w \in mobileSockets /\ phone[w] = "open"
                   THEN [phoneGot EXCEPT ![w] = Append(@, n)] ELSE phoneGot
  /\ UNCHANGED <<pending, answer, phone, mobileSockets>>

(* onWsCloseFromDesktop, and onWsOpenAck of a refusal. *)
ClosePhone(w) ==
  /\ phone' = Closing(mobileSockets \cap {w})
  /\ mobileSockets' = mobileSockets \ {w}
  /\ UNCHANGED <<pending, answer, phoneGot>>

(***************************************************************************)
(* onDesktopMessage: any frame, of any desktop socket that still exists,   *)
(* counts as activity and is handled.                                      *)
(***************************************************************************)
OnDesktopMessage(c) ==
  /\ relayEnd[c] \in {"open", "closing"} /\ up[c] # <<>>
  /\ LET frame == Head(up[c]) IN
       CASE frame.kind \in {"http_response", "pair_response"} -> Resolve(frame.id)
         [] frame.kind = "ws_message" -> DeliverToPhone(frame.id, frame.n)
         [] frame.kind \in {"ws_close", "ws_open_refused"} -> ClosePhone(frame.id)
  /\ up' = [up EXCEPT ![c] = Tail(@)]
  /\ active' = TRUE
  /\ UNCHANGED <<relayEnd, clientEnd, down, cut, faults, desktop, alarmSet, request, phoneSent>>

RoomNext ==
  \/ \E c \in Sockets : DesktopSocketCloses(c) \/ OnDesktopMessage(c)
  \/ Watchdog \/ AlarmWithoutDesktop \/ Hibernate
  \/ \E r \in Requests : Arrive(r) \/ PairWithoutCode(r) \/ Forward(r) \/ TimeOut(r)
  \/ \E w \in Legs : PhoneOpens(w) \/ PhoneSends(w) \/ PhoneCloses(w)
=============================================================================
