---------------------------- MODULE Tunnel_proofs ----------------------------
(***************************************************************************)
(* Proofs about Tunnel, for any calls, legs, dials, messages and faults:   *)
(* its types, what the room's tables hold, that the answers of calls are   *)
(* true, and the order of a leg's messages in either direction.            *)
(***************************************************************************)
EXTENDS Tunnel, SequenceTheorems, TLAPS

(* Which frames travel in which direction, and what their fields hold.      *)
DownFrame(f) ==
  \/ f.kind \in {"http_request", "pair_request"} /\ f.id \in Requests
  \/ f.kind \in {"ws_open", "ws_close"} /\ f.id \in Legs
  \/ f.kind = "ws_message" /\ f.id \in Legs /\ f.n # 0
UpFrame(f) ==
  \/ f.kind \in {"http_response", "pair_response"} /\ f.id \in Requests
  \/ f.kind \in {"ws_open_refused", "ws_close"} /\ f.id \in Legs
  \/ f.kind = "ws_message" /\ f.id \in Legs /\ f.n # 0
DownFrames == {f \in Frames : DownFrame(f)}
UpFrames   == {f \in Frames : UpFrame(f)}

LinkInv ==
  /\ LinkTypeOK
  /\ down \in [Sockets -> Seq(DownFrames)]
  /\ up \in [Sockets -> Seq(UpFrames)]

(* A session that was dialed and a leg that was opened have their sockets.  *)
ClientInv ==
  /\ ClientTypeOK
  /\ outq \in [Sockets -> Seq(UpFrames)]
  /\ phase # "dialing" => session \in Sockets
  /\ \A w \in Legs : leg[w] # "none" => legOf[w] \in Sockets

TypesInv == LinkInv /\ RoomTypeOK /\ ClientInv

(***************************************************************************)
(* Of a call there is one token: the frame that asks for it, the task that *)
(* works on it, or the fact that it ran. Before it is sent there is none,  *)
(* and a reply is only on its way when the call was run.                   *)
(***************************************************************************)
IsAsk(f, r)   == f.kind \in {"http_request", "pair_request"} /\ f.id = r
IsReply(f, r) == f.kind \in {"http_response", "pair_response"} /\ f.id = r

Untouched(r) == ran[r] = 0 /\ taskOf[r] = None
Asked(r)     == request[r] = "sent" /\ answer[r] \notin Refusals

CallInv(r) ==
  /\ ran[r] <= 1
  /\ taskOf[r] # None => ran[r] = 0
  /\ ~Asked(r) => Untouched(r)
  /\ answer[r] = "reply" => ran[r] = 1
  /\ \A c \in Sockets : \A k \in 1..Len(down[c]) : IsAsk(down[c][k], r) =>
       /\ Untouched(r) /\ Asked(r)
       /\ \A d \in Sockets : \A l \in 1..Len(down[d]) :
            IsAsk(down[d][l], r) => d = c /\ l = k
  /\ \A c \in Sockets : \A k \in 1..Len(outq[c]) : IsReply(outq[c][k], r) => ran[r] = 1
  /\ \A c \in Sockets : \A k \in 1..Len(up[c]) : IsReply(up[c][k], r) => ran[r] = 1

(***************************************************************************)
(* A leg is opened at most once: by its ws_open frame, of which there is   *)
(* at most one, or it is of the session that handled it.                   *)
(***************************************************************************)
IsOpen(f, w)    == f.kind = "ws_open" /\ f.id = w
IsMessage(f, w) == f.kind = "ws_message" /\ f.id = w

OpeningInv(w) ==
  /\ legOf[w] # None => legOf[w] \in 1..session
  /\ \A c \in Sockets : \A k \in 1..Len(down[c]) : IsOpen(down[c][k], w) =>
       /\ legOf[w] = None /\ phone[w] # "none"
       /\ \A d \in Sockets : \A l \in 1..Len(down[d]) :
            IsOpen(down[d][l], w) => d = c /\ l = k
  /\ phone[w] = "none" => legOf[w] = None

(* The messages of a phone: in order on every socket, and on the one of the
   leg's session behind all that the engine has got. *)
DownOrder(w) ==
  /\ \A c \in Sockets : \A k \in 1..Len(down[c]) : IsMessage(down[c][k], w) =>
       /\ down[c][k].n <= phoneSent[w]
       /\ \A l \in 1..Len(down[c]) : IsMessage(down[c][l], w) /\ k < l => down[c][k].n < down[c][l].n
       /\ c = legOf[w] => \A j \in 1..Len(engineGot[w]) : engineGot[w][j] < down[c][k].n
  /\ legOf[w] = None => engineGot[w] = <<>>
  /\ \A j \in 1..Len(engineGot[w]) : engineGot[w][j] <= phoneSent[w]
  /\ \A i, j \in 1..Len(engineGot[w]) : i < j => engineGot[w][i] < engineGot[w][j]

(* The messages of the engine: on the socket of the leg's session only, in
   order there, and the queue of its writer behind the socket. *)
UpOrder(w) ==
  /\ legOf[w] = None => engineSent[w] = 0
  /\ Len(phoneGot[w]) <= engineSent[w]
  /\ \A k \in 1..Len(phoneGot[w]) : phoneGot[w][k] = k
  /\ \A c \in Sockets : \A k \in 1..Len(up[c]) : IsMessage(up[c][k], w) =>
       /\ c = legOf[w]
       /\ Len(phoneGot[w]) < up[c][k].n /\ up[c][k].n <= engineSent[w]
       /\ \A l \in 1..Len(up[c]) : IsMessage(up[c][l], w) /\ k < l => up[c][k].n < up[c][l].n
       /\ \A l \in 1..Len(outq[c]) : IsMessage(outq[c][l], w) => up[c][k].n < outq[c][l].n
  /\ \A c \in Sockets : \A k \in 1..Len(outq[c]) : IsMessage(outq[c][k], w) =>
       /\ c = legOf[w]
       /\ Len(phoneGot[w]) < outq[c][k].n /\ outq[c][k].n <= engineSent[w]
       /\ \A l \in 1..Len(outq[c]) : IsMessage(outq[c][l], w) /\ k < l => outq[c][k].n < outq[c][l].n

(* While the phone is open and the socket whole, nothing is missing between
   what the phone has got and what is still on its way. *)
Alive(c)         == c \notin cut /\ relayEnd[c] # "closed"
OnSocket(c, w, n) == \E k \in 1..Len(up[c]) : IsMessage(up[c][k], w) /\ up[c][k].n = n
InQueue(c, w, n)  == \E k \in 1..Len(outq[c]) : IsMessage(outq[c][k], w) /\ outq[c][k].n = n

NoneMissing(c, w) ==
  /\ \A k \in 1..Len(up[c]) : IsMessage(up[c][k], w) =>
       \A n \in Len(phoneGot[w]) + 1 .. up[c][k].n : OnSocket(c, w, n)
  /\ \A k \in 1..Len(outq[c]) : IsMessage(outq[c][k], w) =>
       \A n \in Len(phoneGot[w]) + 1 .. outq[c][k].n : OnSocket(c, w, n) \/ InQueue(c, w, n)
  /\ writer[c] = "running" =>
       \A n \in Len(phoneGot[w]) + 1 .. engineSent[w] : OnSocket(c, w, n) \/ InQueue(c, w, n)

(* Nothing is in flight on a socket that is cut. *)
CutEmpty == \A c \in cut : up[c] = <<>>

NoGap(w) ==
  \A c \in Sockets : c = legOf[w] /\ phone[w] = "open" /\ Alive(c) => NoneMissing(c, w)

CallsInv == \A r \in Requests : CallInv(r)
LegsInv  ==
  /\ CutEmpty
  /\ \A w \in Legs : OpeningInv(w) /\ DownOrder(w) /\ UpOrder(w) /\ NoGap(w)
-----------------------------------------------------------------------------
(***************************************************************************)
(* What can happen to the queues of frames: one frame is added at an end,  *)
(* or some are taken off the front.                                        *)
(***************************************************************************)
Added(new, old, c, f) ==
  \A d \in Sockets :
    \/ new[d] = old[d]
    \/ /\ d = c
       /\ Len(new[d]) = Len(old[d]) + 1
       /\ new[d][Len(old[d]) + 1] = f
       /\ \A k \in 1..Len(old[d]) : new[d][k] = old[d][k]

Taken(new, old) ==
  \A d \in Sockets : \E m \in Nat :
    /\ Len(old[d]) = Len(new[d]) + m
    /\ \A k \in 1..Len(new[d]) : new[d][k] = old[d][k + m]

LEMMA AppendAdds ==
  ASSUME NEW S, NEW q \in [Sockets -> Seq(S)], NEW c \in Sockets, NEW f \in S
  PROVE  /\ [q EXCEPT ![c] = Append(@, f)] \in [Sockets -> Seq(S)]
         /\ Added([q EXCEPT ![c] = Append(@, f)], q, c, f)
<1> DEFINE s == q[c]
<1>1. s \in Seq(S)
  OBVIOUS
<1>2. /\ Append(s, f) \in Seq(S) /\ Len(Append(s, f)) = Len(s) + 1
      /\ Append(s, f)[Len(s) + 1] = f /\ \A k \in 1..Len(s) : Append(s, f)[k] = s[k]
  BY <1>1
<1>3. [q EXCEPT ![c] = Append(@, f)] \in [Sockets -> Seq(S)]
  BY <1>2
<1>4. ASSUME NEW d \in Sockets
      PROVE  [q EXCEPT ![c] = Append(@, f)][d] = IF d = c THEN Append(s, f) ELSE q[d]
  OBVIOUS
<1> HIDE DEF s
<1>5. s = q[c]
  BY DEF s
<1> QED BY <1>2, <1>3, <1>4, <1>5 DEF Added

LEMMA KeptAdds ==
  ASSUME NEW q, NEW c, NEW f
  PROVE  Added(q, q, c, f)
BY DEF Added

LEMMA KeptTakes ==
  ASSUME NEW S, NEW q \in [Sockets -> Seq(S)]
  PROVE  Taken(q, q)
<1> SUFFICES ASSUME NEW d \in Sockets
             PROVE  \E m \in Nat : /\ Len(q[d]) = Len(q[d]) + m
                                   /\ \A k \in 1..Len(q[d]) : q[d][k] = q[d][k + m]
  BY DEF Taken
<1>1. Len(q[d]) \in Nat
  BY LenProperties
<1> WITNESS 0 \in Nat
<1> QED BY <1>1

LEMMA TailTakes ==
  ASSUME NEW S, NEW q \in [Sockets -> Seq(S)], NEW c \in Sockets, q[c] # <<>>
  PROVE  /\ [q EXCEPT ![c] = Tail(@)] \in [Sockets -> Seq(S)]
         /\ Taken([q EXCEPT ![c] = Tail(@)], q)
         /\ Head(q[c]) \in S /\ Head(q[c]) = q[c][1] /\ 1 \in 1..Len(q[c])
         /\ Len([q EXCEPT ![c] = Tail(@)][c]) = Len(q[c]) - 1
         /\ \A k \in 1..Len(q[c]) - 1 : [q EXCEPT ![c] = Tail(@)][c][k] = q[c][k + 1]
         /\ \A d \in Sockets : d # c => [q EXCEPT ![c] = Tail(@)][d] = q[d]
<1> DEFINE s == q[c]
           t == Tail(s)
           new == [q EXCEPT ![c] = Tail(@)]
<1>1. s \in Seq(S) /\ s # <<>>
  OBVIOUS
<1>2. /\ Head(s) \in S /\ t \in Seq(S) /\ Len(t) = Len(s) - 1
      /\ \A k \in 1..Len(t) : t[k] = s[k + 1]
  BY <1>1, HeadTailProperties
<1>3. Len(s) \in Nat /\ Len(s) # 0 /\ Head(s) = s[1]
  BY <1>1
<1>4. new \in [Sockets -> Seq(S)] /\ \A d \in Sockets : new[d] = IF d = c THEN t ELSE q[d]
  BY <1>2
<1> HIDE DEF new, t
<1>5. Taken(new, q)
  <2> SUFFICES ASSUME NEW d \in Sockets
               PROVE  \E m \in Nat : /\ Len(q[d]) = Len(new[d]) + m
                                     /\ \A k \in 1..Len(new[d]) : new[d][k] = q[d][k + m]
    BY DEF Taken
  <2>1. CASE d = c
    <3>1. Len(q[c]) = Len(t) + 1 /\ \A k \in 1..Len(t) : t[k] = q[c][k + 1]
      BY <1>2, <1>3
    <3>2. new[d] = t /\ q[d] = q[c]
      BY <1>4, <2>1
    <3> HIDE DEF s
    <3> WITNESS 1 \in Nat
    <3> QED BY <3>1, <3>2
  <2>2. CASE d # c
    <3>1. Len(q[d]) \in Nat
      BY LenProperties
    <3> WITNESS 0 \in Nat
    <3> QED BY <1>4, <2>2, <3>1
  <2> QED BY <2>1, <2>2
<1>6. 1 \in 1..Len(s)
  BY <1>3
<1> QED BY <1>2, <1>3, <1>4, <1>5, <1>6 DEF new

LEMMA ClearTakes ==
  ASSUME NEW S, NEW q \in [Sockets -> Seq(S)], NEW c \in Sockets
  PROVE  /\ [q EXCEPT ![c] = <<>>] \in [Sockets -> Seq(S)]
         /\ Taken([q EXCEPT ![c] = <<>>], q)
<1> DEFINE new == [q EXCEPT ![c] = <<>>]
<1>1. <<>> \in Seq(S) /\ Len(<<>>) = 0
  BY EmptySeq
<1>2. new \in [Sockets -> Seq(S)] /\ \A d \in Sockets : new[d] = IF d = c THEN <<>> ELSE q[d]
  BY <1>1
<1> HIDE DEF new
<1>3. Taken(new, q)
  <2> SUFFICES ASSUME NEW d \in Sockets
               PROVE  \E m \in Nat : /\ Len(q[d]) = Len(new[d]) + m
                                     /\ \A k \in 1..Len(new[d]) : new[d][k] = q[d][k + m]
    BY DEF Taken
  <2>0. Len(q[d]) \in Nat
    BY LenProperties
  <2>1. CASE d = c
    <3> WITNESS Len(q[d]) \in Nat
    <3> QED BY <1>1, <1>2, <2>0, <2>1
  <2>2. CASE d # c
    <3> WITNESS 0 \in Nat
    <3> QED BY <1>2, <2>0, <2>2
  <2> QED BY <2>1, <2>2
<1> QED BY <1>2, <1>3 DEF new

(* Put, as it is used: a frame that is lost on a cut socket adds nothing. *)
LEMMA PutAdds ==
  ASSUME NEW S, NEW q \in [Sockets -> Seq(S)], NEW c \in Sockets, NEW f \in S
  PROVE  Put(q, c, f) \in [Sockets -> Seq(S)] /\ Added(Put(q, c, f), q, c, f)
<1>1. CASE c \in cut
  <2>1. Put(q, c, f) = q
    BY <1>1 DEF Put
  <2> QED BY <2>1, KeptAdds
<1>2. CASE c \notin cut
  <2>1. Put(q, c, f) = [q EXCEPT ![c] = Append(@, f)]
    BY <1>2 DEF Put
  <2>2. /\ [q EXCEPT ![c] = Append(@, f)] \in [Sockets -> Seq(S)]
        /\ Added([q EXCEPT ![c] = Append(@, f)], q, c, f)
    BY AppendAdds
  <2> QED BY <2>1, <2>2
<1> QED BY <1>1, <1>2

(* sendToDesktop, and send_frame of the client. *)
LEMMA SentDown ==
  ASSUME TypesInv, NEW f \in DownFrames, SendToDesktop(f)
  PROVE  down' \in [Sockets -> Seq(DownFrames)] /\ Added(down', down, desktop, f)
<1>1. CASE CanSend
  <2>1. desktop \in Sockets
    BY <1>1 DEF CanSend, TypesInv, RoomTypeOK
  <2>2. down' = Put(down, desktop, f) /\ down \in [Sockets -> Seq(DownFrames)]
    BY <1>1 DEF SendToDesktop, TypesInv, LinkInv
  <2>3. Put(down, desktop, f) \in [Sockets -> Seq(DownFrames)] /\ Added(Put(down, desktop, f), down, desktop, f)
    BY <2>1, <2>2, PutAdds
  <2> QED BY <2>2, <2>3
<1>2. CASE ~CanSend
  <2>1. down' = down
    BY <1>2 DEF SendToDesktop
  <2> QED BY <2>1, KeptAdds DEF TypesInv, LinkInv
<1> QED BY <1>1, <1>2

LEMMA SentUp ==
  ASSUME TypesInv, NEW c \in Sockets, NEW f \in UpFrames, SendFrame(c, f)
  PROVE  /\ outq' \in [Sockets -> Seq(UpFrames)] /\ Added(outq', outq, c, f)
         /\ writer[c] = "running" => /\ Len(outq'[c]) = Len(outq[c]) + 1
                                     /\ outq'[c][Len(outq[c]) + 1] = f
<1>0. outq \in [Sockets -> Seq(UpFrames)]
  BY DEF TypesInv, ClientInv
<1>1. CASE writer[c] = "running"
  <2>1. outq' = [outq EXCEPT ![c] = Append(@, f)]
    BY <1>1 DEF SendFrame
  <2>2. outq'[c] = Append(outq[c], f) /\ outq[c] \in Seq(UpFrames)
    BY <1>0, <2>1
  <2>3. Len(outq'[c]) = Len(outq[c]) + 1 /\ outq'[c][Len(outq[c]) + 1] = f
    BY <2>2
  <2>4. [outq EXCEPT ![c] = Append(@, f)] \in [Sockets -> Seq(UpFrames)] /\ Added([outq EXCEPT ![c] = Append(@, f)], outq, c, f)
    BY <1>0, AppendAdds
  <2> QED BY <2>1, <2>3, <2>4
<1>2. CASE writer[c] # "running"
  <2>1. outq' = outq
    BY <1>0, <1>2 DEF SendFrame
  <2> QED BY <1>0, <1>2, <2>1, KeptAdds
<1> QED BY <1>1, <1>2
-----------------------------------------------------------------------------
LEMMA FramesMade ==
  /\ \A r \in Requests :
       /\ Frame("http_request", r, 0) \in DownFrames /\ Frame("pair_request", r, 0) \in DownFrames
       /\ Frame("http_response", r, 0) \in UpFrames /\ Frame("pair_response", r, 0) \in UpFrames
  /\ \A w \in Legs :
       /\ Frame("ws_open", w, 0) \in DownFrames /\ Frame("ws_close", w, 0) \in DownFrames \cap UpFrames
       /\ Frame("ws_open_refused", w, 0) \in UpFrames
       /\ \A n \in 1..MaxMessages : Frame("ws_message", w, n) \in DownFrames \cap UpFrames
<1>1. 0 \in 0..MaxMessages /\ \A n \in 1..MaxMessages : n \in 0..MaxMessages /\ n # 0
  BY LinkAssumption DEF LinkAssumption
<1> QED BY <1>1 DEF Frame, DownFrames, UpFrames, DownFrame, UpFrame, Frames, FrameKind

LEMMA FramesRead ==
  /\ \A f \in DownFrames \cup UpFrames : f.kind = "ws_message" => f.id \in Legs /\ f.n \in 1..MaxMessages
  /\ \A f \in DownFrames :
       \/ f.kind \in {"http_request", "pair_request"} /\ f.id \in Requests
       \/ f.kind \in {"ws_open", "ws_close", "ws_message"} /\ f.id \in Legs
  /\ \A f \in UpFrames :
       \/ f.kind \in {"http_response", "pair_response"} /\ f.id \in Requests
       \/ f.kind \in {"ws_open_refused", "ws_close", "ws_message"} /\ f.id \in Legs
  /\ DownFrames \subseteq Frames /\ UpFrames \subseteq Frames
<1>1. MaxMessages \in Nat
  BY LinkAssumption DEF LinkAssumption
<1> QED BY <1>1 DEF DownFrames, UpFrames, DownFrame, UpFrame, Frames

LEMMA QueueTypes ==
  /\ [Sockets -> Seq(DownFrames)] \subseteq [Sockets -> Seq(Frames)]
  /\ [Sockets -> Seq(UpFrames)] \subseteq [Sockets -> Seq(Frames)]
<1>1. Seq(DownFrames) \subseteq Seq(Frames) /\ Seq(UpFrames) \subseteq Seq(Frames)
  BY FramesRead, SeqMonotonic
<1> QED BY <1>1

(* The parts of the state a step leaves alone keep their types. *)
LEMMA PartsKept ==
  /\ LinkInv /\ UNCHANGED linkVars => LinkInv'
  /\ RoomTypeOK /\ UNCHANGED roomVars => RoomTypeOK'
  /\ ClientInv /\ UNCHANGED clientVars => ClientInv'
<1>1. LinkInv /\ UNCHANGED linkVars => LinkInv'
  BY DEF LinkInv, LinkTypeOK, linkVars
<1>2. RoomTypeOK /\ UNCHANGED roomVars => RoomTypeOK'
  BY DEF RoomTypeOK, roomVars
<1>3. ClientInv /\ UNCHANGED clientVars => ClientInv'
  BY DEF ClientInv, ClientTypeOK, clientVars
<1> QED BY <1>1, <1>2, <1>3

LEMMA LinkSent ==
  ASSUME LinkInv, down' \in [Sockets -> Seq(DownFrames)],
         UNCHANGED <<relayEnd, clientEnd, up, cut, faults>>
  PROVE  LinkInv'
BY QueueTypes DEF LinkInv, LinkTypeOK

LEMMA CutKeepsTypes ==
  ASSUME TypesInv, NEW c \in Sockets, CutLink(c), UNCHANGED <<roomVars, clientVars>>
  PROVE  TypesInv'
<1>1. down' \in [Sockets -> Seq(DownFrames)] /\ up' \in [Sockets -> Seq(UpFrames)]
  BY ClearTakes DEF CutLink, TypesInv, LinkInv
<1>2. cut' \subseteq Sockets /\ faults' \in 0..MaxFaults
  BY LinkAssumption DEF CutLink, TypesInv, LinkInv, LinkTypeOK, LinkAssumption
<1>3. LinkInv'
  BY <1>1, <1>2, QueueTypes DEF CutLink, TypesInv, LinkInv, LinkTypeOK
<1> QED BY <1>3, PartsKept DEF TypesInv

LEMMA RegisterKeepsTypes ==
  ASSUME TypesInv, NEW c \in Sockets, Register(c)
  PROVE  TypesInv'
<1>1. LinkInv'
  BY DEF Register, Dial, HandleDesktopRegister, TypesInv, LinkInv, LinkTypeOK
<1>2. RoomTypeOK'
  <2>1. answer' \in [Requests -> Answers \cup {None}] /\ pending' \subseteq Requests
    BY DEF Register, HandleDesktopRegister, FailAllPending, Answered, Answers, TypesInv, RoomTypeOK
  <2>2. /\ desktop' = c /\ active' = TRUE /\ alarmSet' = TRUE
        /\ UNCHANGED <<request, phone, mobileSockets, phoneSent, phoneGot>>
    BY DEF Register, HandleDesktopRegister
  <2> QED BY <2>1, <2>2 DEF TypesInv, RoomTypeOK
<1>3. ClientInv'
  BY DEF Register, Dial, TypesInv, ClientInv, ClientTypeOK
<1> QED BY <1>1, <1>2, <1>3 DEF TypesInv
-----------------------------------------------------------------------------
(* The actions of the room. *)
LEMMA ClosesKeepTypes ==
  ASSUME TypesInv, UNCHANGED clientVars,
         (\E c \in Sockets : DesktopSocketCloses(c)) \/ Watchdog
  PROVE  TypesInv'
<1>1. LinkInv'
  <2>1. CASE \E c \in Sockets : DesktopSocketCloses(c)
    BY <2>1 DEF DesktopSocketCloses, TypesInv, LinkInv, LinkTypeOK
  <2>2. CASE Watchdog
    BY <2>2 DEF Watchdog, TypesInv, LinkInv, LinkTypeOK
  <2> QED BY <2>1, <2>2
<1>2. OnDesktopClose /\ active' = active /\ alarmSet' \in {alarmSet, FALSE}
  BY DEF DesktopSocketCloses, Watchdog
<1>3. RoomTypeOK'
  <2>1. answer' \in [Requests -> Answers \cup {None}] /\ pending' = {}
    BY <1>2 DEF OnDesktopClose, FailAllPending, Answered, Answers, TypesInv, RoomTypeOK
  <2>2. phone' \in [Legs -> {"none", "refused", "open", "closing", "closed"}]
    BY <1>2 DEF OnDesktopClose, Closing, TypesInv, RoomTypeOK
  <2> QED BY <1>2, <2>1, <2>2 DEF OnDesktopClose, TypesInv, RoomTypeOK
<1> QED BY <1>1, <1>3, PartsKept DEF TypesInv

LEMMA HibernateKeepsTypes ==
  ASSUME TypesInv, UNCHANGED clientVars, Hibernate
  PROVE  TypesInv'
<1>1. LinkInv'
  <2>1. faults' \in 0..MaxFaults
    BY LinkAssumption DEF Hibernate, TypesInv, LinkInv, LinkTypeOK, LinkAssumption
  <2> QED BY <2>1 DEF Hibernate, TypesInv, LinkInv, LinkTypeOK
<1>2. RoomTypeOK'
  BY DEF Hibernate, RestoredMobiles, Restorable, TypesInv, RoomTypeOK
<1> QED BY <1>1, <1>2, PartsKept DEF TypesInv

LEMMA CallsKeepTypes ==
  ASSUME TypesInv, UNCHANGED clientVars, NEW r \in Requests,
         Arrive(r) \/ PairWithoutCode(r) \/ Forward(r) \/ TimeOut(r)
  PROVE  TypesInv'
<1>0. /\ \A a \in {"offline", "busy", "malformed", "send_failed", "timeout"} : a \in Answers
      /\ RoomTypeOK /\ LinkInv
  BY DEF Answers, Refusals, TypesInv
<1>1. CASE Arrive(r)
  BY <1>0, <1>1, PartsKept DEF Arrive, TypesInv, RoomTypeOK
<1>2. CASE PairWithoutCode(r)
  BY <1>0, <1>2, PartsKept DEF PairWithoutCode, TypesInv, RoomTypeOK
<1>3. CASE Forward(r)
  <2>1. down' \in [Sockets -> Seq(DownFrames)]
    BY <1>3, FramesMade, SentDown DEF Forward
  <2>2. LinkInv'
    BY <1>0, <1>3, <2>1, LinkSent DEF Forward
  <2>3. RoomTypeOK'
    BY <1>0, <1>3 DEF Forward, RoomTypeOK
  <2> QED BY <2>2, <2>3, PartsKept DEF TypesInv
<1>4. CASE TimeOut(r)
  BY <1>0, <1>4, PartsKept DEF TimeOut, TypesInv, RoomTypeOK
<1> QED BY <1>1, <1>2, <1>3, <1>4

LEMMA PhonesKeepTypes ==
  ASSUME TypesInv, UNCHANGED clientVars, NEW w \in Legs,
         PhoneOpens(w) \/ PhoneSends(w) \/ PhoneCloses(w)
  PROVE  TypesInv'
<1>1. CASE PhoneOpens(w)
  <2>1. down' \in [Sockets -> Seq(DownFrames)]
    BY <1>1, FramesMade, SentDown DEF PhoneOpens, TypesInv, LinkInv
  <2>2. LinkInv'
    BY <1>1, <2>1, LinkSent DEF PhoneOpens, TypesInv
  <2>3. RoomTypeOK'
    BY <1>1 DEF PhoneOpens, TypesInv, RoomTypeOK
  <2> QED BY <2>2, <2>3, PartsKept DEF TypesInv
<1>2. CASE PhoneSends(w)
  <2>1. phoneSent[w] + 1 \in 1..MaxMessages /\ phoneSent' = [phoneSent EXCEPT ![w] = phoneSent[w] + 1]
    BY <1>2, LinkAssumption DEF PhoneSends, TypesInv, RoomTypeOK, LinkAssumption
  <2>2. down' \in [Sockets -> Seq(DownFrames)]
    BY <1>2, <2>1, FramesMade, SentDown DEF PhoneSends
  <2>3. LinkInv'
    BY <1>2, <2>2, LinkSent DEF PhoneSends, TypesInv
  <2>4. phoneSent' \in [Legs -> 0..MaxMessages]
    BY <2>1 DEF TypesInv, RoomTypeOK
  <2>5. RoomTypeOK'
    BY <1>2, <2>4 DEF PhoneSends, TypesInv, RoomTypeOK
  <2> QED BY <2>3, <2>5, PartsKept DEF TypesInv
<1>3. CASE PhoneCloses(w)
  <2>1. down' \in [Sockets -> Seq(DownFrames)]
    BY <1>3, FramesMade, SentDown DEF PhoneCloses
  <2>2. LinkInv'
    BY <1>3, <2>1, LinkSent DEF PhoneCloses, TypesInv
  <2>3. RoomTypeOK'
    BY <1>3 DEF PhoneCloses, TypesInv, RoomTypeOK
  <2> QED BY <2>2, <2>3, PartsKept DEF TypesInv
<1> QED BY <1>1, <1>2, <1>3

(***************************************************************************)
(* What onDesktopMessage does with the frame it takes off the socket.      *)
(***************************************************************************)
LEMMA MessageRead ==
  ASSUME TypesInv, NEW c \in Sockets, OnDesktopMessage(c)
  PROVE  LET f == Head(up[c]) IN
         /\ f \in UpFrames /\ f = up[c][1] /\ 1 \in 1..Len(up[c])
         /\ up' = [up EXCEPT ![c] = Tail(@)]
         /\ up' \in [Sockets -> Seq(UpFrames)] /\ Taken(up', up)
         /\ \/ f.kind \in {"http_response", "pair_response"} /\ f.id \in Requests /\ Resolve(f.id)
            \/ f.kind = "ws_message" /\ f.id \in Legs /\ f.n \in 1..MaxMessages /\ DeliverToPhone(f.id, f.n)
            \/ f.kind \in {"ws_close", "ws_open_refused"} /\ f.id \in Legs /\ ClosePhone(f.id)
         /\ relayEnd[c] \in {"open", "closing"} /\ active' = TRUE
         /\ UNCHANGED <<relayEnd, clientEnd, down, cut, faults, desktop, alarmSet, request, phoneSent>>
<1> DEFINE f == Head(up[c])
<1>1. up \in [Sockets -> Seq(UpFrames)] /\ up[c] # <<>> /\ up' = [up EXCEPT ![c] = Tail(@)]
  BY DEF OnDesktopMessage, TypesInv, LinkInv
<1>2. /\ f \in UpFrames /\ f = up[c][1] /\ 1 \in 1..Len(up[c])
      /\ [up EXCEPT ![c] = Tail(@)] \in [Sockets -> Seq(UpFrames)] /\ Taken([up EXCEPT ![c] = Tail(@)], up)
  BY <1>1, TailTakes
<1>3. CASE f.kind \in {"http_response", "pair_response"} /\ f.id \in Requests
  BY <1>1, <1>2, <1>3 DEF OnDesktopMessage
<1>4. CASE f.kind = "ws_message" /\ f.id \in Legs /\ f.n \in 1..MaxMessages
  BY <1>1, <1>2, <1>4 DEF OnDesktopMessage
<1>5. CASE f.kind \in {"ws_close", "ws_open_refused"} /\ f.id \in Legs
  BY <1>1, <1>2, <1>5 DEF OnDesktopMessage
<1> QED BY <1>2, <1>3, <1>4, <1>5, FramesRead

LEMMA MessageKeepsTypes ==
  ASSUME TypesInv, UNCHANGED clientVars, NEW c \in Sockets, OnDesktopMessage(c)
  PROVE  TypesInv'
<1> DEFINE f == Head(up[c])
<1>1. LinkInv'
  BY MessageRead, QueueTypes DEF TypesInv, LinkInv, LinkTypeOK
<1>2. RoomTypeOK /\ "reply" \in Answers
  BY DEF TypesInv, Answers
<1>3. RoomTypeOK'
  <2>1. CASE f.id \in Requests /\ Resolve(f.id)
    BY <1>2, <2>1, MessageRead DEF Resolve, RoomTypeOK
  <2>2. CASE f.id \in Legs /\ f.n \in 1..MaxMessages /\ DeliverToPhone(f.id, f.n)
    <3>1. Append(phoneGot[f.id], f.n) \in Seq(1..MaxMessages)
      BY <1>2, <2>2 DEF RoomTypeOK
    <3>2. phoneGot' \in [Legs -> Seq(1..MaxMessages)]
      BY <1>2, <2>2, <3>1 DEF DeliverToPhone, RoomTypeOK
    <3> QED BY <1>2, <2>2, <3>2, MessageRead DEF DeliverToPhone, RoomTypeOK
  <2>3. CASE f.id \in Legs /\ ClosePhone(f.id)
    BY <1>2, <2>3, MessageRead DEF ClosePhone, Closing, RoomTypeOK
  <2> QED BY <2>1, <2>2, <2>3, MessageRead
<1> QED BY <1>1, <1>3, PartsKept DEF TypesInv

LEMMA RoomKeepsTypes ==
  ASSUME TypesInv, RoomDoes(RoomNext)
  PROVE  TypesInv'
<1>1. CASE AlarmWithoutDesktop /\ UNCHANGED clientVars
  BY <1>1, PartsKept DEF AlarmWithoutDesktop, TypesInv, RoomTypeOK
<1> QED BY <1>1, ClosesKeepTypes, HibernateKeepsTypes, CallsKeepTypes, PhonesKeepTypes,
           MessageKeepsTypes DEF RoomDoes, RoomNext
-----------------------------------------------------------------------------
(* The actions of the client. What `dispatch` does with the frame it takes. *)
LEMMA FrameRead ==
  ASSUME TypesInv, NEW c \in Sockets, Dispatch(c)
  PROVE  LET f == Head(down[c]) IN
         /\ f \in DownFrames /\ f = down[c][1] /\ 1 \in 1..Len(down[c])
         /\ down' = [down EXCEPT ![c] = Tail(@)]
         /\ down' \in [Sockets -> Seq(DownFrames)] /\ Taken(down', down)
         /\ \/ f.kind \in {"http_request", "pair_request"} /\ f.id \in Requests /\ StartCall(c, f.id)
            \/ f.kind = "ws_open" /\ f.id \in Legs /\ WsOpen(c, f.id)
            \/ f.kind = "ws_message" /\ f.id \in Legs /\ f.n \in 1..MaxMessages /\ ForwardC2s(c, f.id, f.n)
            \/ f.kind = "ws_close" /\ f.id \in Legs /\ CloseLeg(c, f.id)
         /\ c = session
         /\ UNCHANGED <<relayEnd, clientEnd, up, cut, faults, phase, session, outq, writer, ran,
                        engineSent>>
<1> DEFINE f == Head(down[c])
<1>1. down \in [Sockets -> Seq(DownFrames)] /\ down[c] # <<>> /\ down' = [down EXCEPT ![c] = Tail(@)]
  BY DEF Dispatch, TypesInv, LinkInv
<1>2. /\ f \in DownFrames /\ f = down[c][1] /\ 1 \in 1..Len(down[c])
      /\ [down EXCEPT ![c] = Tail(@)] \in [Sockets -> Seq(DownFrames)]
      /\ Taken([down EXCEPT ![c] = Tail(@)], down)
  BY <1>1, TailTakes
<1>3. Handle(c, f) /\ c = session
  BY DEF Dispatch
<1>4. CASE f.kind \in {"http_request", "pair_request"} /\ f.id \in Requests
  BY <1>1, <1>2, <1>3, <1>4 DEF Handle
<1>5. CASE f.kind = "ws_open" /\ f.id \in Legs
  BY <1>1, <1>2, <1>3, <1>5 DEF Handle
<1>6. CASE f.kind = "ws_message" /\ f.id \in Legs /\ f.n \in 1..MaxMessages
  BY <1>1, <1>2, <1>3, <1>6 DEF Handle
<1>7. CASE f.kind = "ws_close" /\ f.id \in Legs
  BY <1>1, <1>2, <1>3, <1>7 DEF Handle
<1> QED BY <1>2, <1>4, <1>5, <1>6, <1>7, FramesRead

LEMMA DispatchKeepsTypes ==
  ASSUME TypesInv, UNCHANGED roomVars, NEW c \in Sockets, Dispatch(c)
  PROVE  TypesInv'
<1> DEFINE f == Head(down[c])
<1>1. LinkInv'
  BY FrameRead, QueueTypes DEF TypesInv, LinkInv, LinkTypeOK
<1>2. ClientInv /\ c \in Sockets
  BY DEF TypesInv
<1>3. ClientInv'
  <2>1. CASE f.id \in Requests /\ StartCall(c, f.id)
    BY <1>2, <2>1, FrameRead DEF StartCall, ClientInv, ClientTypeOK
  <2>2. CASE f.id \in Legs /\ WsOpen(c, f.id)
    BY <1>2, <2>2, FrameRead DEF WsOpen, ClientInv, ClientTypeOK
  <2>3. CASE f.id \in Legs /\ f.n \in 1..MaxMessages /\ ForwardC2s(c, f.id, f.n)
    <3>1. Append(engineGot[f.id], f.n) \in Seq(1..MaxMessages)
      BY <1>2, <2>3 DEF ClientInv, ClientTypeOK
    <3>2. engineGot' \in [Legs -> Seq(1..MaxMessages)]
      BY <1>2, <2>3, <3>1 DEF ForwardC2s, ClientInv, ClientTypeOK
    <3> QED BY <1>2, <2>3, <3>2, FrameRead DEF ForwardC2s, ClientInv, ClientTypeOK
  <2>4. CASE f.id \in Legs /\ CloseLeg(c, f.id)
    BY <1>2, <2>4, FrameRead DEF CloseLeg, ClientInv, ClientTypeOK
  <2> QED BY <2>1, <2>2, <2>3, <2>4, FrameRead
<1> QED BY <1>1, <1>3, PartsKept DEF TypesInv

(* The frames the tasks of a session send up. *)
LEMMA CallAnswered ==
  ASSUME TypesInv, NEW r \in Requests, RunCall(r)
  PROVE  \E c \in Sockets, f \in UpFrames :
           /\ c = taskOf[r] /\ f.kind \in {"http_response", "pair_response"} /\ f.id = r
           /\ outq' \in [Sockets -> Seq(UpFrames)] /\ Added(outq', outq, c, f)
<1> DEFINE f == Frame(IF r \in HttpRequests THEN "http_response" ELSE "pair_response", r, 0)
<1>1. taskOf[r] \in Sockets /\ SendFrame(taskOf[r], f)
  BY DEF RunCall, TypesInv, ClientInv, ClientTypeOK
<1>2. f \in UpFrames
  BY FramesMade
<1>3. f.kind \in {"http_response", "pair_response"} /\ f.id = r
  BY DEF Frame
<1> HIDE DEF f
<1> QED BY <1>1, <1>2, <1>3, SentUp

LEMMA LegAnswered ==
  ASSUME TypesInv, NEW w \in Legs, LegRefused(w) \/ EngineCloses(w)
  PROVE  \E c \in Sockets, f \in UpFrames :
           /\ c = legOf[w] /\ f.kind \in {"ws_open_refused", "ws_close"} /\ f.id = w
           /\ outq' \in [Sockets -> Seq(UpFrames)] /\ Added(outq', outq, c, f)
           /\ writer[c] = "running" => Len(outq'[c]) = Len(outq[c]) + 1
<1>1. legOf[w] \in Sockets
  BY DEF LegRefused, EngineCloses, TypesInv, ClientInv
<1>2. PICK k \in {"ws_open_refused", "ws_close"} : SendFrame(legOf[w], Frame(k, w, 0))
  BY DEF LegRefused, EngineCloses
<1>3. Frame(k, w, 0) \in UpFrames /\ Frame(k, w, 0).kind = k /\ Frame(k, w, 0).id = w
  BY FramesMade DEF Frame
<1> QED BY <1>1, <1>2, <1>3, SentUp

LEMMA MessageSent ==
  ASSUME TypesInv, NEW w \in Legs, EngineSends(w)
  PROVE  \E c \in Sockets, f \in UpFrames :
           /\ c = legOf[w] /\ IsMessage(f, w) /\ f.n = engineSent[w] + 1
           /\ engineSent[w] + 1 \in 1..MaxMessages
           /\ outq' \in [Sockets -> Seq(UpFrames)] /\ Added(outq', outq, c, f)
           /\ writer[c] = "running" => /\ Len(outq'[c]) = Len(outq[c]) + 1
                                       /\ outq'[c][Len(outq[c]) + 1] = f
<1> DEFINE f == Frame("ws_message", w, engineSent[w] + 1)
<1>1. legOf[w] \in Sockets /\ engineSent[w] + 1 \in 1..MaxMessages
  BY LinkAssumption DEF EngineSends, TypesInv, ClientInv, ClientTypeOK, LinkAssumption
<1>2. SendFrame(legOf[w], f)
  BY DEF EngineSends
<1>3. f \in UpFrames
  BY <1>1, FramesMade
<1>4. IsMessage(f, w) /\ f.n = engineSent[w] + 1
  BY DEF Frame, IsMessage
<1> HIDE DEF f
<1> QED BY <1>1, <1>2, <1>3, <1>4, SentUp

LEMMA TasksKeepTypes ==
  ASSUME TypesInv, UNCHANGED roomVars,
         \/ \E r \in Requests : RunCall(r)
         \/ \E w \in Legs : LegConnects(w) \/ LegRefused(w) \/ EngineSends(w) \/ EngineCloses(w)
  PROVE  TypesInv'
<1>0. ClientInv
  BY DEF TypesInv
<1>1. ASSUME NEW r \in Requests, RunCall(r) PROVE ClientInv' /\ UNCHANGED linkVars
  <2>1. outq' \in [Sockets -> Seq(UpFrames)]
    BY <1>1, CallAnswered
  <2>2. ran' \in [Requests -> Nat]
    BY <1>0, <1>1 DEF RunCall, ClientInv, ClientTypeOK
  <2> QED BY <1>0, <1>1, <2>1, <2>2, QueueTypes DEF RunCall, ClientInv, ClientTypeOK
<1>2. ASSUME NEW w \in Legs, LegConnects(w) PROVE ClientInv' /\ UNCHANGED linkVars
  BY <1>0, <1>2 DEF LegConnects, ClientInv, ClientTypeOK
<1>3. ASSUME NEW w \in Legs, LegRefused(w) \/ EngineCloses(w) PROVE ClientInv' /\ UNCHANGED linkVars
  <2>1. outq' \in [Sockets -> Seq(UpFrames)]
    BY <1>3, LegAnswered
  <2> QED BY <1>0, <1>3, <2>1, QueueTypes DEF LegRefused, EngineCloses, ClientInv, ClientTypeOK
<1>4. ASSUME NEW w \in Legs, EngineSends(w) PROVE ClientInv' /\ UNCHANGED linkVars
  <2>1. outq' \in [Sockets -> Seq(UpFrames)] /\ engineSent[w] + 1 \in 1..MaxMessages
    BY <1>4, MessageSent
  <2>2. engineSent' \in [Legs -> 0..MaxMessages]
    BY <1>0, <1>4, <2>1 DEF EngineSends, ClientInv, ClientTypeOK
  <2> QED BY <1>0, <1>4, <2>1, <2>2, QueueTypes DEF EngineSends, ClientInv, ClientTypeOK
<1> QED BY <1>1, <1>2, <1>3, <1>4, PartsKept DEF TypesInv

(* The writer puts a frame on the socket, where it arrives or is lost. *)
LEMMA FrameWritten ==
  ASSUME TypesInv, NEW c \in Sockets, WriterSends(c)
  PROVE  LET f == Head(outq[c]) IN
         /\ f \in UpFrames /\ f = outq[c][1] /\ 1 \in 1..Len(outq[c])
         /\ outq' = [outq EXCEPT ![c] = Tail(@)]
         /\ outq' \in [Sockets -> Seq(UpFrames)] /\ Taken(outq', outq)
         /\ up' \in [Sockets -> Seq(UpFrames)] /\ Added(up', up, c, f)
         /\ UNCHANGED <<relayEnd, clientEnd, down, cut, faults, phase, session, writer, taskOf,
                        legOf, leg, legMap, ran, engineSent, engineGot>>
<1> DEFINE f == Head(outq[c])
<1>1. /\ outq \in [Sockets -> Seq(UpFrames)] /\ outq[c] # <<>> /\ outq' = [outq EXCEPT ![c] = Tail(@)]
      /\ up \in [Sockets -> Seq(UpFrames)]
  BY DEF WriterSends, TypesInv, LinkInv, ClientInv
<1>2. /\ f \in UpFrames /\ f = outq[c][1] /\ 1 \in 1..Len(outq[c])
      /\ [outq EXCEPT ![c] = Tail(@)] \in [Sockets -> Seq(UpFrames)]
      /\ Taken([outq EXCEPT ![c] = Tail(@)], outq)
  <2>1. outq \in [Sockets -> Seq(UpFrames)] /\ outq[c] # <<>>
    BY <1>1
  <2> QED BY <2>1, TailTakes
<1>3. up' \in {up, Put(up, c, f)}
  BY DEF WriterSends
<1> HIDE DEF f
<1>4. Put(up, c, f) \in [Sockets -> Seq(UpFrames)] /\ Added(Put(up, c, f), up, c, f)
  BY <1>1, <1>2, PutAdds
<1>5. up' \in [Sockets -> Seq(UpFrames)] /\ Added(up', up, c, f)
  BY <1>1, <1>3, <1>4, KeptAdds
<1>6. UNCHANGED <<relayEnd, clientEnd, down, cut, faults, phase, session, writer, taskOf,
                  legOf, leg, legMap, ran, engineSent, engineGot>>
  BY DEF WriterSends
<1> QED BY <1>1, <1>2, <1>5, <1>6 DEF f

LEMMA WriterKeepsTypes ==
  ASSUME TypesInv, UNCHANGED roomVars, NEW c \in Sockets,
         WriterSends(c) \/ WriterFails(c) \/ WriterDone(c)
  PROVE  TypesInv'
<1>0. ClientInv /\ LinkInv
  BY DEF TypesInv
<1>1. CASE WriterSends(c)
  <2>1. LinkInv'
    BY <1>0, <1>1, FrameWritten, QueueTypes DEF LinkInv, LinkTypeOK
  <2>2. ClientInv'
    BY <1>0, <1>1, FrameWritten, QueueTypes DEF ClientInv, ClientTypeOK
  <2> QED BY <2>1, <2>2, PartsKept DEF TypesInv
<1>2. CASE WriterFails(c)
  <2>1. outq' \in [Sockets -> Seq(UpFrames)]
    BY <1>0, <1>2, ClearTakes DEF WriterFails, ClientInv
  <2>2. ClientInv'
    BY <1>0, <1>2, <2>1, QueueTypes DEF WriterFails, ClientInv, ClientTypeOK
  <2> QED BY <1>2, <2>2, PartsKept DEF WriterFails, TypesInv
<1>3. CASE WriterDone(c)
  BY <1>0, <1>3, PartsKept DEF WriterDone, TypesInv, ClientInv, ClientTypeOK
<1> QED BY <1>1, <1>2, <1>3

LEMMA SessionKeepsTypes ==
  ASSUME TypesInv, UNCHANGED roomVars, EndSession \/ SessionOver
  PROVE  TypesInv'
<1>0. ClientInv /\ LinkInv
  BY DEF TypesInv
<1>1. CASE EndSession
  BY <1>0, <1>1, PartsKept DEF EndSession, TypesInv, ClientInv, ClientTypeOK
<1>2. CASE SessionOver
  <2>1. LinkInv'
    BY <1>0, <1>2 DEF SessionOver, LinkInv, LinkTypeOK
  <2>2. ClientInv'
    BY <1>0, <1>2 DEF SessionOver, ClientInv, ClientTypeOK
  <2> QED BY <2>1, <2>2, PartsKept DEF TypesInv
<1> QED BY <1>1, <1>2

LEMMA StepKeepsTypes ==
  ASSUME TypesInv, [Next]_vars
  PROVE  TypesInv'
<1>1. CASE UNCHANGED vars
  BY <1>1, PartsKept DEF vars, TypesInv
<1>2. CASE DesktopFallsSilent
  BY <1>2, PartsKept DEF DesktopFallsSilent, TypesInv, RoomTypeOK
<1>3. CASE ClientDoes(ClientNext)
  BY <1>3, DispatchKeepsTypes, TasksKeepTypes, WriterKeepsTypes, SessionKeepsTypes
     DEF ClientDoes, ClientNext, StreamEnds
<1> QED BY <1>1, <1>2, <1>3, CutKeepsTypes, RegisterKeepsTypes, RoomKeepsTypes, SessionKeepsTypes
        DEF Next, RoomFallsSilent

LEMMA InitHasTypes ==
  ASSUME Init
  PROVE  TypesInv
<1>1. \A S : <<>> \in Seq(S)
  BY EmptySeq
<1>2. 0 \in 0..MaxFaults /\ 0 \in 0..MaxMessages
  BY LinkAssumption DEF LinkAssumption
<1>3. LinkInv
  BY <1>1, <1>2 DEF Init, LinkInit, LinkInv, LinkTypeOK
<1>4. RoomTypeOK
  BY <1>1, <1>2 DEF Init, RoomInit, RoomTypeOK
<1>5. ClientInv
  BY <1>1, <1>2 DEF Init, ClientInit, ClientInv, ClientTypeOK
<1> QED BY <1>3, <1>4, <1>5 DEF TypesInv

LEMMA TypesAlways == Spec => []TypesInv
BY InitHasTypes, StepKeepsTypes, PTL DEF Spec

(* The two ends of the tunnel and the frames between them keep their types:
   what a frame asks for exists at the end that handles it. *)
THEOREM TunnelTypes == Spec => []TypeOK
<1>1. TypesInv => TypeOK
  BY DEF TypesInv, LinkInv, ClientInv, TypeOK
<1> QED BY <1>1, TypesAlways, PTL
-----------------------------------------------------------------------------
(* Only the room's actions, and the registration, touch calls and phones.   *)
LEMMA ClientLeavesRoom ==
  ASSUME [Next]_vars
  PROVE  \/ UNCHANGED <<request, answer, pending, phone, mobileSockets>>
         \/ \E c \in Sockets : HandleDesktopRegister(c)
         \/ RoomNext
BY DEF Next, vars, roomVars, Register, DesktopFallsSilent, RoomFallsSilent, RoomDoes, ClientDoes

LEMMA StepKeepsPending ==
  ASSUME TypesInv, PendingAreUnanswered, [Next]_vars
  PROVE  PendingAreUnanswered'
<1>0. RoomTypeOK /\ None \notin Answers
  BY AnswerAssumption DEF TypesInv
<1>1. \A a \in {"reply", "timeout", "dropped", "offline", "busy", "malformed", "send_failed"} : a # None
  BY <1>0 DEF Answers, Refusals
<1>2. ASSUME FailAllPending, request' = request PROVE PendingAreUnanswered'
  BY <1>0, <1>1, <1>2 DEF FailAllPending, Answered, PendingAreUnanswered, RoomTypeOK
<1>3. CASE UNCHANGED <<request, answer, pending, phone, mobileSockets>>
  BY <1>3 DEF PendingAreUnanswered
<1>4. ASSUME NEW c \in Sockets, HandleDesktopRegister(c) PROVE PendingAreUnanswered'
  <2>1. request' = request /\ (FailAllPending \/ UNCHANGED <<pending, answer>>)
    BY <1>4 DEF HandleDesktopRegister
  <2> QED BY <1>2, <2>1 DEF PendingAreUnanswered
<1>5. CASE RoomNext
  <2>1. ASSUME NEW c \in Sockets, DesktopSocketCloses(c) PROVE PendingAreUnanswered'
    BY <1>2, <2>1 DEF DesktopSocketCloses, OnDesktopClose
  <2>2. CASE Watchdog
    BY <1>2, <2>2 DEF Watchdog, OnDesktopClose
  <2>3. CASE AlarmWithoutDesktop \/ Hibernate
    BY <2>3 DEF AlarmWithoutDesktop, Hibernate, PendingAreUnanswered
  <2>4. ASSUME NEW c \in Sockets, OnDesktopMessage(c) PROVE PendingAreUnanswered'
    <3> DEFINE f == Head(up[c])
    <3>1. request' = request
      BY <2>4, MessageRead
    <3>2. ASSUME f.id \in Requests, Resolve(f.id) PROVE PendingAreUnanswered'
      <4> PICK r \in Requests : r = f.id /\ Resolve(r)
        BY <3>2
      <4> QED BY <1>0, <1>1, <3>1 DEF Resolve, PendingAreUnanswered, RoomTypeOK
    <3>3. ASSUME UNCHANGED <<pending, answer>> PROVE PendingAreUnanswered'
      BY <3>1, <3>3 DEF PendingAreUnanswered
    <3> QED BY <2>4, <3>2, <3>3, MessageRead DEF DeliverToPhone, ClosePhone
  <2>5. ASSUME NEW r \in Requests, Arrive(r) PROVE PendingAreUnanswered'
    BY <1>0, <1>1, <2>5 DEF Arrive, PendingAreUnanswered, RoomTypeOK
  <2>6. ASSUME NEW r \in Requests, PairWithoutCode(r) PROVE PendingAreUnanswered'
    BY <1>0, <1>1, <2>6 DEF PairWithoutCode, PendingAreUnanswered, RoomTypeOK
  <2>7. ASSUME NEW r \in Requests, Forward(r) PROVE PendingAreUnanswered'
    BY <1>0, <1>1, <2>7 DEF Forward, PendingAreUnanswered, RoomTypeOK
  <2>8. ASSUME NEW r \in Requests, TimeOut(r) PROVE PendingAreUnanswered'
    BY <1>0, <1>1, <2>8 DEF TimeOut, PendingAreUnanswered, RoomTypeOK
  <2>9. ASSUME NEW w \in Legs, PhoneOpens(w) \/ PhoneSends(w) \/ PhoneCloses(w) PROVE PendingAreUnanswered'
    BY <2>9 DEF PhoneOpens, PhoneSends, PhoneCloses, PendingAreUnanswered
  <2> QED BY <1>5, <2>1, <2>2, <2>3, <2>4, <2>5, <2>6, <2>7, <2>8, <2>9 DEF RoomNext
<1> QED BY <1>3, <1>4, <1>5, ClientLeavesRoom

LEMMA PendingAlways == Spec => [](TypesInv /\ PendingAreUnanswered)
<1>1. Init => TypesInv /\ PendingAreUnanswered
  BY InitHasTypes DEF Init, RoomInit, PendingAreUnanswered
<1>2. TypesInv /\ PendingAreUnanswered /\ [Next]_vars => (TypesInv /\ PendingAreUnanswered)'
  BY StepKeepsTypes, StepKeepsPending
<1> QED BY <1>1, <1>2, PTL DEF Spec

(* pendingHttp and pendingPair hold exactly the calls that were sent to the
   desktop and have no answer, whatever closes, reconnects or hibernates. *)
THEOREM TablesAreRight == Spec => []PendingAreUnanswered
BY PendingAlways, PTL

LEMMA StepKeepsPhones ==
  ASSUME TypesInv, OpenPhonesAreKnown, [Next]_vars
  PROVE  OpenPhonesAreKnown'
<1>0. RoomTypeOK
  BY DEF TypesInv
<1>1. CASE UNCHANGED <<request, answer, pending, phone, mobileSockets>>
  BY <1>1 DEF OpenPhonesAreKnown
<1>2. ASSUME NEW c \in Sockets, HandleDesktopRegister(c) PROVE OpenPhonesAreKnown'
  BY <1>2 DEF HandleDesktopRegister, OpenPhonesAreKnown
<1>3. CASE RoomNext
  <2>1. ASSUME OnDesktopClose PROVE OpenPhonesAreKnown'
    BY <1>0, <2>1 DEF OnDesktopClose, Closing, OpenPhonesAreKnown, RoomTypeOK
  <2>2. CASE Watchdog \/ \E c \in Sockets : DesktopSocketCloses(c)
    BY <2>1, <2>2 DEF DesktopSocketCloses, Watchdog
  <2>3. CASE AlarmWithoutDesktop
    BY <2>3 DEF AlarmWithoutDesktop, OpenPhonesAreKnown
  <2>4. CASE Hibernate
    BY <2>4 DEF Hibernate, RestoredMobiles, OpenPhonesAreKnown
  <2>5. ASSUME NEW c \in Sockets, OnDesktopMessage(c) PROVE OpenPhonesAreKnown'
    <3> DEFINE f == Head(up[c])
    <3>1. ASSUME f.id \in Legs, ClosePhone(f.id) PROVE OpenPhonesAreKnown'
      <4> PICK w \in Legs : w = f.id /\ ClosePhone(w)
        BY <3>1
      <4> QED BY <1>0 DEF ClosePhone, Closing, OpenPhonesAreKnown, RoomTypeOK
    <3>2. ASSUME UNCHANGED <<phone, mobileSockets>> PROVE OpenPhonesAreKnown'
      BY <3>2 DEF OpenPhonesAreKnown
    <3> QED BY <2>5, <3>1, <3>2, MessageRead DEF DeliverToPhone, Resolve
  <2>6. ASSUME NEW r \in Requests, Arrive(r) \/ PairWithoutCode(r) \/ Forward(r) \/ TimeOut(r)
        PROVE  OpenPhonesAreKnown'
    BY <2>6 DEF Arrive, PairWithoutCode, Forward, TimeOut, OpenPhonesAreKnown
  <2>7. ASSUME NEW w \in Legs, PhoneOpens(w) PROVE OpenPhonesAreKnown'
    BY <1>0, <2>7 DEF PhoneOpens, OpenPhonesAreKnown, RoomTypeOK
  <2>8. ASSUME NEW w \in Legs, PhoneSends(w) PROVE OpenPhonesAreKnown'
    BY <2>8 DEF PhoneSends, OpenPhonesAreKnown
  <2>9. ASSUME NEW w \in Legs, PhoneCloses(w) PROVE OpenPhonesAreKnown'
    BY <1>0, <2>9 DEF PhoneCloses, OpenPhonesAreKnown, RoomTypeOK
  <2> QED BY <1>3, <2>2, <2>3, <2>4, <2>5, <2>6, <2>7, <2>8, <2>9 DEF RoomNext
<1> QED BY <1>1, <1>2, <1>3, ClientLeavesRoom

LEMMA PhonesAlways == Spec => [](TypesInv /\ OpenPhonesAreKnown)
<1>1. Init => TypesInv /\ OpenPhonesAreKnown
  BY InitHasTypes DEF Init, RoomInit, OpenPhonesAreKnown
<1>2. TypesInv /\ OpenPhonesAreKnown /\ [Next]_vars => (TypesInv /\ OpenPhonesAreKnown)'
  BY StepKeepsTypes, StepKeepsPhones
<1> QED BY <1>1, <1>2, PTL DEF Spec

(* mobileSockets has every phone whose socket is open, also after the object
   was built again from its sockets. *)
THEOREM PhonesAreKept == Spec => []OpenPhonesAreKnown
BY PhonesAlways, PTL
-----------------------------------------------------------------------------
(***************************************************************************)
(* In one step a queue loses frames at its front, and gets at most the     *)
(* frame f, at its end if it is that of the socket c.                      *)
(***************************************************************************)
Moved(new, old, c, f) ==
  \A d \in Sockets : \E m \in Nat : \A k \in 1..Len(new[d]) :
    \/ k + m \in 1..Len(old[d]) /\ new[d][k] = old[d][k + m]
    \/ d = c /\ k = Len(new[d]) /\ new[d][k] = f

LEMMA TakenMoves ==
  ASSUME NEW S, NEW old \in [Sockets -> Seq(S)], NEW new \in [Sockets -> Seq(S)],
         NEW c, NEW f, Taken(new, old)
  PROVE  Moved(new, old, c, f)
<1> SUFFICES ASSUME NEW d \in Sockets
             PROVE  \E m \in Nat : \A k \in 1..Len(new[d]) :
                      k + m \in 1..Len(old[d]) /\ new[d][k] = old[d][k + m]
  BY DEF Moved
<1>1. PICK m \in Nat : /\ Len(old[d]) = Len(new[d]) + m
                       /\ \A k \in 1..Len(new[d]) : new[d][k] = old[d][k + m]
  BY DEF Taken
<1>2. Len(old[d]) \in Nat /\ Len(new[d]) \in Nat
  BY LenProperties
<1> WITNESS m \in Nat
<1> QED BY <1>1, <1>2

LEMMA AddedMoves ==
  ASSUME NEW S, NEW old \in [Sockets -> Seq(S)], NEW new \in [Sockets -> Seq(S)],
         NEW c, NEW f, Added(new, old, c, f)
  PROVE  Moved(new, old, c, f)
<1> SUFFICES ASSUME NEW d \in Sockets
             PROVE  \E m \in Nat : \A k \in 1..Len(new[d]) :
                      \/ k + m \in 1..Len(old[d]) /\ new[d][k] = old[d][k + m]
                      \/ d = c /\ k = Len(new[d]) /\ new[d][k] = f
  BY DEF Moved
<1>1. Len(old[d]) \in Nat /\ Len(new[d]) \in Nat
  BY LenProperties
<1> WITNESS 0 \in Nat
<1> QED BY <1>1 DEF Added

LEMMA KeptMoves ==
  ASSUME NEW S, NEW old \in [Sockets -> Seq(S)], NEW c, NEW f
  PROVE  Moved(old, old, c, f)
BY KeptTakes, TakenMoves

(* The state of a call is kept by a step that neither asks for it nor runs it. *)
LEMMA CallKept ==
  ASSUME NEW r \in Requests, CallInv(r),
         NEW c, NEW f, Moved(down', down, c, f), ~IsAsk(f, r),
         NEW d, NEW g, Moved(up', up, d, g), IsReply(g, r) => ran[r] = 1,
         NEW e, NEW h, Moved(outq', outq, e, h), ~IsReply(h, r),
         ran'[r] = ran[r], taskOf'[r] = taskOf[r], Asked(r)' <=> Asked(r),
         answer'[r] = "reply" => ran[r] = 1
  PROVE  CallInv(r)'
<1>1. /\ ran'[r] <= 1 /\ (taskOf'[r] # None => ran'[r] = 0) /\ (~Asked(r)' => Untouched(r)')
      /\ (answer'[r] = "reply" => ran'[r] = 1) /\ (Untouched(r)' <=> Untouched(r))
  BY DEF CallInv, Untouched
<1>2. ASSUME NEW x \in Sockets, NEW k \in 1..Len(down'[x]), IsAsk(down'[x][k], r)
      PROVE  /\ Untouched(r)' /\ Asked(r)'
             /\ \A y \in Sockets : \A l \in 1..Len(down'[y]) : IsAsk(down'[y][l], r) => y = x /\ l = k
  <2>1. PICK m \in Nat : \A i \in 1..Len(down'[x]) :
          \/ i + m \in 1..Len(down[x]) /\ down'[x][i] = down[x][i + m]
          \/ x = c /\ i = Len(down'[x]) /\ down'[x][i] = f
    BY DEF Moved
  <2>2. k + m \in 1..Len(down[x]) /\ IsAsk(down[x][k + m], r)
    BY <1>2, <2>1
  <2>3. /\ Untouched(r) /\ Asked(r)
        /\ \A y \in Sockets : \A l \in 1..Len(down[y]) : IsAsk(down[y][l], r) => y = x /\ l = k + m
    BY <2>2 DEF CallInv
  <2>4. ASSUME NEW y \in Sockets, NEW l \in 1..Len(down'[y]), IsAsk(down'[y][l], r)
        PROVE  y = x /\ l = k
    <3>1. PICK n \in Nat : \A i \in 1..Len(down'[y]) :
            \/ i + n \in 1..Len(down[y]) /\ down'[y][i] = down[y][i + n]
            \/ y = c /\ i = Len(down'[y]) /\ down'[y][i] = f
      BY DEF Moved
    <3>2. y = x
      BY <2>3, <2>4, <3>1
    <3>3. l + m \in 1..Len(down[x]) /\ IsAsk(down[x][l + m], r)
      BY <2>1, <2>4, <3>2
    <3>4. l + m = k + m
      BY <2>3, <3>3
    <3> QED BY <3>2, <3>4
  <2> QED BY <1>1, <2>3, <2>4
<1>3. ASSUME NEW x \in Sockets, NEW k \in 1..Len(outq'[x]), IsReply(outq'[x][k], r) PROVE ran'[r] = 1
  BY <1>3 DEF Moved, CallInv
<1>4. ASSUME NEW x \in Sockets, NEW k \in 1..Len(up'[x]), IsReply(up'[x][k], r) PROVE ran'[r] = 1
  BY <1>4 DEF Moved, CallInv
<1> QED BY <1>1, <1>2, <1>3, <1>4 DEF CallInv

Nil == Frame("none", None, 0)

(* The same, said of what the steps do to the queues. *)
LEMMA CallUndisturbed ==
  ASSUME TypesInv, TypesInv', NEW r \in Requests, CallInv(r),
         Taken(down', down) \/ \E c \in Sockets \cup {None}, f \in DownFrames : Added(down', down, c, f) /\ ~IsAsk(f, r),
         Taken(up', up) \/ \E c \in Sockets, f \in UpFrames : Added(up', up, c, f) /\ (IsReply(f, r) => ran[r] = 1),
         Taken(outq', outq) \/ \E c \in Sockets, f \in UpFrames : Added(outq', outq, c, f) /\ ~IsReply(f, r),
         ran'[r] = ran[r], taskOf'[r] = taskOf[r], Asked(r)' <=> Asked(r),
         answer'[r] = "reply" => ran[r] = 1
  PROVE  CallInv(r)'
<1>0. /\ down \in [Sockets -> Seq(DownFrames)] /\ down' \in [Sockets -> Seq(DownFrames)]
      /\ up \in [Sockets -> Seq(UpFrames)] /\ up' \in [Sockets -> Seq(UpFrames)]
      /\ outq \in [Sockets -> Seq(UpFrames)] /\ outq' \in [Sockets -> Seq(UpFrames)]
  BY DEF TypesInv, LinkInv, ClientInv
<1>1. ~IsAsk(Nil, r) /\ ~IsReply(Nil, r)
  BY DEF Nil, Frame, IsAsk, IsReply
<1>2. \E c, f : Moved(down', down, c, f) /\ ~IsAsk(f, r)
  BY <1>0, <1>1, TakenMoves, AddedMoves
<1>3. \E c, f : Moved(up', up, c, f) /\ (IsReply(f, r) => ran[r] = 1)
  BY <1>0, <1>1, TakenMoves, AddedMoves
<1>4. \E c, f : Moved(outq', outq, c, f) /\ ~IsReply(f, r)
  BY <1>0, <1>1, TakenMoves, AddedMoves
<1> QED BY <1>2, <1>3, <1>4, CallKept

LEMMA QueuesKept ==
  ASSUME TypesInv
  PROVE  /\ down' = down => Taken(down', down)
         /\ up' = up => Taken(up', up)
         /\ outq' = outq => Taken(outq', outq)
BY KeptTakes DEF TypesInv, LinkInv, ClientInv

(* Every answer the room gives to a call that waits leaves it asked for. *)
LEMMA FailKeepsAsked ==
  ASSUME TypesInv, PendingAreUnanswered, FailAllPending, request' = request, NEW r \in Requests
  PROVE  /\ Asked(r)' <=> Asked(r)
         /\ answer'[r] = "reply" => answer[r] = "reply"
<1>1. answer'[r] = IF r \in pending THEN "dropped" ELSE answer[r]
  BY DEF FailAllPending, Answered
<1>2. r \in pending => request[r] = "sent" /\ answer[r] = None
  BY DEF PendingAreUnanswered
<1>3. None \notin Refusals /\ "dropped" \notin Refusals /\ "dropped" # "reply"
  BY AnswerAssumption DEF Answers, Refusals
<1> QED BY <1>1, <1>2, <1>3 DEF Asked

LEMMA RoomKeepsCalls ==
  ASSUME TypesInv, TypesInv', PendingAreUnanswered, CallsInv, UNCHANGED clientVars,
         RoomNext
  PROVE  CallsInv'
<1>0. /\ UNCHANGED <<ran, taskOf, outq>> /\ RoomTypeOK
      /\ None \notin Refusals /\ {"timeout", "reply", "dropped"} \cap Refusals = {}
      /\ \A a \in Refusals : a # "reply"
  BY AnswerAssumption DEF clientVars, TypesInv, Answers, Refusals
<1> SUFFICES ASSUME NEW r \in Requests PROVE CallInv(r)'
  BY DEF CallsInv
<1>1. CallInv(r) /\ (answer[r] = "reply" => ran[r] = 1)
  BY DEF CallsInv, CallInv
<1>2. ASSUME Taken(down', down) \/ \E c \in Sockets \cup {None}, f \in DownFrames : Added(down', down, c, f) /\ ~IsAsk(f, r),
             Taken(up', up), Asked(r)' <=> Asked(r), answer'[r] = "reply" => ran[r] = 1
      PROVE  CallInv(r)'
  BY <1>0, <1>1, <1>2, QueuesKept, CallUndisturbed
<1>3. ASSUME down' = down, up' = up, Asked(r)' <=> Asked(r), answer'[r] = "reply" => ran[r] = 1
      PROVE  CallInv(r)'
  BY <1>2, <1>3, QueuesKept
<1>4. CASE Watchdog \/ \E c \in Sockets : DesktopSocketCloses(c)
  <2>1. OnDesktopClose /\ UNCHANGED <<down, up>>
    BY <1>4 DEF Watchdog, DesktopSocketCloses
  <2>2. (Asked(r)' <=> Asked(r)) /\ (answer'[r] = "reply" => answer[r] = "reply")
    BY <2>1, FailKeepsAsked DEF OnDesktopClose
  <2> QED BY <1>1, <1>3, <2>1, <2>2
<1>5. CASE AlarmWithoutDesktop \/ Hibernate
  BY <1>1, <1>3, <1>5 DEF AlarmWithoutDesktop, Hibernate, Asked, linkVars
<1>6. ASSUME NEW c \in Sockets, OnDesktopMessage(c) PROVE CallInv(r)'
  <2> DEFINE f == Head(up[c])
  <2>1. /\ f \in UpFrames /\ f = up[c][1] /\ 1 \in 1..Len(up[c]) /\ Taken(up', up)
        /\ down' = down /\ request' = request
    BY <1>6, MessageRead
  <2>2. CASE f.kind \in {"http_response", "pair_response"} /\ Resolve(f.id)
    <3>1. answer'[r] = IF r = f.id /\ r \in pending THEN "reply" ELSE answer[r]
      BY <1>0, <2>2 DEF Resolve, RoomTypeOK
    <3>2. r = f.id => ran[r] = 1
      BY <1>1, <2>1, <2>2 DEF CallInv, IsReply
    <3>3. r \in pending => request[r] = "sent" /\ answer[r] = None
      BY DEF PendingAreUnanswered
    <3>4. Asked(r)' <=> Asked(r)
      BY <1>0, <2>1, <3>1, <3>3 DEF Asked
    <3> QED BY <1>1, <1>2, <2>1, <3>1, <3>2, <3>4, QueuesKept
  <2>3. CASE answer' = answer
    BY <1>1, <1>2, <2>1, <2>3, QueuesKept DEF Asked
  <2> QED BY <1>6, <2>2, <2>3, MessageRead DEF DeliverToPhone, ClosePhone
<1>7. ASSUME NEW q \in Requests, Arrive(q) PROVE CallInv(r)'
  <2>1. /\ down' = down /\ up' = up
        /\ r # q => request'[r] = request[r] /\ answer'[r] = answer[r]
        /\ r = q => request[r] = "idle" /\ request'[r] # "sent" /\ answer'[r] \in {"offline", "busy", None}
    BY <1>0, <1>7 DEF Arrive, RoomTypeOK, linkVars
  <2>2. None # "reply"
    BY AnswerAssumption DEF Answers
  <2> QED BY <1>1, <1>3, <2>1, <2>2 DEF Asked
<1>8. ASSUME NEW q \in Requests, PairWithoutCode(q) PROVE CallInv(r)'
  <2>1. /\ down' = down /\ up' = up /\ request' = request
        /\ r # q => answer'[r] = answer[r]
        /\ r = q => request[r] = "body" /\ answer'[r] = "malformed"
    BY <1>0, <1>8 DEF PairWithoutCode, RoomTypeOK, linkVars
  <2> QED BY <1>1, <1>3, <2>1 DEF Asked
<1>9. ASSUME NEW q \in Requests, TimeOut(q) PROVE CallInv(r)'
  <2>1. /\ down' = down /\ up' = up /\ request' = request
        /\ r # q => answer'[r] = answer[r]
        /\ r = q => r \in pending /\ answer'[r] = "timeout"
    BY <1>0, <1>9 DEF TimeOut, RoomTypeOK, linkVars
  <2>2. r \in pending => answer[r] = None
    BY DEF PendingAreUnanswered
  <2> QED BY <1>0, <1>1, <1>3, <2>1, <2>2 DEF Asked
<1>10. ASSUME NEW w \in Legs, PhoneOpens(w) \/ PhoneSends(w) \/ PhoneCloses(w) PROVE CallInv(r)'
  <2>1. up' = up /\ UNCHANGED <<request, answer>>
    BY <1>10 DEF PhoneOpens, PhoneSends, PhoneCloses
  <2>2. \/ down' = down
        \/ \E f \in DownFrames : SendToDesktop(f) /\ f.kind \in {"ws_open", "ws_close", "ws_message"}
    <3>1. CASE PhoneOpens(w)
      <4>1. Frame("ws_open", w, 0) \in DownFrames /\ Frame("ws_open", w, 0).kind = "ws_open"
        BY FramesMade DEF Frame
      <4> QED BY <3>1, <4>1 DEF PhoneOpens
    <3>2. CASE PhoneSends(w)
      <4>1. phoneSent[w] + 1 \in 1..MaxMessages
        BY <1>0, <3>2, LinkAssumption DEF PhoneSends, RoomTypeOK, LinkAssumption
      <4>2. /\ Frame("ws_message", w, phoneSent[w] + 1) \in DownFrames
            /\ Frame("ws_message", w, phoneSent[w] + 1).kind = "ws_message"
        BY <4>1, FramesMade DEF Frame
      <4> QED BY <3>2, <4>2 DEF PhoneSends
    <3>3. CASE PhoneCloses(w)
      <4>1. Frame("ws_close", w, 0) \in DownFrames /\ Frame("ws_close", w, 0).kind = "ws_close"
        BY FramesMade DEF Frame
      <4> QED BY <3>3, <4>1 DEF PhoneCloses
    <3> QED BY <1>10, <3>1, <3>2, <3>3
  <2>3. Taken(down', down) \/ \E c \in Sockets \cup {None}, f \in DownFrames : Added(down', down, c, f) /\ ~IsAsk(f, r)
    BY <1>0, <2>2, SentDown, QueuesKept DEF IsAsk, RoomTypeOK
  <2> QED BY <1>1, <1>2, <2>1, <2>3, QueuesKept DEF Asked
<1>11. ASSUME NEW q \in Requests, Forward(q) PROVE CallInv(r)'
  <2> DEFINE f == Frame(IF q \in HttpRequests THEN "http_request" ELSE "pair_request", q, 0)
  <2>1. f \in DownFrames /\ f.id = q
    BY FramesMade DEF Frame
  <2>2. SendToDesktop(f) /\ up' = up /\ request[q] = "body" /\ answer[q] = None
    BY <1>11 DEF Forward
  <2> HIDE DEF f
  <2>3. Added(down', down, desktop, f) /\ desktop \in Sockets \cup {None}
    BY <1>0, <2>1, <2>2, SentDown DEF RoomTypeOK
  <2>4. CASE r # q
    <3>1. request'[r] = request[r] /\ answer'[r] = answer[r]
      BY <1>0, <1>11, <2>4 DEF Forward, RoomTypeOK
    <3>2. ~IsAsk(f, r)
      BY <2>1, <2>4 DEF IsAsk
    <3> QED BY <1>1, <1>2, <2>1, <2>2, <2>3, <3>1, <3>2, QueuesKept DEF Asked
  <2>5. CASE r = q
    <3>1. ~Asked(r) /\ Untouched(r) /\ Untouched(r)' /\ request'[r] = "sent"
      BY <1>0, <1>1, <1>11, <2>2, <2>5 DEF Asked, CallInv, Forward, RoomTypeOK, Untouched
    <3>2. \A c \in Sockets : \A k \in 1..Len(down[c]) : ~IsAsk(down[c][k], r)
      BY <1>1, <3>1 DEF CallInv
    <3>3. CASE ~CanSend
      <4>1. down' = down /\ answer'[r] = "send_failed"
        BY <1>0, <1>11, <2>2, <2>5, <3>3 DEF SendToDesktop, Forward, RoomTypeOK
      <4>2. ~Asked(r)' /\ answer'[r] # "reply"
        BY <4>1 DEF Asked, Refusals
      <4> QED BY <1>3, <2>2, <3>1, <4>1, <4>2
    <3>4. CASE CanSend
      <4>1. answer'[r] = None /\ Asked(r)'
        BY <1>0, <1>11, <2>2, <2>5, <3>1, <3>4 DEF Forward, Asked
      <4>2. \A c \in Sockets : Len(down[c]) \in Nat /\ Len(down'[c]) \in Nat
        BY LenProperties DEF TypesInv, LinkInv
      <4>3. ASSUME NEW c \in Sockets, NEW k \in 1..Len(down'[c]), IsAsk(down'[c][k], r)
            PROVE  c = desktop /\ k = Len(down'[c])
        <5>1. CASE down'[c] = down[c]
          BY <3>2, <4>3, <5>1
        <5>2. CASE /\ c = desktop /\ Len(down'[c]) = Len(down[c]) + 1
                   /\ \A i \in 1..Len(down[c]) : down'[c][i] = down[c][i]
          BY <3>2, <4>2, <4>3, <5>2
        <5> QED BY <2>3, <5>1, <5>2 DEF Added
      <4>4. None # "reply"
        BY AnswerAssumption DEF Answers
      <4>5. ran'[r] = 0 /\ taskOf'[r] = None /\ outq' = outq /\ up' = up
        BY <1>0, <2>2, <3>1 DEF Untouched
      <4>6. /\ \A c \in Sockets : \A k \in 1..Len(outq[c]) : ~IsReply(outq[c][k], r)
            /\ \A c \in Sockets : \A k \in 1..Len(up[c]) : ~IsReply(up[c][k], r)
        BY <1>1, <3>1 DEF CallInv, Untouched
      <4> QED BY <3>1, <4>1, <4>3, <4>4, <4>5, <4>6 DEF CallInv
    <3> QED BY <3>3, <3>4
  <2> QED BY <2>4, <2>5
<1> QED BY <1>4, <1>5, <1>6, <1>7, <1>8, <1>9, <1>10, <1>11 DEF RoomNext

LEMMA ClientKeepsCalls ==
  ASSUME TypesInv, TypesInv', CallsInv, UNCHANGED roomVars, ClientNext
  PROVE  CallsInv'
<1>0. UNCHANGED <<request, answer>> /\ ClientInv
  BY DEF roomVars, TypesInv
<1> SUFFICES ASSUME NEW r \in Requests PROVE CallInv(r)'
  BY DEF CallsInv
<1>1. CallInv(r) /\ (answer[r] = "reply" => ran[r] = 1) /\ (Asked(r)' <=> Asked(r))
  BY <1>0 DEF CallsInv, CallInv, Asked
<1>2. ASSUME Taken(down', down), ran'[r] = ran[r], taskOf'[r] = taskOf[r],
             Taken(up', up) \/ \E c \in Sockets, f \in UpFrames : Added(up', up, c, f) /\ (IsReply(f, r) => ran[r] = 1),
             Taken(outq', outq) \/ \E c \in Sockets, f \in UpFrames : Added(outq', outq, c, f) /\ ~IsReply(f, r)
      PROVE  CallInv(r)'
  BY <1>0, <1>1, <1>2, CallUndisturbed
<1>3. ASSUME NEW c \in Sockets, Dispatch(c) PROVE CallInv(r)'
  <2> DEFINE f == Head(down[c])
  <2>1. /\ f = down[c][1] /\ 1 \in 1..Len(down[c]) /\ down' = [down EXCEPT ![c] = Tail(@)]
        /\ Taken(down', down) /\ UNCHANGED <<up, outq, ran>>
    BY <1>3, FrameRead
  <2>2. ASSUME taskOf'[r] = taskOf[r] PROVE CallInv(r)'
    BY <1>2, <2>1, <2>2, QueuesKept
  <2>3. CASE f.kind \in {"http_request", "pair_request"} /\ f.id \in Requests /\ StartCall(c, f.id)
    <3>1. taskOf' = [taskOf EXCEPT ![f.id] = c]
      BY <2>3 DEF StartCall
    <3>2. CASE f.id # r
      BY <1>0, <2>2, <3>1, <3>2 DEF ClientInv, ClientTypeOK
    <3>3. CASE f.id = r
      <4>1. /\ Untouched(r) /\ Asked(r)
            /\ \A d \in Sockets : \A l \in 1..Len(down[d]) : IsAsk(down[d][l], r) => d = c /\ l = 1
        BY <1>1, <2>1, <2>3, <3>3 DEF CallInv, IsAsk
      <4>2. \A d \in Sockets : \A l \in 1..Len(down'[d]) : ~IsAsk(down'[d][l], r)
        <5>1. /\ down \in [Sockets -> Seq(DownFrames)] /\ down[c] # <<>>
          BY <1>3 DEF Dispatch, TypesInv, LinkInv
        <5>2. /\ Len(down'[c]) = Len(down[c]) - 1 /\ Len(down[c]) \in Nat
              /\ \A k \in 1..Len(down[c]) - 1 : down'[c][k] = down[c][k + 1]
              /\ \A d \in Sockets : d # c => down'[d] = down[d]
          BY <2>1, <5>1, TailTakes, LenProperties
        <5> QED BY <4>1, <5>2
      <4>3. ran[r] = 0 /\ ran'[r] = 0 /\ Asked(r)' /\ answer'[r] # "reply"
        BY <1>0, <1>1, <2>1, <4>1 DEF Untouched
      <4>4. /\ \A d \in Sockets : \A k \in 1..Len(outq'[d]) : ~IsReply(outq'[d][k], r)
            /\ \A d \in Sockets : \A k \in 1..Len(up'[d]) : ~IsReply(up'[d][k], r)
        BY <1>1, <2>1, <4>3 DEF CallInv
      <4> QED BY <4>2, <4>3, <4>4 DEF CallInv
    <3> QED BY <3>2, <3>3
  <2>4. CASE taskOf' = taskOf
    BY <2>2, <2>4
  <2> QED BY <1>3, <2>3, <2>4, FrameRead DEF WsOpen, ForwardC2s, CloseLeg
<1>4. ASSUME NEW q \in Requests, RunCall(q) PROVE CallInv(r)'
  <2>1. PICK c \in Sockets, f \in UpFrames :
          /\ c = taskOf[q] /\ f.kind \in {"http_response", "pair_response"} /\ f.id = q
          /\ outq' \in [Sockets -> Seq(UpFrames)] /\ Added(outq', outq, c, f)
    BY <1>4, CallAnswered
  <2>2. /\ UNCHANGED <<down, up>> /\ taskOf[q] # None
        /\ ran' = [ran EXCEPT ![q] = @ + 1] /\ taskOf' = [taskOf EXCEPT ![q] = None]
    BY <1>4 DEF RunCall, linkVars
  <2>3. CASE q # r
    <3>1. ran'[r] = ran[r] /\ taskOf'[r] = taskOf[r] /\ ~IsReply(f, r)
      BY <1>0, <2>1, <2>2, <2>3 DEF ClientInv, ClientTypeOK, IsReply
    <3> QED BY <1>2, <2>1, <2>2, <3>1, QueuesKept
  <2>4. CASE q = r
    <3>1. ran[r] = 0 /\ ran'[r] = 1 /\ taskOf'[r] = None /\ ~Untouched(r)
      BY <1>0, <1>1, <2>2, <2>4 DEF CallInv, ClientInv, ClientTypeOK, Untouched
    <3>2. Asked(r) /\ \A d \in Sockets : \A l \in 1..Len(down[d]) : ~IsAsk(down[d][l], r)
      BY <1>1, <3>1 DEF CallInv
    <3> QED BY <1>1, <2>2, <3>1, <3>2 DEF CallInv
  <2> QED BY <2>3, <2>4
<1>5. ASSUME NEW w \in Legs, LegConnects(w) PROVE CallInv(r)'
  BY <1>2, <1>5, QueuesKept DEF LegConnects, linkVars
<1>6. ASSUME NEW w \in Legs, LegRefused(w) \/ EngineCloses(w) PROVE CallInv(r)'
  <2>1. \E c \in Sockets, f \in UpFrames : Added(outq', outq, c, f) /\ ~IsReply(f, r)
    BY <1>6, LegAnswered DEF IsReply
  <2> QED BY <1>2, <1>6, <2>1, QueuesKept DEF LegRefused, EngineCloses, linkVars
<1>7. ASSUME NEW w \in Legs, EngineSends(w) PROVE CallInv(r)'
  <2>1. \E c \in Sockets, f \in UpFrames : Added(outq', outq, c, f) /\ ~IsReply(f, r)
    BY <1>7, MessageSent DEF IsReply, IsMessage
  <2> QED BY <1>2, <1>7, <2>1, QueuesKept DEF EngineSends, linkVars
<1>8. ASSUME NEW c \in Sockets, WriterSends(c) PROVE CallInv(r)'
  <2> DEFINE f == Head(outq[c])
  <2>1. /\ f \in UpFrames /\ f = outq[c][1] /\ 1 \in 1..Len(outq[c])
        /\ Taken(outq', outq) /\ Added(up', up, c, f) /\ UNCHANGED <<down, ran, taskOf>>
    BY <1>8, FrameWritten
  <2>2. IsReply(f, r) => ran[r] = 1
    BY <1>1, <2>1 DEF CallInv
  <2> QED BY <1>2, <2>1, <2>2, QueuesKept
<1>9. ASSUME NEW c \in Sockets, WriterFails(c) PROVE CallInv(r)'
  <2>1. Taken(outq', outq)
    BY <1>0, <1>9, ClearTakes DEF WriterFails, ClientInv
  <2> QED BY <1>2, <1>9, <2>1, QueuesKept DEF WriterFails, linkVars
<1>10. ASSUME NEW c \in Sockets, WriterDone(c) PROVE CallInv(r)'
  BY <1>2, <1>10, QueuesKept DEF WriterDone, linkVars
<1>11. CASE StreamEnds \/ SessionOver
  BY <1>2, <1>11, QueuesKept DEF StreamEnds, EndSession, SessionOver, linkVars
<1> QED BY <1>3, <1>4, <1>5, <1>6, <1>7, <1>8, <1>9, <1>10, <1>11 DEF ClientNext

LEMMA StepKeepsCalls ==
  ASSUME TypesInv, PendingAreUnanswered, CallsInv, [Next]_vars
  PROVE  CallsInv'
<1>0. TypesInv'
  BY StepKeepsTypes
<1>1. ASSUME UNCHANGED <<ran, taskOf, outq>>, Taken(down', down), Taken(up', up), request' = request,
             FailAllPending \/ answer' = answer
      PROVE  CallsInv'
  <2> SUFFICES ASSUME NEW r \in Requests PROVE CallInv(r)'
    BY DEF CallsInv
  <2>1. CallInv(r) /\ (answer[r] = "reply" => ran[r] = 1)
    BY DEF CallsInv, CallInv
  <2>2. (Asked(r)' <=> Asked(r)) /\ (answer'[r] = "reply" => answer[r] = "reply")
    BY <1>1, FailKeepsAsked DEF Asked
  <2> QED BY <1>0, <1>1, <2>1, <2>2, QueuesKept, CallUndisturbed
<1>2. CASE UNCHANGED vars
  BY <1>1, <1>2, QueuesKept DEF vars, linkVars, roomVars, clientVars
<1>3. CASE DesktopFallsSilent \/ RoomFallsSilent
  BY <1>1, <1>3, QueuesKept DEF DesktopFallsSilent, RoomFallsSilent, EndSession, linkVars, roomVars, clientVars
<1>4. ASSUME NEW c \in Sockets, CutLink(c), UNCHANGED <<roomVars, clientVars>> PROVE CallsInv'
  <2>1. Taken(down', down) /\ Taken(up', up)
    BY <1>4, ClearTakes DEF CutLink, TypesInv, LinkInv
  <2> QED BY <1>1, <1>4, <2>1 DEF roomVars, clientVars
<1>5. ASSUME NEW c \in Sockets, Register(c) PROVE CallsInv'
  BY <1>1, <1>5, QueuesKept DEF Register, Dial, HandleDesktopRegister
<1> QED BY <1>0, <1>2, <1>3, <1>4, <1>5, RoomKeepsCalls, ClientKeepsCalls DEF Next, RoomDoes, ClientDoes

LEMMA CallsAlways == Spec => [](TypesInv /\ PendingAreUnanswered /\ CallsInv)
<1>1. ASSUME Init PROVE CallsInv
  <2>1. \A c \in Sockets : down[c] = <<>> /\ up[c] = <<>> /\ outq[c] = <<>>
    BY <1>1 DEF Init, LinkInit, ClientInit
  <2>2. \A c \in Sockets : Len(down[c]) = 0 /\ Len(up[c]) = 0 /\ Len(outq[c]) = 0
    BY <2>1, EmptySeq
  <2>3. None # "reply"
    BY AnswerAssumption DEF Answers
  <2>4. \A r \in Requests : ran[r] = 0 /\ taskOf[r] = None /\ answer[r] = None
    BY <1>1 DEF Init, RoomInit, ClientInit
  <2> QED BY <2>2, <2>3, <2>4 DEF CallsInv, CallInv, Untouched
<1>2. Init => TypesInv /\ PendingAreUnanswered
  BY InitHasTypes DEF Init, RoomInit, PendingAreUnanswered
<1>3. TypesInv /\ PendingAreUnanswered /\ CallsInv /\ [Next]_vars
        => (TypesInv /\ PendingAreUnanswered /\ CallsInv)'
  BY StepKeepsTypes, StepKeepsPending, StepKeepsCalls
<1> QED BY <1>1, <1>2, <1>3, PTL DEF Spec

(* A call that was refused was never taken up for the engine, one that got a
   reply was, and none is taken up twice, however often sockets are cut,
   replaced and dialed again. *)
THEOREM AnswersAreTrue == Spec => []AnswersTellTheTruth
<1>1. CallsInv => AnswersTellTheTruth
  BY DEF CallsInv, CallInv, Asked, Untouched, AnswersTellTheTruth
<1> QED BY <1>1, CallsAlways, PTL
-----------------------------------------------------------------------------
(* The opening of a leg is kept by a step that neither asks for it nor does it. *)
LEMMA OpeningKept ==
  ASSUME TypesInv, NEW w \in Legs, OpeningInv(w),
         NEW c, NEW f, Moved(down', down, c, f), ~IsOpen(f, w),
         legOf'[w] = legOf[w], session' = session \/ session' = session + 1,
         phone'[w] = "none" <=> phone[w] = "none"
  PROVE  OpeningInv(w)'
<1>1. session \in Nat /\ (legOf[w] # None => legOf[w] \in 1..session)
  BY LinkAssumption DEF TypesInv, ClientInv, ClientTypeOK, Sockets, LinkAssumption, OpeningInv
<1>2. legOf'[w] # None => legOf'[w] \in 1..session'
  BY <1>1
<1>3. ASSUME NEW x \in Sockets, NEW k \in 1..Len(down'[x]), IsOpen(down'[x][k], w)
      PROVE  /\ legOf'[w] = None /\ phone'[w] # "none"
             /\ \A y \in Sockets : \A l \in 1..Len(down'[y]) : IsOpen(down'[y][l], w) => y = x /\ l = k
  <2>1. PICK m \in Nat : \A i \in 1..Len(down'[x]) :
          \/ i + m \in 1..Len(down[x]) /\ down'[x][i] = down[x][i + m]
          \/ x = c /\ i = Len(down'[x]) /\ down'[x][i] = f
    BY DEF Moved
  <2>2. k + m \in 1..Len(down[x]) /\ IsOpen(down[x][k + m], w)
    BY <1>3, <2>1
  <2>3. /\ legOf[w] = None /\ phone[w] # "none"
        /\ \A y \in Sockets : \A l \in 1..Len(down[y]) : IsOpen(down[y][l], w) => y = x /\ l = k + m
    BY <2>2 DEF OpeningInv
  <2>4. ASSUME NEW y \in Sockets, NEW l \in 1..Len(down'[y]), IsOpen(down'[y][l], w)
        PROVE  y = x /\ l = k
    <3>1. PICK n \in Nat : \A i \in 1..Len(down'[y]) :
            \/ i + n \in 1..Len(down[y]) /\ down'[y][i] = down[y][i + n]
            \/ y = c /\ i = Len(down'[y]) /\ down'[y][i] = f
      BY DEF Moved
    <3>2. y = x
      BY <2>3, <2>4, <3>1
    <3>3. l + m \in 1..Len(down[x]) /\ IsOpen(down[x][l + m], w)
      BY <2>1, <2>4, <3>2
    <3>4. l + m = k + m
      BY <2>3, <3>3
    <3> QED BY <3>2, <3>4
  <2> QED BY <2>3, <2>4
<1> QED BY <1>2, <1>3 DEF OpeningInv

LEMMA OpeningUndisturbed ==
  ASSUME TypesInv, TypesInv', NEW w \in Legs, OpeningInv(w),
         Taken(down', down) \/ \E c \in Sockets \cup {None}, f \in DownFrames : Added(down', down, c, f) /\ ~IsOpen(f, w),
         legOf'[w] = legOf[w], session' = session \/ session' = session + 1,
         phone'[w] = "none" <=> phone[w] = "none"
  PROVE  OpeningInv(w)'
<1>0. down \in [Sockets -> Seq(DownFrames)] /\ down' \in [Sockets -> Seq(DownFrames)]
  BY DEF TypesInv, LinkInv
<1>1. ~IsOpen(Nil, w)
  BY DEF Nil, Frame, IsOpen
<1>2. \E c, f : Moved(down', down, c, f) /\ ~IsOpen(f, w)
  BY <1>0, <1>1, TakenMoves, AddedMoves
<1> QED BY <1>2, OpeningKept

(* The frames that the room's handlers send to the desktop. *)
LEMMA RoomSends ==
  ASSUME TypesInv, RoomNext
  PROVE  /\ \/ down' = down
            \/ \E f \in DownFrames : /\ Added(down', down, desktop, f)
                                     /\ \A w \in Legs : IsOpen(f, w) => PhoneOpens(w)
                                     /\ \A w \in Legs : IsMessage(f, w) => PhoneSends(w) /\ f.n = phoneSent[w] + 1
         /\ \A w \in Legs : phoneSent'[w] = phoneSent[w] \/ (PhoneSends(w) /\ phoneSent'[w] = phoneSent[w] + 1)
         /\ \A w \in Legs : (phone'[w] = "none" <=> phone[w] = "none") \/ PhoneOpens(w)
<1>0. RoomTypeOK /\ phoneSent \in [Legs -> 0..MaxMessages]
  BY DEF TypesInv, RoomTypeOK
<1>1. ASSUME NEW q \in Requests, Forward(q)
      PROVE  /\ \E f \in DownFrames : /\ Added(down', down, desktop, f)
                                      /\ \A w \in Legs : ~IsOpen(f, w) /\ ~IsMessage(f, w)
             /\ UNCHANGED <<phone, phoneSent>>
  <2> DEFINE f == Frame(IF q \in HttpRequests THEN "http_request" ELSE "pair_request", q, 0)
  <2>1. f \in DownFrames /\ f.kind \in {"http_request", "pair_request"} /\ SendToDesktop(f)
    BY <1>1, FramesMade DEF Frame, Forward
  <2> HIDE DEF f
  <2>2. Added(down', down, desktop, f) /\ \A w \in Legs : ~IsOpen(f, w) /\ ~IsMessage(f, w)
    BY <2>1, SentDown DEF IsOpen, IsMessage
  <2> QED BY <1>1, <2>1, <2>2 DEF Forward
<1>2. ASSUME NEW v \in Legs, PhoneOpens(v)
      PROVE  /\ \/ down' = down
                \/ \E f \in DownFrames : /\ Added(down', down, desktop, f)
                                         /\ \A w \in Legs : (IsOpen(f, w) => w = v) /\ ~IsMessage(f, w)
             /\ phoneSent' = phoneSent /\ \A w \in Legs : w # v => phone'[w] = phone[w]
  <2> DEFINE f == Frame("ws_open", v, 0)
  <2>1. f \in DownFrames /\ f.kind = "ws_open" /\ f.id = v /\ (down' = down \/ SendToDesktop(f))
    BY <1>2, FramesMade DEF Frame, PhoneOpens
  <2> HIDE DEF f
  <2>2. SendToDesktop(f) =>
          Added(down', down, desktop, f) /\ \A w \in Legs : (IsOpen(f, w) => w = v) /\ ~IsMessage(f, w)
    BY <2>1, SentDown DEF IsOpen, IsMessage
  <2>3. phoneSent' = phoneSent /\ \A w \in Legs : w # v => phone'[w] = phone[w]
    BY <1>0, <1>2 DEF PhoneOpens, RoomTypeOK
  <2> QED BY <2>1, <2>2, <2>3
<1>3. ASSUME NEW v \in Legs, PhoneSends(v)
      PROVE  /\ \E f \in DownFrames :
                  /\ Added(down', down, desktop, f)
                  /\ \A w \in Legs : ~IsOpen(f, w) /\ (IsMessage(f, w) => w = v /\ f.n = phoneSent[v] + 1)
             /\ phone' = phone /\ phoneSent'[v] = phoneSent[v] + 1
             /\ \A w \in Legs : w # v => phoneSent'[w] = phoneSent[w]
  <2> DEFINE f == Frame("ws_message", v, phoneSent[v] + 1)
  <2>1. phoneSent[v] + 1 \in 1..MaxMessages /\ phoneSent' = [phoneSent EXCEPT ![v] = phoneSent[v] + 1]
    BY <1>0, <1>3, LinkAssumption DEF PhoneSends, LinkAssumption
  <2>2. f \in DownFrames /\ f.kind = "ws_message" /\ f.id = v /\ f.n = phoneSent[v] + 1 /\ SendToDesktop(f)
    BY <1>3, <2>1, FramesMade DEF Frame, PhoneSends
  <2> HIDE DEF f
  <2>3. Added(down', down, desktop, f) /\ \A w \in Legs : ~IsOpen(f, w) /\ (IsMessage(f, w) => w = v)
    BY <2>2, SentDown DEF IsOpen, IsMessage
  <2>4. phone' = phone /\ phoneSent'[v] = phoneSent[v] + 1 /\ \A w \in Legs : w # v => phoneSent'[w] = phoneSent[w]
    BY <1>0, <1>3, <2>1 DEF PhoneSends
  <2> QED BY <2>2, <2>3, <2>4
<1>4. ASSUME NEW v \in Legs, PhoneCloses(v)
      PROVE  /\ \E f \in DownFrames : /\ Added(down', down, desktop, f)
                                      /\ \A w \in Legs : ~IsOpen(f, w) /\ ~IsMessage(f, w)
             /\ phoneSent' = phoneSent /\ \A w \in Legs : phone'[w] = "none" <=> phone[w] = "none"
  <2> DEFINE f == Frame("ws_close", v, 0)
  <2>1. f \in DownFrames /\ f.kind = "ws_close" /\ SendToDesktop(f)
    BY <1>4, FramesMade DEF Frame, PhoneCloses
  <2> HIDE DEF f
  <2>2. Added(down', down, desktop, f) /\ \A w \in Legs : ~IsOpen(f, w) /\ ~IsMessage(f, w)
    BY <2>1, SentDown DEF IsOpen, IsMessage
  <2>3. phoneSent' = phoneSent /\ \A w \in Legs : phone'[w] = "none" <=> phone[w] = "none"
    BY <1>0, <1>4 DEF PhoneCloses, RoomTypeOK
  <2> QED BY <2>1, <2>2, <2>3
<1>5. ASSUME NEW q \in Requests, Arrive(q) \/ PairWithoutCode(q) \/ TimeOut(q)
      PROVE  UNCHANGED <<down, phone, phoneSent>>
  BY <1>5 DEF Arrive, PairWithoutCode, TimeOut, linkVars
<1>6. ASSUME NEW S, phone' = Closing(S)
      PROVE  \A w \in Legs : phone'[w] = "none" <=> phone[w] = "none"
  BY <1>6 DEF Closing
<1>7. ASSUME Watchdog \/ AlarmWithoutDesktop \/ Hibernate \/ \E c \in Sockets : DesktopSocketCloses(c)
      PROVE  UNCHANGED <<down, phoneSent>> /\ \A w \in Legs : phone'[w] = "none" <=> phone[w] = "none"
  BY <1>6, <1>7 DEF Watchdog, AlarmWithoutDesktop, Hibernate, DesktopSocketCloses, OnDesktopClose, linkVars
<1>8. ASSUME NEW c \in Sockets, OnDesktopMessage(c)
      PROVE  UNCHANGED <<down, phoneSent>> /\ \A w \in Legs : phone'[w] = "none" <=> phone[w] = "none"
  BY <1>6, <1>8, MessageRead DEF Resolve, DeliverToPhone, ClosePhone
<1>9. CASE \E q \in Requests : Forward(q)
  BY <1>1, <1>9
<1>10. CASE \E v \in Legs : PhoneOpens(v)
  BY <1>2, <1>10
<1>11. CASE \E v \in Legs : PhoneSends(v)
  BY <1>3, <1>11
<1>12. CASE \E v \in Legs : PhoneCloses(v)
  BY <1>4, <1>12
<1> QED BY <1>5, <1>7, <1>8, <1>9, <1>10, <1>11, <1>12 DEF RoomNext

LEMMA RoomKeepsOpening ==
  ASSUME TypesInv, TypesInv', UNCHANGED clientVars, RoomNext, NEW w \in Legs, OpeningInv(w)
  PROVE  OpeningInv(w)'
<1>0. legOf' = legOf /\ session' = session /\ desktop \in Sockets \cup {None}
  BY DEF clientVars, TypesInv, RoomTypeOK
<1>1. \/ down' = down
      \/ \E f \in DownFrames : Added(down', down, desktop, f) /\ (IsOpen(f, w) => PhoneOpens(w))
  BY RoomSends
<1>2. CASE ~PhoneOpens(w)
  <2>1. phone'[w] = "none" <=> phone[w] = "none"
    BY <1>2, RoomSends
  <2> QED BY <1>0, <1>1, <1>2, <2>1, QueuesKept, OpeningUndisturbed
<1>3. CASE PhoneOpens(w)
  <2>1. phone[w] = "none" /\ phone'[w] # "none" /\ legOf[w] = None
    BY <1>3 DEF PhoneOpens, OpeningInv, TypesInv, RoomTypeOK
  <2>2. \A c \in Sockets : \A k \in 1..Len(down[c]) : ~IsOpen(down[c][k], w)
    BY <2>1 DEF OpeningInv
  <2>3. \A c \in Sockets : Len(down[c]) \in Nat /\ Len(down'[c]) \in Nat
    BY LenProperties DEF TypesInv, LinkInv
  <2>4. ASSUME NEW c \in Sockets, NEW k \in 1..Len(down'[c]), IsOpen(down'[c][k], w)
        PROVE  c = desktop /\ k = Len(down'[c])
    <3>1. CASE down'[c] = down[c]
      BY <2>2, <2>4, <3>1
    <3>2. CASE /\ c = desktop /\ Len(down'[c]) = Len(down[c]) + 1
               /\ \A i \in 1..Len(down[c]) : down'[c][i] = down[c][i]
      BY <2>2, <2>3, <2>4, <3>2
    <3> QED BY <1>1, <3>1, <3>2 DEF Added
  <2> QED BY <1>0, <2>1, <2>4 DEF OpeningInv
<1> QED BY <1>2, <1>3

(* What the client does to a leg's own state, and to the frames of the room. *)
LEMMA ClientReads ==
  ASSUME TypesInv, ClientNext
  PROVE  /\ down' = down \/ \E c \in Sockets : Dispatch(c)
         /\ session' = session
         /\ (\E c \in Sockets : Dispatch(c)) \/ UNCHANGED <<legOf, engineGot>>
<1>1. ASSUME NEW c \in Sockets, WriterSends(c) \/ WriterFails(c) \/ WriterDone(c)
      PROVE  UNCHANGED <<down, session, legOf, engineGot>>
  BY <1>1 DEF WriterSends, WriterFails, WriterDone, linkVars
<1>2. ASSUME StreamEnds \/ SessionOver
      PROVE  UNCHANGED <<down, session, legOf, engineGot>>
  BY <1>2 DEF StreamEnds, EndSession, SessionOver, linkVars
<1>3. ASSUME NEW r \in Requests, RunCall(r)
      PROVE  UNCHANGED <<down, session, legOf, engineGot>>
  BY <1>3 DEF RunCall, linkVars
<1>4. ASSUME NEW w \in Legs, LegConnects(w) \/ LegRefused(w) \/ EngineSends(w) \/ EngineCloses(w)
      PROVE  UNCHANGED <<down, session, legOf, engineGot>>
  BY <1>4 DEF LegConnects, LegRefused, EngineSends, EngineCloses, linkVars
<1>5. ASSUME NEW c \in Sockets, Dispatch(c)
      PROVE  session' = session
  BY <1>5, FrameRead
<1> QED BY <1>1, <1>2, <1>3, <1>4, <1>5 DEF ClientNext

LEMMA DispatchKeepsOpening ==
  ASSUME TypesInv, TypesInv', UNCHANGED roomVars, NEW c \in Sockets, Dispatch(c),
         NEW w \in Legs, OpeningInv(w)
  PROVE  OpeningInv(w)'
<1> DEFINE f == Head(down[c])
<1>1. /\ f = down[c][1] /\ 1 \in 1..Len(down[c]) /\ down' = [down EXCEPT ![c] = Tail(@)]
      /\ Taken(down', down) /\ session' = session /\ c = session /\ phone' = phone
  BY FrameRead DEF roomVars
<1>2. legOf \in [Legs -> Sockets \cup {None}]
  BY DEF TypesInv, ClientInv, ClientTypeOK
<1>3. ASSUME legOf'[w] = legOf[w] PROVE OpeningInv(w)'
  BY <1>1, <1>3, OpeningUndisturbed
<1>4. CASE f.kind = "ws_open" /\ WsOpen(c, f.id)
  <2>1. legOf' = [legOf EXCEPT ![f.id] = c]
    BY <1>4 DEF WsOpen
  <2>2. CASE f.id # w
    BY <1>2, <1>3, <2>1, <2>2
  <2>3. CASE f.id = w
    <3>1. /\ phone[w] # "none"
          /\ \A d \in Sockets : \A l \in 1..Len(down[d]) : IsOpen(down[d][l], w) => d = c /\ l = 1
      BY <1>1, <1>4, <2>3 DEF OpeningInv, IsOpen
    <3>2. \A d \in Sockets : \A l \in 1..Len(down'[d]) : ~IsOpen(down'[d][l], w)
      <4>1. down \in [Sockets -> Seq(DownFrames)] /\ down[c] # <<>>
        BY DEF Dispatch, TypesInv, LinkInv
      <4>2. /\ Len(down'[c]) = Len(down[c]) - 1 /\ Len(down[c]) \in Nat
            /\ \A k \in 1..Len(down[c]) - 1 : down'[c][k] = down[c][k + 1]
            /\ \A d \in Sockets : d # c => down'[d] = down[d]
        BY <1>1, <4>1, TailTakes, LenProperties
      <4> QED BY <3>1, <4>2
    <3>3. legOf'[w] \in 1..session' /\ phone'[w] # "none"
      BY <1>1, <1>2, <2>1, <2>3, <3>1, LinkAssumption DEF Sockets, LinkAssumption
    <3> QED BY <3>2, <3>3 DEF OpeningInv
  <2> QED BY <2>2, <2>3
<1>5. CASE legOf' = legOf
  BY <1>3, <1>5
<1> QED BY <1>4, <1>5, FrameRead DEF StartCall, ForwardC2s, CloseLeg

(* The steps of neither side's own handlers. *)
LEMMA OtherSteps ==
  ASSUME TypesInv, [Next]_vars, ~(RoomNext /\ UNCHANGED clientVars), ~(ClientNext /\ UNCHANGED roomVars)
  PROVE  /\ Taken(down', down) /\ Taken(up', up) /\ outq' = outq
         /\ session' = session \/ session' = session + 1
         /\ UNCHANGED <<phone, phoneSent, phoneGot, legOf, engineSent, engineGot, leg>>
<1>1. CASE UNCHANGED vars
  BY <1>1, QueuesKept DEF vars, linkVars, roomVars, clientVars
<1>2. CASE DesktopFallsSilent \/ RoomFallsSilent
  BY <1>2, QueuesKept DEF DesktopFallsSilent, RoomFallsSilent, EndSession, linkVars, roomVars, clientVars
<1>3. ASSUME NEW c \in Sockets, Register(c)
      PROVE  /\ UNCHANGED <<down, up, outq, phone, phoneSent, phoneGot, legOf, engineSent, engineGot, leg>>
             /\ session' = session + 1
  BY <1>3 DEF Register, Dial, HandleDesktopRegister
<1>4. ASSUME NEW c \in Sockets, CutLink(c), UNCHANGED <<roomVars, clientVars>>
      PROVE  /\ Taken(down', down) /\ Taken(up', up) /\ outq' = outq /\ session' = session
             /\ UNCHANGED <<phone, phoneSent, phoneGot, legOf, engineSent, engineGot, leg>>
  BY <1>4, ClearTakes DEF CutLink, TypesInv, LinkInv, roomVars, clientVars
<1> QED BY <1>1, <1>2, <1>3, <1>4, QueuesKept DEF Next, RoomDoes, ClientDoes

LEMMA StepKeepsOpening ==
  ASSUME TypesInv, [Next]_vars, NEW w \in Legs, OpeningInv(w)
  PROVE  OpeningInv(w)'
<1>0. TypesInv'
  BY StepKeepsTypes
<1>1. CASE RoomNext /\ UNCHANGED clientVars
  BY <1>0, <1>1, RoomKeepsOpening
<1>2. CASE ClientNext /\ UNCHANGED roomVars
  <2>1. CASE \E c \in Sockets : Dispatch(c)
    BY <1>0, <1>2, <2>1, DispatchKeepsOpening
  <2>2. CASE UNCHANGED <<down, legOf, engineGot>>
    BY <1>0, <1>2, <2>2, ClientReads, QueuesKept, OpeningUndisturbed DEF roomVars
  <2> QED BY <1>2, <2>1, <2>2, ClientReads
<1>3. CASE ~(RoomNext /\ UNCHANGED clientVars) /\ ~(ClientNext /\ UNCHANGED roomVars)
  BY <1>0, <1>3, OtherSteps, OpeningUndisturbed
<1> QED BY <1>1, <1>2, <1>3
-----------------------------------------------------------------------------
(* From the phone to the engine. *)
LEMMA DownTyped ==
  ASSUME TypesInv, NEW w \in Legs
  PROVE  /\ \A c \in Sockets : \A k \in 1..Len(down[c]) : down[c][k].n \in Nat
         /\ \A c \in Sockets : Len(down[c]) \in Nat
         /\ phoneSent[w] \in Nat /\ engineGot[w] \in Seq(1..MaxMessages) /\ Len(engineGot[w]) \in Nat
         /\ \A j \in 1..Len(engineGot[w]) : engineGot[w][j] \in Nat
         /\ MaxMessages \in Nat
<1>0. MaxMessages \in Nat
  BY LinkAssumption DEF LinkAssumption
<1>1. \A f \in DownFrames : f.n \in Nat
  BY <1>0 DEF DownFrames, Frames
<1>2. \A c \in Sockets : \A k \in 1..Len(down[c]) : down[c][k] \in DownFrames
  BY ElementOfSeq DEF TypesInv, LinkInv
<1>3. \A c \in Sockets : Len(down[c]) \in Nat
  BY LenProperties DEF TypesInv, LinkInv
<1>4. phoneSent[w] \in Nat /\ engineGot[w] \in Seq(1..MaxMessages)
  BY <1>0 DEF TypesInv, RoomTypeOK, ClientInv, ClientTypeOK
<1>5. Len(engineGot[w]) \in Nat /\ \A j \in 1..Len(engineGot[w]) : engineGot[w][j] \in 1..MaxMessages
  BY <1>4, LenProperties, ElementOfSeq
<1> QED BY <1>0, <1>1, <1>2, <1>3, <1>4, <1>5

LEMMA DownOrderKept ==
  ASSUME TypesInv, TypesInv', NEW w \in Legs, DownOrder(w),
         NEW c, NEW f, Moved(down', down, c, f),
         IsMessage(f, w) => f.n = phoneSent'[w] /\ phoneSent[w] < phoneSent'[w],
         phoneSent[w] <= phoneSent'[w], legOf'[w] = legOf[w], engineGot'[w] = engineGot[w]
  PROVE  DownOrder(w)'
<1>0. /\ \A x \in Sockets : \A k \in 1..Len(down[x]) : down[x][k].n \in Nat
      /\ \A x \in Sockets : Len(down[x]) \in Nat /\ Len(down'[x]) \in Nat
      /\ phoneSent[w] \in Nat /\ phoneSent'[w] \in Nat
      /\ \A j \in 1..Len(engineGot[w]) : engineGot[w][j] \in Nat
  BY DownTyped, LenProperties DEF TypesInv, LinkInv, RoomTypeOK
<1>1. ASSUME NEW x \in Sockets, NEW k \in 1..Len(down'[x]), IsMessage(down'[x][k], w)
      PROVE  /\ down'[x][k].n <= phoneSent'[w]
             /\ \A l \in 1..Len(down'[x]) :
                  IsMessage(down'[x][l], w) /\ k < l => down'[x][k].n < down'[x][l].n
             /\ x = legOf[w] => \A j \in 1..Len(engineGot[w]) : engineGot[w][j] < down'[x][k].n
  <2>1. PICK m \in Nat : \A i \in 1..Len(down'[x]) :
          \/ i + m \in 1..Len(down[x]) /\ down'[x][i] = down[x][i + m]
          \/ x = c /\ i = Len(down'[x]) /\ down'[x][i] = f
    BY DEF Moved
  <2>2. CASE k + m \in 1..Len(down[x]) /\ down'[x][k] = down[x][k + m]
    <3> DEFINE n == down[x][k + m].n
    <3>1. /\ n <= phoneSent[w] /\ n \in Nat
          /\ \A l \in 1..Len(down[x]) : IsMessage(down[x][l], w) /\ k + m < l => n < down[x][l].n
          /\ x = legOf[w] => \A j \in 1..Len(engineGot[w]) : engineGot[w][j] < n
      BY <1>0, <1>1, <2>2 DEF DownOrder
    <3>2. down'[x][k].n = n
      BY <2>2
    <3> HIDE DEF n
    <3>3. ASSUME NEW l \in 1..Len(down'[x]), IsMessage(down'[x][l], w), k < l
          PROVE  n < down'[x][l].n
      <4>1. CASE l + m \in 1..Len(down[x]) /\ down'[x][l] = down[x][l + m]
        BY <3>1, <3>3, <4>1
      <4>2. CASE down'[x][l] = f
        BY <1>0, <3>1, <3>3, <4>2
      <4> QED BY <2>1, <4>1, <4>2
    <3> QED BY <1>0, <3>1, <3>2, <3>3
  <2>3. CASE x = c /\ k = Len(down'[x]) /\ down'[x][k] = f
    <3>1. f.n = phoneSent'[w] /\ phoneSent[w] < phoneSent'[w]
      BY <1>1, <2>3
    <3>2. \A j \in 1..Len(engineGot[w]) : engineGot[w][j] <= phoneSent[w]
      BY DEF DownOrder
    <3> QED BY <1>0, <2>3, <3>1, <3>2
  <2> QED BY <2>1, <2>2, <2>3
<1>2. \A j \in 1..Len(engineGot[w]) : engineGot[w][j] <= phoneSent'[w]
  BY <1>0 DEF DownOrder
<1> QED BY <1>1, <1>2 DEF DownOrder

LEMMA DownOrderUndisturbed ==
  ASSUME TypesInv, TypesInv', NEW w \in Legs, DownOrder(w), Taken(down', down),
         UNCHANGED <<legOf, engineGot, phoneSent>>
  PROVE  DownOrder(w)'
<1>1. ~IsMessage(Nil, w) /\ phoneSent[w] <= phoneSent[w]
  BY DownTyped DEF Nil, Frame, IsMessage
<1>2. Moved(down', down, None, Nil)
  BY TakenMoves DEF TypesInv, LinkInv
<1> QED BY <1>1, <1>2, DownOrderKept

LEMMA RoomKeepsDownOrder ==
  ASSUME TypesInv, TypesInv', UNCHANGED clientVars, RoomNext, NEW w \in Legs, DownOrder(w)
  PROVE  DownOrder(w)'
<1>0. legOf' = legOf /\ engineGot' = engineGot /\ phoneSent[w] \in Nat
  BY DownTyped DEF clientVars
<1>1. down \in [Sockets -> Seq(DownFrames)] /\ down' \in [Sockets -> Seq(DownFrames)]
  BY DEF TypesInv, LinkInv
<1>2. phoneSent[w] <= phoneSent'[w] /\ (PhoneSends(w) => phoneSent'[w] = phoneSent[w] + 1)
  <2>1. PhoneSends(w) => phoneSent'[w] = phoneSent[w] + 1
    BY <1>0 DEF PhoneSends, TypesInv, RoomTypeOK
  <2> QED BY <1>0, <2>1, RoomSends
<1>3. \E c, f : /\ Moved(down', down, c, f)
                /\ IsMessage(f, w) => f.n = phoneSent'[w] /\ phoneSent[w] < phoneSent'[w]
  <2>1. CASE down' = down
    <3>1. ~IsMessage(Nil, w)
      BY DEF Nil, Frame, IsMessage
    <3> QED BY <1>1, <2>1, <3>1, KeptMoves
  <2>2. CASE down' # down
    <3>1. PICK f \in DownFrames : /\ Added(down', down, desktop, f)
                                  /\ IsMessage(f, w) => PhoneSends(w) /\ f.n = phoneSent[w] + 1
      BY <2>2, RoomSends
    <3>2. Moved(down', down, desktop, f)
      BY <1>1, <3>1, AddedMoves
    <3>3. IsMessage(f, w) => f.n = phoneSent'[w] /\ phoneSent[w] < phoneSent'[w]
      BY <1>0, <1>2, <3>1
    <3> QED BY <3>2, <3>3
  <2> QED BY <2>1, <2>2
<1> QED BY <1>0, <1>2, <1>3, DownOrderKept

LEMMA DispatchKeepsDownOrder ==
  ASSUME TypesInv, TypesInv', UNCHANGED roomVars, NEW c \in Sockets, Dispatch(c),
         NEW w \in Legs, OpeningInv(w), DownOrder(w)
  PROVE  DownOrder(w)'
<1> DEFINE f == Head(down[c])
<1>1. /\ f = down[c][1] /\ 1 \in 1..Len(down[c]) /\ down' = [down EXCEPT ![c] = Tail(@)]
      /\ Taken(down', down) /\ phoneSent' = phoneSent
  BY FrameRead DEF roomVars
<1>2. legOf \in [Legs -> Sockets \cup {None}] /\ engineGot \in [Legs -> Seq(1..MaxMessages)]
  BY DEF TypesInv, ClientInv, ClientTypeOK
<1>3. Moved(down', down, None, Nil) /\ ~IsMessage(Nil, w) /\ phoneSent[w] <= phoneSent'[w]
  <2>1. Moved(down', down, None, Nil)
    BY <1>1, TakenMoves DEF TypesInv, LinkInv
  <2>2. ~IsMessage(Nil, w)
    BY DEF Nil, Frame, IsMessage
  <2>3. phoneSent[w] <= phoneSent'[w]
    BY <1>1, DownTyped
  <2> QED BY <2>1, <2>2, <2>3
<1>4. ASSUME legOf'[w] = legOf[w], engineGot'[w] = engineGot[w] PROVE DownOrder(w)'
  BY <1>3, <1>4, DownOrderKept
<1>5. CASE f.kind = "ws_open" /\ WsOpen(c, f.id)
  <2>1. legOf' = [legOf EXCEPT ![f.id] = c] /\ engineGot' = engineGot
    BY <1>5 DEF WsOpen
  <2>2. CASE f.id # w
    BY <1>2, <1>4, <2>1, <2>2
  <2>3. CASE f.id = w
    <3>1. engineGot[w] = <<>> /\ Len(engineGot[w]) = 0
      BY <1>1, <1>5, <2>3, EmptySeq DEF OpeningInv, IsOpen, DownOrder
    <3>2. /\ \A x \in Sockets : \A k \in 1..Len(down'[x]) : IsMessage(down'[x][k], w) =>
               /\ down'[x][k].n <= phoneSent'[w]
               /\ \A l \in 1..Len(down'[x]) :
                    IsMessage(down'[x][l], w) /\ k < l => down'[x][k].n < down'[x][l].n
      <4> SUFFICES ASSUME NEW x \in Sockets, NEW k \in 1..Len(down'[x]), IsMessage(down'[x][k], w)
                   PROVE  /\ down'[x][k].n <= phoneSent'[w]
                          /\ \A l \in 1..Len(down'[x]) :
                               IsMessage(down'[x][l], w) /\ k < l => down'[x][k].n < down'[x][l].n
        OBVIOUS
      <4>1. PICK m \in Nat : /\ Len(down[x]) = Len(down'[x]) + m
                             /\ \A i \in 1..Len(down'[x]) : down'[x][i] = down[x][i + m]
        BY <1>1 DEF Taken
      <4>2. \A i \in 1..Len(down'[x]) : i + m \in 1..Len(down[x])
        BY <4>1, DownTyped
      <4>3. /\ down[x][k + m].n <= phoneSent[w]
            /\ \A l \in 1..Len(down[x]) :
                 IsMessage(down[x][l], w) /\ k + m < l => down[x][k + m].n < down[x][l].n
        BY <4>1, <4>2 DEF DownOrder
      <4>4. Len(down'[x]) \in Nat
        BY LenProperties DEF TypesInv, LinkInv
      <4>5. ASSUME NEW l \in 1..Len(down'[x]), IsMessage(down'[x][l], w), k < l
            PROVE  down[x][k + m].n < down'[x][l].n
        <5>1. l + m \in 1..Len(down[x]) /\ down'[x][l] = down[x][l + m] /\ k + m < l + m
          BY <4>1, <4>2, <4>4, <4>5
        <5> QED BY <4>3, <4>5, <5>1
      <4> QED BY <1>1, <4>1, <4>3, <4>5
    <3> QED BY <2>1, <3>1, <3>2 DEF DownOrder
  <2> QED BY <2>2, <2>3
<1>6. CASE f.kind = "ws_message" /\ f.id \in Legs /\ f.n \in 1..MaxMessages /\ ForwardC2s(c, f.id, f.n)
  <2>1. legOf' = legOf
    BY <1>6 DEF ForwardC2s
  <2>2. CASE engineGot'[w] = engineGot[w]
    BY <1>4, <2>1, <2>2
  <2>3. CASE engineGot'[w] # engineGot[w]
    <3> DEFINE s == engineGot[w]
               n == f.n
    <3>1. f.id = w /\ legOf[w] = c /\ engineGot'[w] = Append(s, n) /\ IsMessage(f, w)
      BY <1>2, <1>6, <2>3 DEF ForwardC2s, LegsOf, IsMessage
    <3>2. s \in Seq(1..MaxMessages) /\ n \in 1..MaxMessages /\ MaxMessages \in Nat
      BY <1>2, <1>6, DownTyped
    <3>3. /\ n <= phoneSent[w]
          /\ \A l \in 1..Len(down[c]) : IsMessage(down[c][l], w) /\ 1 < l => n < down[c][l].n
          /\ \A j \in 1..Len(s) : s[j] < n
      BY <1>1, <3>1 DEF DownOrder
    <3>4. /\ Len(Append(s, n)) = Len(s) + 1 /\ Append(s, n)[Len(s) + 1] = n
          /\ \A j \in 1..Len(s) : Append(s, n)[j] = s[j]
          /\ Len(s) \in Nat
      BY <3>2
    <3>5. /\ Len(down'[c]) = Len(down[c]) - 1 /\ Len(down[c]) \in Nat
          /\ \A k \in 1..Len(down[c]) - 1 : down'[c][k] = down[c][k + 1]
          /\ \A d \in Sockets : d # c => down'[d] = down[d]
      <4>1. down \in [Sockets -> Seq(DownFrames)] /\ down[c] # <<>>
        BY DEF Dispatch, TypesInv, LinkInv
      <4> QED BY <1>1, <4>1, TailTakes, LenProperties
    <3>6. \A j \in 1..Len(s) : s[j] <= phoneSent[w] /\ \A i \in 1..Len(s) : i < j => s[i] < s[j]
      BY DEF DownOrder
    <3> HIDE DEF s, n, f
    <3>7. /\ \A j \in 1..Len(engineGot'[w]) : engineGot'[w][j] <= phoneSent'[w]
          /\ \A i, j \in 1..Len(engineGot'[w]) : i < j => engineGot'[w][i] < engineGot'[w][j]
      BY <1>1, <3>1, <3>3, <3>4, <3>6
    <3>8. ASSUME NEW x \in Sockets, NEW k \in 1..Len(down'[x]), IsMessage(down'[x][k], w)
          PROVE  /\ down'[x][k].n <= phoneSent'[w]
                 /\ \A l \in 1..Len(down'[x]) :
                      IsMessage(down'[x][l], w) /\ k < l => down'[x][k].n < down'[x][l].n
                 /\ x = legOf'[w] => \A j \in 1..Len(engineGot'[w]) : engineGot'[w][j] < down'[x][k].n
      <4>1. CASE x # c
        BY <1>1, <2>1, <3>1, <3>5, <3>8, <4>1 DEF DownOrder
      <4>2. CASE x = c
        <5>1. k + 1 \in 1..Len(down[c]) /\ down'[c][k] = down[c][k + 1] /\ IsMessage(down[c][k + 1], w)
          BY <3>5, <3>8, <4>2
        <5>2. /\ down[c][k + 1].n <= phoneSent[w] /\ n < down[c][k + 1].n
              /\ \A l \in 1..Len(down[c]) :
                   IsMessage(down[c][l], w) /\ k + 1 < l => down[c][k + 1].n < down[c][l].n
              /\ \A j \in 1..Len(s) : s[j] < down[c][k + 1].n
          BY <3>1, <3>3, <5>1 DEF DownOrder, s
        <5>3. \A j \in 1..Len(engineGot'[w]) : engineGot'[w][j] < down'[c][k].n
          BY <3>1, <3>4, <5>1, <5>2
        <5>4. \A l \in 1..Len(down'[c]) :
                IsMessage(down'[c][l], w) /\ k < l => down'[c][k].n < down'[c][l].n
          <6> SUFFICES ASSUME NEW l \in 1..Len(down'[c]), IsMessage(down'[c][l], w), k < l
                       PROVE  down'[c][k].n < down'[c][l].n
            OBVIOUS
          <6>1. l + 1 \in 1..Len(down[c]) /\ down'[c][l] = down[c][l + 1] /\ k + 1 < l + 1
            BY <3>5, <4>2
          <6> QED BY <5>1, <5>2, <6>1
        <5> QED BY <1>1, <4>2, <5>1, <5>2, <5>3, <5>4
      <4> QED BY <4>1, <4>2
    <3> QED BY <2>1, <3>1, <3>7, <3>8, LinkAssumption DEF DownOrder, LinkAssumption
  <2> QED BY <2>2, <2>3
<1>7. CASE UNCHANGED <<legOf, engineGot>>
  BY <1>4, <1>7
<1> QED BY <1>5, <1>6, <1>7, FrameRead DEF StartCall, CloseLeg

LEMMA StepKeepsDownOrder ==
  ASSUME TypesInv, [Next]_vars, NEW w \in Legs, OpeningInv(w), DownOrder(w)
  PROVE  DownOrder(w)'
<1>0. TypesInv'
  BY StepKeepsTypes
<1>1. CASE RoomNext /\ UNCHANGED clientVars
  BY <1>0, <1>1, RoomKeepsDownOrder
<1>2. CASE ClientNext /\ UNCHANGED roomVars
  <2>1. CASE \E c \in Sockets : Dispatch(c)
    BY <1>0, <1>2, <2>1, DispatchKeepsDownOrder
  <2>2. CASE UNCHANGED <<down, legOf, engineGot>>
    BY <1>0, <1>2, <2>2, QueuesKept, DownOrderUndisturbed DEF roomVars
  <2> QED BY <1>2, <2>1, <2>2, ClientReads
<1>3. CASE ~(RoomNext /\ UNCHANGED clientVars) /\ ~(ClientNext /\ UNCHANGED roomVars)
  BY <1>0, <1>3, OtherSteps, DownOrderUndisturbed
<1> QED BY <1>1, <1>2, <1>3
-----------------------------------------------------------------------------
(* From the engine to the phone. *)
LEMMA UpTyped ==
  ASSUME TypesInv, NEW w \in Legs
  PROVE  /\ \A c \in Sockets : \A k \in 1..Len(up[c]) : up[c][k].n \in Nat
         /\ \A c \in Sockets : \A k \in 1..Len(outq[c]) : outq[c][k].n \in Nat
         /\ \A c \in Sockets : Len(up[c]) \in Nat /\ Len(outq[c]) \in Nat
         /\ engineSent[w] \in Nat /\ phoneGot[w] \in Seq(1..MaxMessages) /\ Len(phoneGot[w]) \in Nat
<1>0. MaxMessages \in Nat
  BY LinkAssumption DEF LinkAssumption
<1>1. \A f \in UpFrames : f.n \in Nat
  BY <1>0 DEF UpFrames, Frames
<1>2. \A c \in Sockets : \A k \in 1..Len(up[c]) : up[c][k] \in UpFrames
  BY ElementOfSeq DEF TypesInv, LinkInv
<1>3. \A c \in Sockets : \A k \in 1..Len(outq[c]) : outq[c][k] \in UpFrames
  BY ElementOfSeq DEF TypesInv, ClientInv
<1>4. \A c \in Sockets : Len(up[c]) \in Nat /\ Len(outq[c]) \in Nat
  BY LenProperties DEF TypesInv, LinkInv, ClientInv
<1>5. engineSent[w] \in Nat /\ phoneGot[w] \in Seq(1..MaxMessages)
  BY <1>0 DEF TypesInv, RoomTypeOK, ClientInv, ClientTypeOK
<1>6. Len(phoneGot[w]) \in Nat
  BY <1>5, LenProperties
<1> QED BY <1>1, <1>2, <1>3, <1>4, <1>5, <1>6

LEMMA UpOrderKept ==
  ASSUME TypesInv, TypesInv', NEW w \in Legs, UpOrder(w), Taken(up', up),
         NEW d, NEW g, Moved(outq', outq, d, g),
         IsMessage(g, w) => d = legOf[w] /\ g.n = engineSent'[w] /\ engineSent[w] < engineSent'[w],
         legOf[w] # None \/ engineSent'[w] = engineSent[w],
         engineSent[w] <= engineSent'[w], legOf'[w] = legOf[w], phoneGot'[w] = phoneGot[w]
  PROVE  UpOrder(w)'
<1>0. /\ \A x \in Sockets : \A k \in 1..Len(up[x]) : up[x][k].n \in Nat
      /\ \A x \in Sockets : \A k \in 1..Len(outq[x]) : outq[x][k].n \in Nat
      /\ \A x \in Sockets : /\ Len(up[x]) \in Nat /\ Len(outq[x]) \in Nat
                            /\ Len(up'[x]) \in Nat /\ Len(outq'[x]) \in Nat
      /\ engineSent[w] \in Nat /\ engineSent'[w] \in Nat /\ Len(phoneGot[w]) \in Nat
  BY UpTyped, LenProperties DEF TypesInv, LinkInv, ClientInv, ClientTypeOK
<1>1. ASSUME NEW x \in Sockets
      PROVE  \E m \in Nat : \A k \in 1..Len(up'[x]) :
               k + m \in 1..Len(up[x]) /\ up'[x][k] = up[x][k + m]
  <2>1. PICK m \in Nat : /\ Len(up[x]) = Len(up'[x]) + m
                         /\ \A k \in 1..Len(up'[x]) : up'[x][k] = up[x][k + m]
    BY DEF Taken
  <2> WITNESS m \in Nat
  <2> QED BY <1>0, <2>1
<1>2. ASSUME NEW x \in Sockets, NEW k \in 1..Len(outq'[x]), IsMessage(outq'[x][k], w)
      PROVE  /\ x = legOf[w]
             /\ Len(phoneGot[w]) < outq'[x][k].n /\ outq'[x][k].n <= engineSent'[w]
             /\ \A l \in 1..Len(outq'[x]) :
                  IsMessage(outq'[x][l], w) /\ k < l => outq'[x][k].n < outq'[x][l].n
             /\ \A l \in 1..Len(up[x]) : IsMessage(up[x][l], w) => up[x][l].n < outq'[x][k].n
  <2>1. PICK m \in Nat : \A i \in 1..Len(outq'[x]) :
          \/ i + m \in 1..Len(outq[x]) /\ outq'[x][i] = outq[x][i + m]
          \/ x = d /\ i = Len(outq'[x]) /\ outq'[x][i] = g
    BY DEF Moved
  <2>2. CASE k + m \in 1..Len(outq[x]) /\ outq'[x][k] = outq[x][k + m]
    <3> DEFINE n == outq[x][k + m].n
    <3>1. /\ x = legOf[w] /\ Len(phoneGot[w]) < n /\ n <= engineSent[w] /\ n \in Nat
          /\ \A l \in 1..Len(outq[x]) : IsMessage(outq[x][l], w) /\ k + m < l => n < outq[x][l].n
          /\ \A l \in 1..Len(up[x]) : IsMessage(up[x][l], w) => up[x][l].n < n
      BY <1>0, <1>2, <2>2 DEF UpOrder
    <3>2. outq'[x][k].n = n
      BY <2>2
    <3> HIDE DEF n
    <3>3. ASSUME NEW l \in 1..Len(outq'[x]), IsMessage(outq'[x][l], w), k < l
          PROVE  n < outq'[x][l].n
      <4>1. CASE l + m \in 1..Len(outq[x]) /\ outq'[x][l] = outq[x][l + m]
        <5>1. k + m < l + m
          BY <1>0, <3>3
        <5> QED BY <3>1, <3>3, <4>1, <5>1
      <4>2. CASE outq'[x][l] = g
        BY <1>0, <3>1, <3>3, <4>2
      <4> QED BY <2>1, <4>1, <4>2
    <3>4. n <= engineSent'[w]
      BY <1>0, <3>1
    <3> QED BY <3>1, <3>2, <3>3, <3>4
  <2>3. CASE x = d /\ k = Len(outq'[x]) /\ outq'[x][k] = g
    <3>1. x = legOf[w] /\ g.n = engineSent'[w] /\ engineSent[w] < engineSent'[w]
      BY <1>2, <2>3
    <3>2. Len(phoneGot[w]) <= engineSent[w]
      BY DEF UpOrder
    <3>3. ASSUME NEW l \in 1..Len(up[x]), IsMessage(up[x][l], w) PROVE up[x][l].n < g.n
      <4>1. up[x][l].n <= engineSent[w] /\ up[x][l].n \in Nat
        BY <1>0, <3>3 DEF UpOrder
      <4> QED BY <1>0, <3>1, <4>1
    <3> QED BY <1>0, <2>3, <3>1, <3>2, <3>3
  <2> QED BY <2>1, <2>2, <2>3
<1>3. ASSUME NEW x \in Sockets, NEW k \in 1..Len(up'[x]), IsMessage(up'[x][k], w)
      PROVE  /\ x = legOf[w]
             /\ Len(phoneGot[w]) < up'[x][k].n /\ up'[x][k].n <= engineSent'[w]
             /\ \A l \in 1..Len(up'[x]) :
                  IsMessage(up'[x][l], w) /\ k < l => up'[x][k].n < up'[x][l].n
             /\ \A l \in 1..Len(outq'[x]) : IsMessage(outq'[x][l], w) => up'[x][k].n < outq'[x][l].n
  <2>1. PICK m \in Nat : \A i \in 1..Len(up'[x]) : i + m \in 1..Len(up[x]) /\ up'[x][i] = up[x][i + m]
    BY <1>1
  <2> DEFINE n == up[x][k + m].n
  <2>2. /\ x = legOf[w] /\ Len(phoneGot[w]) < n /\ n <= engineSent[w] /\ n \in Nat
        /\ \A l \in 1..Len(up[x]) : IsMessage(up[x][l], w) /\ k + m < l => n < up[x][l].n
    BY <1>0, <1>3, <2>1 DEF UpOrder
  <2>3. up'[x][k].n = n
    BY <2>1
  <2>4. \A l \in 1..Len(outq'[x]) : IsMessage(outq'[x][l], w) => n < outq'[x][l].n
    BY <1>2, <1>3, <2>1
  <2> HIDE DEF n
  <2>5. ASSUME NEW l \in 1..Len(up'[x]), IsMessage(up'[x][l], w), k < l
        PROVE  n < up'[x][l].n
    <3>1. k + m < l + m
      BY <1>0, <2>5
    <3> QED BY <2>1, <2>2, <2>5, <3>1
  <2>6. n <= engineSent'[w]
    BY <1>0, <2>2
  <2> QED BY <2>2, <2>3, <2>4, <2>5, <2>6
<1>4. Len(phoneGot[w]) <= engineSent'[w]
  BY <1>0 DEF UpOrder
<1> QED BY <1>2, <1>3, <1>4 DEF UpOrder

(* The writer takes the first frame of its queue and puts it last on the socket. *)
LEMMA WriteKeepsUpOrder ==
  ASSUME TypesInv, TypesInv', UNCHANGED roomVars, NEW c \in Sockets, WriterSends(c),
         NEW w \in Legs, UpOrder(w)
  PROVE  UpOrder(w)'
<1> DEFINE f == outq[c][1]
<1>1. /\ 1 \in 1..Len(outq[c]) /\ Added(up', up, c, f)
      /\ outq' = [outq EXCEPT ![c] = Tail(@)] /\ Taken(outq', outq)
      /\ UNCHANGED <<legOf, engineSent, phoneGot>>
  BY FrameWritten DEF roomVars
<1>2. /\ \A x \in Sockets : \A k \in 1..Len(up[x]) : up[x][k].n \in Nat
      /\ \A x \in Sockets : \A k \in 1..Len(outq[x]) : outq[x][k].n \in Nat
      /\ \A x \in Sockets : /\ Len(up[x]) \in Nat /\ Len(outq[x]) \in Nat
                            /\ Len(up'[x]) \in Nat /\ Len(outq'[x]) \in Nat
  BY UpTyped, LenProperties DEF TypesInv, LinkInv, ClientInv
<1>3. /\ Len(outq'[c]) = Len(outq[c]) - 1
      /\ \A k \in 1..Len(outq[c]) - 1 : outq'[c][k] = outq[c][k + 1]
      /\ \A d \in Sockets : d # c => outq'[d] = outq[d]
  <2>1. outq \in [Sockets -> Seq(UpFrames)] /\ outq[c] # <<>>
    BY DEF WriterSends, TypesInv, ClientInv
  <2> QED BY <1>1, <2>1, TailTakes
<1>4. ASSUME NEW x \in Sockets
      PROVE  /\ Len(up'[x]) = Len(up[x]) \/ (x = c /\ Len(up'[x]) = Len(up[x]) + 1 /\ up'[x][Len(up[x]) + 1] = f)
             /\ \A k \in 1..Len(up[x]) : up'[x][k] = up[x][k]
  BY <1>1 DEF Added
<1> HIDE DEF f
<1>5. ASSUME NEW x \in Sockets, NEW k \in 1..Len(outq'[x]), IsMessage(outq'[x][k], w)
      PROVE  /\ x = legOf[w]
             /\ Len(phoneGot[w]) < outq'[x][k].n /\ outq'[x][k].n <= engineSent[w]
             /\ \A l \in 1..Len(outq'[x]) :
                  IsMessage(outq'[x][l], w) /\ k < l => outq'[x][k].n < outq'[x][l].n
             /\ \A l \in 1..Len(up'[x]) : IsMessage(up'[x][l], w) => up'[x][l].n < outq'[x][k].n
  <2> DEFINE o == IF x = c THEN 1 ELSE 0
  <2>1. \A i \in 1..Len(outq'[x]) : i + o \in 1..Len(outq[x]) /\ outq'[x][i] = outq[x][i + o]
    BY <1>2, <1>3
  <2>0. o \in Nat /\ k \in Nat /\ k + o \in 1..Len(outq[x]) /\ outq'[x][k] = outq[x][k + o]
    BY <1>2, <1>5, <2>1
  <2>2. /\ o \in Nat /\ k \in Nat
        /\ x = legOf[w] /\ Len(phoneGot[w]) < outq[x][k + o].n /\ outq[x][k + o].n <= engineSent[w]
        /\ \A l \in 1..Len(outq[x]) :
             IsMessage(outq[x][l], w) /\ k + o < l => outq[x][k + o].n < outq[x][l].n
        /\ \A l \in 1..Len(up[x]) : IsMessage(up[x][l], w) => up[x][l].n < outq[x][k + o].n
    <3>1. PICK q \in 1..Len(outq[x]) : q = k + o /\ IsMessage(outq[x][q], w)
      BY <1>5, <2>0
    <3>2. /\ x = legOf[w] /\ Len(phoneGot[w]) < outq[x][q].n /\ outq[x][q].n <= engineSent[w]
          /\ \A l \in 1..Len(outq[x]) : IsMessage(outq[x][l], w) /\ q < l => outq[x][q].n < outq[x][l].n
          /\ \A l \in 1..Len(up[x]) : IsMessage(up[x][l], w) => up[x][l].n < outq[x][q].n
      BY <3>1 DEF UpOrder
    <3> HIDE DEF o
    <3> QED BY <2>0, <3>1, <3>2
  <2>3. x = c => o = 1
    OBVIOUS
  <2> HIDE DEF o
  <2>4. ASSUME NEW l \in 1..Len(outq'[x]), IsMessage(outq'[x][l], w), k < l
        PROVE  outq'[x][k].n < outq'[x][l].n
    <3>1. k + o < l + o
      BY <1>2, <2>2, <2>4
    <3> QED BY <2>1, <2>2, <2>4, <3>1
  <2>5. ASSUME NEW l \in 1..Len(up'[x]), IsMessage(up'[x][l], w) PROVE up'[x][l].n < outq'[x][k].n
    <3>1. CASE l \in 1..Len(up[x])
      BY <1>4, <2>1, <2>2, <2>5, <3>1
    <3>2. CASE x = c /\ up'[x][l] = f
      <4>1. /\ \A i \in 1..Len(outq[c]) : IsMessage(outq[c][i], w) /\ 1 < i => f.n < outq[c][i].n
        BY <1>1, <2>5, <3>2 DEF UpOrder, f
      <4>2. k + 1 \in 1..Len(outq[c]) /\ 1 < k + 1 /\ outq'[x][k] = outq[c][k + 1]
        BY <1>2, <2>1, <2>2, <2>3, <3>2
      <4> QED BY <1>5, <3>2, <4>1, <4>2
    <3> QED BY <1>2, <1>4, <2>5, <3>1, <3>2
  <2> QED BY <2>1, <2>2, <2>4, <2>5
<1>6. ASSUME NEW x \in Sockets, NEW k \in 1..Len(up'[x]), IsMessage(up'[x][k], w)
      PROVE  /\ x = legOf[w]
             /\ Len(phoneGot[w]) < up'[x][k].n /\ up'[x][k].n <= engineSent[w]
             /\ \A l \in 1..Len(up'[x]) :
                  IsMessage(up'[x][l], w) /\ k < l => up'[x][k].n < up'[x][l].n
  <2>1. CASE k \in 1..Len(up[x])
    <3>1. /\ up'[x][k] = up[x][k] /\ x = legOf[w]
          /\ Len(phoneGot[w]) < up[x][k].n /\ up[x][k].n <= engineSent[w]
          /\ \A l \in 1..Len(up[x]) : IsMessage(up[x][l], w) /\ k < l => up[x][k].n < up[x][l].n
          /\ \A l \in 1..Len(outq[x]) : IsMessage(outq[x][l], w) => up[x][k].n < outq[x][l].n
      BY <1>4, <1>6, <2>1 DEF UpOrder
    <3>2. ASSUME NEW l \in 1..Len(up'[x]), IsMessage(up'[x][l], w), k < l
          PROVE  up'[x][k].n < up'[x][l].n
      <4>1. CASE l \in 1..Len(up[x])
        BY <1>4, <3>1, <3>2, <4>1
      <4>2. CASE x = c /\ up'[x][l] = f
        BY <1>1, <3>1, <3>2, <4>2 DEF f
      <4> QED BY <1>2, <1>4, <3>2, <4>1, <4>2
    <3> QED BY <3>1, <3>2
  <2>2. CASE x = c /\ k = Len(up[x]) + 1 /\ Len(up'[x]) = k /\ up'[x][k] = f
    <3>1. x = legOf[w] /\ Len(phoneGot[w]) < f.n /\ f.n <= engineSent[w]
      BY <1>1, <1>6, <2>2 DEF UpOrder, f
    <3> QED BY <1>2, <2>2, <3>1
  <2> QED BY <1>2, <1>4, <2>1, <2>2
<1> QED BY <1>1, <1>5, <1>6 DEF UpOrder

LEMMA UpOrderUndisturbed ==
  ASSUME TypesInv, TypesInv', NEW w \in Legs, UpOrder(w), Taken(up', up),
         \/ Taken(outq', outq)
         \/ \E d \in Sockets, g \in UpFrames : Added(outq', outq, d, g) /\ ~IsMessage(g, w),
         legOf'[w] = legOf[w], engineSent'[w] = engineSent[w], phoneGot'[w] = phoneGot[w]
  PROVE  UpOrder(w)'
<1>0. outq \in [Sockets -> Seq(UpFrames)] /\ outq' \in [Sockets -> Seq(UpFrames)]
  BY DEF TypesInv, ClientInv
<1>1. ~IsMessage(Nil, w) /\ engineSent[w] <= engineSent'[w]
  BY UpTyped DEF Nil, Frame, IsMessage
<1>2. \E d, g : Moved(outq', outq, d, g) /\ ~IsMessage(g, w)
  BY <1>0, <1>1, TakenMoves, AddedMoves
<1> QED BY <1>1, <1>2, UpOrderKept

(* What the tasks of the client and its writers do for a leg's messages. *)
LEMMA ClientSends ==
  ASSUME TypesInv, ClientNext,
         ~\E c \in Sockets : Dispatch(c) \/ WriterSends(c) \/ WriterFails(c)
  PROVE  /\ UNCHANGED <<relayEnd, up, cut, legOf>>
         /\ \A c \in Sockets : writer'[c] = "running" => writer[c] = "running"
         /\ \A w \in Legs : EngineSends(w) \/ engineSent'[w] = engineSent[w]
         /\ \/ outq' = outq
            \/ \E d \in Sockets, g \in UpFrames :
                 Added(outq', outq, d, g) /\ \A w \in Legs : IsMessage(g, w) => EngineSends(w)
<1>0. /\ writer \in [Sockets -> {"none", "running", "done"}] /\ engineSent \in [Legs -> 0..MaxMessages]
  BY DEF TypesInv, ClientInv, ClientTypeOK
<1>1. ASSUME NEW c \in Sockets, WriterDone(c)
      PROVE  /\ UNCHANGED <<relayEnd, up, cut, legOf, outq, engineSent>>
             /\ \A d \in Sockets : writer'[d] = "running" => writer[d] = "running"
  BY <1>0, <1>1 DEF WriterDone, linkVars
<1>2. ASSUME StreamEnds \/ SessionOver
      PROVE  UNCHANGED <<relayEnd, up, cut, legOf, outq, engineSent, writer>>
  BY <1>2 DEF StreamEnds, EndSession, SessionOver, linkVars
<1>3. ASSUME NEW r \in Requests, RunCall(r)
      PROVE  /\ UNCHANGED <<relayEnd, up, cut, legOf, engineSent, writer>>
             /\ \E d \in Sockets, g \in UpFrames : Added(outq', outq, d, g) /\ \A w \in Legs : ~IsMessage(g, w)
  <2>1. \E d \in Sockets, g \in UpFrames : Added(outq', outq, d, g) /\ \A w \in Legs : ~IsMessage(g, w)
    BY <1>3, CallAnswered DEF IsMessage
  <2> QED BY <1>3, <2>1 DEF RunCall, linkVars
<1>4. ASSUME NEW v \in Legs, LegConnects(v)
      PROVE  UNCHANGED <<relayEnd, up, cut, legOf, outq, engineSent, writer>>
  BY <1>4 DEF LegConnects, linkVars
<1>5. ASSUME NEW v \in Legs, LegRefused(v) \/ EngineCloses(v)
      PROVE  /\ UNCHANGED <<relayEnd, up, cut, legOf, engineSent, writer>>
             /\ \E d \in Sockets, g \in UpFrames : Added(outq', outq, d, g) /\ \A w \in Legs : ~IsMessage(g, w)
  <2>1. \E d \in Sockets, g \in UpFrames : Added(outq', outq, d, g) /\ \A w \in Legs : ~IsMessage(g, w)
    BY <1>5, LegAnswered DEF IsMessage
  <2> QED BY <1>5, <2>1 DEF LegRefused, EngineCloses, linkVars
<1>6. ASSUME NEW v \in Legs, EngineSends(v)
      PROVE  /\ UNCHANGED <<relayEnd, up, cut, legOf, writer>>
             /\ \A w \in Legs : w # v => engineSent'[w] = engineSent[w]
             /\ \E d \in Sockets, g \in UpFrames :
                  Added(outq', outq, d, g) /\ \A w \in Legs : IsMessage(g, w) => w = v
  <2>1. \E d \in Sockets, g \in UpFrames :
          Added(outq', outq, d, g) /\ \A w \in Legs : IsMessage(g, w) => w = v
    BY <1>6, MessageSent DEF IsMessage
  <2> QED BY <1>0, <1>6, <2>1 DEF EngineSends, linkVars
<1>7. CASE \E v \in Legs : EngineSends(v)
  BY <1>6, <1>7
<1> QED BY <1>1, <1>2, <1>3, <1>4, <1>5, <1>7 DEF ClientNext

(* What a frame for a leg that is not opened yet cannot be. *)
LEMMA UnopenedLeg ==
  ASSUME TypesInv, NEW w \in Legs, UpOrder(w), legOf[w] = None
  PROVE  /\ engineSent[w] = 0 /\ Len(phoneGot[w]) = 0
         /\ \A c \in Sockets : \A k \in 1..Len(up[c]) : ~IsMessage(up[c][k], w)
         /\ \A c \in Sockets : \A k \in 1..Len(outq[c]) : ~IsMessage(outq[c][k], w)
<1>1. None \notin Sockets
  BY LinkAssumption DEF LinkAssumption
<1>2. Len(phoneGot[w]) \in Nat
  BY UpTyped
<1> QED BY <1>1, <1>2 DEF UpOrder

(* The step of the client that opens a leg. *)
LEMMA OpenedNow ==
  ASSUME TypesInv, NEW c \in Sockets, Dispatch(c), NEW w \in Legs, OpeningInv(w)
  PROVE  /\ UNCHANGED <<up, outq, engineSent, writer, relayEnd, cut>>
         /\ legOf'[w] = legOf[w] \/ legOf[w] = None
<1> DEFINE f == Head(down[c])
<1>1. f = down[c][1] /\ 1 \in 1..Len(down[c]) /\ UNCHANGED <<up, outq, engineSent, writer, relayEnd, cut>>
  BY FrameRead
<1>2. CASE legOf' = legOf
  BY <1>1, <1>2
<1>3. CASE f.kind = "ws_open" /\ WsOpen(c, f.id)
  <2>1. CASE f.id = w
    BY <1>1, <1>3, <2>1 DEF OpeningInv, IsOpen
  <2>2. CASE f.id # w
    BY <1>1, <1>3, <2>2 DEF WsOpen, TypesInv, ClientInv, ClientTypeOK
  <2> QED BY <2>1, <2>2
<1> QED BY <1>2, <1>3, FrameRead DEF StartCall, ForwardC2s, CloseLeg

LEMMA ClientKeepsUpOrder ==
  ASSUME TypesInv, TypesInv', UNCHANGED roomVars, ClientNext, NEW w \in Legs, OpeningInv(w), UpOrder(w)
  PROVE  UpOrder(w)'
<1>0. phoneGot' = phoneGot
  BY DEF roomVars
<1>1. ASSUME NEW c \in Sockets, Dispatch(c) PROVE UpOrder(w)'
  <2>1. UNCHANGED <<up, outq, engineSent>> /\ (legOf'[w] = legOf[w] \/ legOf[w] = None)
    BY <1>1, OpenedNow
  <2>2. CASE legOf'[w] = legOf[w]
    BY <1>0, <2>1, <2>2, QueuesKept, UpOrderUndisturbed
  <2>3. CASE legOf[w] = None
    BY <1>0, <2>1, <2>3, UnopenedLeg DEF UpOrder
  <2> QED BY <2>1, <2>2, <2>3
<1>2. ASSUME NEW c \in Sockets, WriterFails(c) PROVE UpOrder(w)'
  <2>1. Taken(outq', outq) /\ UNCHANGED <<up, legOf, engineSent>>
    BY <1>2, ClearTakes DEF WriterFails, linkVars, TypesInv, ClientInv
  <2> QED BY <1>0, <2>1, QueuesKept, UpOrderUndisturbed
<1>3. CASE ~\E c \in Sockets : Dispatch(c) \/ WriterSends(c) \/ WriterFails(c)
  <2>1. up' = up /\ legOf' = legOf
    BY <1>3, ClientSends
  <2>2. CASE EngineSends(w)
    <3>1. PICK d \in Sockets, g \in UpFrames :
            /\ d = legOf[w] /\ IsMessage(g, w) /\ g.n = engineSent[w] + 1 /\ Added(outq', outq, d, g)
      BY <2>2, MessageSent
    <3>2. engineSent[w] \in Nat /\ engineSent'[w] = engineSent[w] + 1
      BY <2>2, UpTyped DEF EngineSends, TypesInv, ClientInv, ClientTypeOK
    <3>3. Moved(outq', outq, d, g) /\ d # None
      BY <3>1, AddedMoves, LinkAssumption DEF TypesInv, ClientInv, LinkAssumption
    <3>4. g.n = engineSent'[w] /\ engineSent[w] < engineSent'[w] /\ engineSent[w] <= engineSent'[w]
      BY <3>1, <3>2
    <3> QED BY <1>0, <2>1, <3>1, <3>3, <3>4, QueuesKept, UpOrderKept
  <2>3. CASE ~EngineSends(w)
    BY <1>0, <1>3, <2>1, <2>3, ClientSends, QueuesKept, UpOrderUndisturbed
  <2> QED BY <2>2, <2>3
<1> QED BY <1>1, <1>2, <1>3, WriteKeepsUpOrder DEF ClientNext

(* The messages a desktop sends are taken off by one handler of the room. *)
LEMMA RoomTakes ==
  ASSUME TypesInv, RoomNext
  PROVE  /\ (\E c \in Sockets : OnDesktopMessage(c)) \/ UNCHANGED <<up, phoneGot>>
         /\ cut' = cut
         /\ \A c \in Sockets : relayEnd'[c] # "closed" => relayEnd[c] # "closed"
         /\ \A w \in Legs : phone'[w] = "open" => phone[w] = "open" \/ PhoneOpens(w)
<1>0. /\ phone \in [Legs -> {"none", "refused", "open", "closing", "closed"}]
      /\ relayEnd \in [Sockets -> {"none", "open", "closing", "closed"}]
  BY DEF TypesInv, RoomTypeOK, LinkInv, LinkTypeOK
<1>1. ASSUME NEW S, phone' = Closing(S) PROVE \A w \in Legs : phone'[w] = "open" => phone[w] = "open"
  BY <1>1 DEF Closing
<1>2. ASSUME NEW c \in Sockets, DesktopSocketCloses(c)
      PROVE  /\ UNCHANGED <<up, phoneGot, cut>> /\ \A w \in Legs : phone'[w] = "open" => phone[w] = "open"
             /\ \A d \in Sockets : relayEnd'[d] # "closed" => relayEnd[d] # "closed"
  BY <1>0, <1>1, <1>2 DEF DesktopSocketCloses, OnDesktopClose
<1>3. ASSUME NEW c \in Sockets, OnDesktopMessage(c)
      PROVE  UNCHANGED <<cut, relayEnd>> /\ \A w \in Legs : phone'[w] = "open" => phone[w] = "open"
  BY <1>1, <1>3, MessageRead DEF Resolve, DeliverToPhone, ClosePhone
<1>4. ASSUME Watchdog
      PROVE  /\ UNCHANGED <<up, phoneGot, cut>> /\ \A w \in Legs : phone'[w] = "open" => phone[w] = "open"
             /\ \A d \in Sockets : relayEnd'[d] # "closed" => relayEnd[d] # "closed"
  BY <1>0, <1>1, <1>4 DEF Watchdog, OnDesktopClose
<1>5. ASSUME AlarmWithoutDesktop \/ Hibernate
      PROVE  UNCHANGED <<up, phoneGot, cut, relayEnd, phone>>
  BY <1>5 DEF AlarmWithoutDesktop, Hibernate, linkVars
<1>6. ASSUME NEW r \in Requests, Arrive(r) \/ PairWithoutCode(r) \/ Forward(r) \/ TimeOut(r)
      PROVE  UNCHANGED <<up, phoneGot, cut, relayEnd, phone>>
  BY <1>6 DEF Arrive, PairWithoutCode, Forward, TimeOut, linkVars
<1>7. ASSUME NEW v \in Legs, PhoneOpens(v) \/ PhoneSends(v) \/ PhoneCloses(v)
      PROVE  /\ UNCHANGED <<up, phoneGot, cut, relayEnd>>
             /\ \A w \in Legs : phone'[w] = "open" => phone[w] = "open" \/ PhoneOpens(w)
  BY <1>0, <1>7 DEF PhoneOpens, PhoneSends, PhoneCloses
<1> QED BY <1>2, <1>3, <1>4, <1>5, <1>6, <1>7 DEF RoomNext

LEMMA StepKeepsCutEmpty ==
  ASSUME TypesInv, CutEmpty, [Next]_vars
  PROVE  CutEmpty'
<1>0. cut \subseteq Sockets /\ up \in [Sockets -> Seq(UpFrames)]
  BY DEF TypesInv, LinkInv, LinkTypeOK
<1>1. CASE UNCHANGED <<up, cut>>
  BY <1>1 DEF CutEmpty
<1>2. ASSUME NEW c \in Sockets, CutLink(c) PROVE CutEmpty'
  BY <1>0, <1>2 DEF CutLink, CutEmpty
<1>3. ASSUME NEW c \in Sockets, OnDesktopMessage(c) PROVE CutEmpty'
  BY <1>0, <1>3 DEF OnDesktopMessage, CutEmpty
<1>4. ASSUME NEW c \in Sockets, WriterSends(c) PROVE CutEmpty'
  <2>1. cut' = cut /\ \A d \in cut : up'[d] = up[d]
    BY <1>0, <1>4 DEF WriterSends, Put
  <2> QED BY <2>1 DEF CutEmpty
<1>5. ASSUME NEW c \in Sockets, Dispatch(c) \/ WriterFails(c) PROVE UNCHANGED <<up, cut>>
  BY <1>5 DEF Dispatch, Handle, WriterFails, linkVars
<1>6. ASSUME ClientNext PROVE CutEmpty'
  BY <1>1, <1>4, <1>5, <1>6, ClientSends
<1>7. ASSUME RoomNext PROVE CutEmpty'
  BY <1>1, <1>3, <1>7, RoomTakes
<1>8. ASSUME NEW c \in Sockets, Register(c) PROVE UNCHANGED <<up, cut>>
  BY <1>8 DEF Register, HandleDesktopRegister
<1>9. ASSUME DesktopFallsSilent \/ RoomFallsSilent \/ UNCHANGED vars PROVE UNCHANGED <<up, cut>>
  BY <1>9 DEF DesktopFallsSilent, RoomFallsSilent, EndSession, linkVars, vars
<1> QED BY <1>1, <1>2, <1>6, <1>7, <1>8, <1>9 DEF Next, RoomDoes, ClientDoes
-----------------------------------------------------------------------------
(* Two queues with the same messages of a leg. *)
SameMessages(new, old, w) ==
  /\ \A k \in 1..Len(new) : IsMessage(new[k], w) => \E j \in 1..Len(old) : old[j] = new[k]
  /\ \A j \in 1..Len(old) : IsMessage(old[j], w) => \E k \in 1..Len(new) : new[k] = old[j]

(* What is on its way stays so, where no message of the leg is taken off a
   queue or added to one. *)
LEMMA NoGapKept ==
  ASSUME TypesInv, TypesInv', NEW w \in Legs, NoGap(w),
         legOf'[w] = legOf[w], phoneGot'[w] = phoneGot[w], engineSent'[w] = engineSent[w],
         \A c \in Sockets : c = legOf[w] /\ phone'[w] = "open" /\ Alive(c)' =>
           /\ phone[w] = "open" /\ Alive(c) /\ SameMessages(up'[c], up[c], w)
           /\ writer'[c] = "running" => writer[c] = "running",
         \/ outq' = outq
         \/ \E d \in Sockets, g \in UpFrames : Added(outq', outq, d, g) /\ ~IsMessage(g, w)
  PROVE  NoGap(w)'
<1> SUFFICES ASSUME NEW c \in Sockets, c = legOf[w], phone'[w] = "open", Alive(c)'
             PROVE  NoneMissing(c, w)'
  BY DEF NoGap
<1>1. /\ NoneMissing(c, w) /\ SameMessages(up'[c], up[c], w)
      /\ writer'[c] = "running" => writer[c] = "running"
  BY DEF NoGap
<1>2. Len(outq[c]) \in Nat /\ Len(outq'[c]) \in Nat
  BY LenProperties DEF TypesInv, ClientInv
<1>3. /\ \A k \in 1..Len(outq[c]) : k \in 1..Len(outq'[c]) /\ outq'[c][k] = outq[c][k]
      /\ \A k \in 1..Len(outq'[c]) : IsMessage(outq'[c][k], w) => k \in 1..Len(outq[c])
  <2>1. CASE outq'[c] = outq[c]
    BY <1>2, <2>1
  <2>2. ASSUME NEW g \in UpFrames, ~IsMessage(g, w),
               /\ Len(outq'[c]) = Len(outq[c]) + 1 /\ outq'[c][Len(outq[c]) + 1] = g
               /\ \A k \in 1..Len(outq[c]) : outq'[c][k] = outq[c][k]
        PROVE  <1>3
    BY <1>2, <2>2
  <2> QED BY <2>1, <2>2 DEF Added
<1>4. ASSUME NEW n, OnSocket(c, w, n) PROVE OnSocket(c, w, n)'
  <2>1. PICK j \in 1..Len(up[c]) : IsMessage(up[c][j], w) /\ up[c][j].n = n
    BY <1>4 DEF OnSocket
  <2>2. PICK k \in 1..Len(up'[c]) : up'[c][k] = up[c][j]
    BY <1>1, <2>1 DEF SameMessages
  <2> QED BY <2>1, <2>2 DEF OnSocket
<1>5. ASSUME NEW n, InQueue(c, w, n) PROVE InQueue(c, w, n)'
  BY <1>3, <1>5 DEF InQueue
<1>6. \A k \in 1..Len(up'[c]) : IsMessage(up'[c][k], w) =>
        \A n \in Len(phoneGot'[w]) + 1 .. up'[c][k].n : OnSocket(c, w, n)'
  <2> SUFFICES ASSUME NEW k \in 1..Len(up'[c]), IsMessage(up'[c][k], w),
                      NEW n \in Len(phoneGot'[w]) + 1 .. up'[c][k].n
               PROVE  OnSocket(c, w, n)'
    OBVIOUS
  <2>1. PICK j \in 1..Len(up[c]) : up[c][j] = up'[c][k]
    BY <1>1 DEF SameMessages
  <2> QED BY <1>1, <1>4, <2>1 DEF NoneMissing
<1>7. \A k \in 1..Len(outq'[c]) : IsMessage(outq'[c][k], w) =>
        \A n \in Len(phoneGot'[w]) + 1 .. outq'[c][k].n : OnSocket(c, w, n)' \/ InQueue(c, w, n)'
  BY <1>1, <1>3, <1>4, <1>5 DEF NoneMissing
<1>8. writer'[c] = "running" =>
        \A n \in Len(phoneGot'[w]) + 1 .. engineSent'[w] : OnSocket(c, w, n)' \/ InQueue(c, w, n)'
  BY <1>1, <1>4, <1>5 DEF NoneMissing
<1> QED BY <1>6, <1>7, <1>8 DEF NoneMissing

LEMMA NoneMissingKept ==
  ASSUME NEW c \in Sockets, NEW w \in Legs, NoneMissing(c, w),
         up'[c] = up[c], outq'[c] = outq[c], writer'[c] = writer[c],
         phoneGot'[w] = phoneGot[w], engineSent'[w] = engineSent[w]
  PROVE  NoneMissing(c, w)'
<1>1. ASSUME NEW n, OnSocket(c, w, n) PROVE OnSocket(c, w, n)'
  BY <1>1 DEF OnSocket
<1>2. ASSUME NEW n, InQueue(c, w, n) PROVE InQueue(c, w, n)'
  BY <1>2 DEF InQueue
<1>3. /\ \A k \in 1..Len(up[c]) : IsMessage(up[c][k], w) =>
           \A n \in Len(phoneGot[w]) + 1 .. up[c][k].n : OnSocket(c, w, n)'
      /\ \A k \in 1..Len(outq[c]) : IsMessage(outq[c][k], w) =>
           \A n \in Len(phoneGot[w]) + 1 .. outq[c][k].n : OnSocket(c, w, n)' \/ InQueue(c, w, n)'
      /\ writer[c] = "running" =>
           \A n \in Len(phoneGot[w]) + 1 .. engineSent[w] : OnSocket(c, w, n)' \/ InQueue(c, w, n)'
  BY <1>1, <1>2 DEF NoneMissing
<1> QED BY <1>3 DEF NoneMissing

LEMMA RoomKeepsPath ==
  ASSUME TypesInv, TypesInv', UNCHANGED clientVars, RoomNext, ~\E c \in Sockets : OnDesktopMessage(c),
         NEW w \in Legs, OpeningInv(w), UpOrder(w), NoGap(w)
  PROVE  UpOrder(w)' /\ NoGap(w)'
<1>1. /\ UNCHANGED <<up, phoneGot, cut, outq, legOf, engineSent, writer>>
      /\ \A c \in Sockets : relayEnd'[c] # "closed" => relayEnd[c] # "closed"
      /\ phone'[w] = "open" => phone[w] = "open" \/ PhoneOpens(w)
  BY RoomTakes DEF clientVars
<1>2. UpOrder(w)'
  BY <1>1, QueuesKept, UpOrderUndisturbed
<1>3. CASE PhoneOpens(w)
  <2>1. legOf[w] = None /\ None \notin Sockets
    BY <1>3, LinkAssumption DEF PhoneOpens, OpeningInv, LinkAssumption
  <2> QED BY <1>1, <1>2, <2>1 DEF NoGap
<1>4. CASE ~PhoneOpens(w)
  <2>1. \A c \in Sockets : SameMessages(up'[c], up[c], w)
    BY <1>1 DEF SameMessages
  <2>2. ASSUME NEW c \in Sockets, phone'[w] = "open", Alive(c)'
        PROVE  phone[w] = "open" /\ Alive(c)
    BY <1>1, <1>4, <2>2 DEF Alive
  <2> QED BY <1>1, <1>2, <2>1, <2>2, NoGapKept
<1> QED BY <1>3, <1>4

(* The room takes the next message of a leg off the socket: it is the one the
   phone has to get next. *)
LEMMA DeliveryKeepsPath ==
  ASSUME TypesInv, TypesInv', UNCHANGED clientVars, NEW c \in Sockets, OnDesktopMessage(c),
         NEW w \in Legs, OpenPhonesAreKnown, CutEmpty, UpOrder(w), NoGap(w),
         IsMessage(up[c][1], w), phone[w] = "open"
  PROVE  UpOrder(w)' /\ NoGap(w)'
<1> DEFINE n == up[c][1].n
           s == phoneGot[w]
<1>1. /\ 1 \in 1..Len(up[c]) /\ up' = [up EXCEPT ![c] = Tail(@)] /\ relayEnd[c] # "closed"
      /\ n \in 1..MaxMessages /\ DeliverToPhone(w, n)
      /\ UNCHANGED <<relayEnd, cut, outq, legOf, engineSent, writer>>
  BY MessageRead DEF IsMessage, clientVars
<1>2. /\ \A x \in Sockets : \A k \in 1..Len(up[x]) : up[x][k].n \in Nat
      /\ \A x \in Sockets : Len(up[x]) \in Nat /\ Len(up'[x]) \in Nat
      /\ engineSent[w] \in Nat /\ s \in Seq(1..MaxMessages) /\ Len(s) \in Nat /\ n \in Nat
  BY <1>1, UpTyped, LenProperties DEF TypesInv, LinkInv
<1>3. /\ Len(up'[c]) = Len(up[c]) - 1
      /\ \A k \in 1..Len(up[c]) - 1 : up'[c][k] = up[c][k + 1]
      /\ \A d \in Sockets : d # c => up'[d] = up[d]
  <2>1. up \in [Sockets -> Seq(UpFrames)] /\ up[c] # <<>>
    BY DEF OnDesktopMessage, TypesInv, LinkInv
  <2> QED BY <1>1, <2>1, TailTakes
<1>4. /\ c = legOf[w] /\ Len(s) < n /\ n <= engineSent[w]
      /\ \A l \in 1..Len(up[c]) : IsMessage(up[c][l], w) /\ 1 < l => n < up[c][l].n
      /\ \A l \in 1..Len(outq[c]) : IsMessage(outq[c][l], w) => n < outq[c][l].n
  BY <1>1 DEF UpOrder
<1>5. NoneMissing(c, w)
  <2>1. c \notin cut
    BY DEF CutEmpty, OnDesktopMessage
  <2> QED BY <1>1, <1>4, <2>1 DEF NoGap, Alive
<1>6. n = Len(s) + 1
  <2>1. Len(s) + 1 \in Len(s) + 1 .. n
    BY <1>2, <1>4
  <2>2. PICK k \in 1..Len(up[c]) : IsMessage(up[c][k], w) /\ up[c][k].n = Len(s) + 1
    BY <1>1, <1>5, <2>1 DEF NoneMissing, OnSocket
  <2>3. k = 1
    BY <1>2, <1>4, <2>2
  <2> QED BY <2>2, <2>3
<1>7. /\ phoneGot'[w] = Append(s, n)
      /\ Len(Append(s, n)) = n /\ Append(s, n)[n] = n /\ \A k \in 1..Len(s) : Append(s, n)[k] = s[k]
  <2>1. phoneGot'[w] = Append(s, n)
    BY <1>1 DEF DeliverToPhone, OpenPhonesAreKnown, TypesInv, RoomTypeOK
  <2>2. /\ Len(Append(s, n)) = Len(s) + 1 /\ Append(s, n)[Len(s) + 1] = n
        /\ \A k \in 1..Len(s) : Append(s, n)[k] = s[k]
    BY <1>1, <1>2
  <2> QED BY <1>6, <2>1, <2>2
<1>8. /\ Len(phoneGot'[w]) = n /\ n <= engineSent'[w]
      /\ \A k \in 1..Len(phoneGot'[w]) : phoneGot'[w][k] = k
  <2>1. \A k \in 1..Len(s) : s[k] = k
    BY DEF UpOrder
  <2> HIDE DEF n, s
  <2> QED BY <1>1, <1>2, <1>4, <1>6, <1>7, <2>1
<1> HIDE DEF n
<1>9. ASSUME NEW x \in Sockets, NEW k \in 1..Len(up'[x]), IsMessage(up'[x][k], w)
      PROVE  /\ x = c /\ k + 1 \in 1..Len(up[c]) /\ up'[x][k] = up[c][k + 1]
             /\ n < up'[x][k].n
  <2>1. x = c
    BY <1>3, <1>4, <1>9 DEF UpOrder
  <2>2. k + 1 \in 1..Len(up[c]) /\ up'[x][k] = up[c][k + 1] /\ 1 < k + 1
    BY <1>2, <1>3, <2>1
  <2> QED BY <1>4, <1>9, <2>1, <2>2
<1>10. UpOrder(w)'
  <2>1. ASSUME NEW x \in Sockets, NEW k \in 1..Len(up'[x]), IsMessage(up'[x][k], w)
        PROVE  /\ x = legOf'[w] /\ n < up'[x][k].n /\ up'[x][k].n <= engineSent'[w]
               /\ \A l \in 1..Len(up'[x]) :
                    IsMessage(up'[x][l], w) /\ k < l => up'[x][k].n < up'[x][l].n
               /\ \A l \in 1..Len(outq'[x]) : IsMessage(outq'[x][l], w) => up'[x][k].n < outq'[x][l].n
    <3>1. PICK q \in 1..Len(up[c]) : q = k + 1 /\ up'[x][k] = up[c][q] /\ x = c /\ n < up'[x][k].n
      BY <1>9, <2>1
    <3>2. /\ up[c][q].n <= engineSent[w]
          /\ \A l \in 1..Len(up[c]) : IsMessage(up[c][l], w) /\ q < l => up[c][q].n < up[c][l].n
          /\ \A l \in 1..Len(outq[c]) : IsMessage(outq[c][l], w) => up[c][q].n < outq[c][l].n
      BY <2>1, <3>1 DEF UpOrder
    <3>3. ASSUME NEW l \in 1..Len(up'[x]), IsMessage(up'[x][l], w), k < l
          PROVE  up'[x][k].n < up'[x][l].n
      <4>1. l + 1 \in 1..Len(up[c]) /\ up'[x][l] = up[c][l + 1]
        BY <1>9, <3>3
      <4>2. q < l + 1
        BY <1>2, <3>1, <3>3
      <4> QED BY <3>1, <3>2, <3>3, <4>1, <4>2
    <3> QED BY <1>1, <1>4, <3>1, <3>2, <3>3
  <2>2. ASSUME NEW x \in Sockets, NEW k \in 1..Len(outq'[x]), IsMessage(outq'[x][k], w)
        PROVE  /\ x = legOf'[w] /\ n < outq'[x][k].n /\ outq'[x][k].n <= engineSent'[w]
               /\ \A l \in 1..Len(outq'[x]) :
                    IsMessage(outq'[x][l], w) /\ k < l => outq'[x][k].n < outq'[x][l].n
    BY <1>1, <1>4, <2>2 DEF UpOrder
  <2>3. legOf'[w] # None
    BY <1>1, <1>4, LinkAssumption DEF LinkAssumption
  <2> QED BY <1>8, <2>1, <2>2, <2>3 DEF UpOrder
<1>11. NoneMissing(c, w)'
  <2>1. \A i : i \in n + 1 .. engineSent[w] => i \in Len(s) + 1 .. engineSent[w]
    BY <1>2, <1>6
  <2>2. ASSUME NEW i, i # n, OnSocket(c, w, i) PROVE OnSocket(c, w, i)'
    <3>1. PICK k \in 1..Len(up[c]) : IsMessage(up[c][k], w) /\ up[c][k].n = i
      BY <2>2 DEF OnSocket
    <3>2. k # 1
      BY <2>2, <3>1 DEF n
    <3>3. PICK q \in 1..Len(up'[c]) : k = q + 1 /\ up'[c][q] = up[c][k]
      BY <1>2, <1>3, <3>2
    <3> QED BY <3>1, <3>3 DEF OnSocket
  <2>3. ASSUME NEW i, InQueue(c, w, i) PROVE InQueue(c, w, i)'
    BY <1>1, <2>3 DEF InQueue
  <2>4. ASSUME NEW k \in 1..Len(up'[c]), IsMessage(up'[c][k], w), NEW i \in n + 1 .. up'[c][k].n
        PROVE  OnSocket(c, w, i)'
    <3>1. PICK q \in 1..Len(up[c]) : up'[c][k] = up[c][q] /\ up[c][q].n \in Nat
      BY <1>2, <1>9, <2>4
    <3>2. i \in Len(s) + 1 .. up[c][q].n /\ i # n
      BY <1>2, <1>6, <3>1
    <3> QED BY <1>5, <2>2, <2>4, <3>1, <3>2 DEF NoneMissing
  <2>5. ASSUME NEW k \in 1..Len(outq'[c]), IsMessage(outq'[c][k], w), NEW i \in n + 1 .. outq'[c][k].n
        PROVE  OnSocket(c, w, i)' \/ InQueue(c, w, i)'
    <3>1. outq[c][k].n \in Nat /\ outq'[c] = outq[c]
      BY <1>1, <2>5, UpTyped
    <3>2. i \in Len(s) + 1 .. outq[c][k].n /\ i # n
      BY <1>2, <1>6, <3>1
    <3> QED BY <1>5, <2>2, <2>3, <2>5, <3>1, <3>2 DEF NoneMissing
  <2>6. ASSUME writer'[c] = "running", NEW i \in n + 1 .. engineSent'[w]
        PROVE  OnSocket(c, w, i)' \/ InQueue(c, w, i)'
    <3>1. i \in Len(s) + 1 .. engineSent[w] /\ i # n /\ writer[c] = "running"
      BY <1>1, <1>2, <1>6, <2>6
    <3> QED BY <1>5, <2>2, <2>3, <3>1 DEF NoneMissing
  <2> QED BY <1>8, <2>4, <2>5, <2>6 DEF NoneMissing
<1> QED BY <1>1, <1>4, <1>10, <1>11 DEF NoGap

(* The room takes anything else off a socket, or the phone is not open. *)
LEMMA TakeKeepsPath ==
  ASSUME TypesInv, TypesInv', UNCHANGED clientVars, NEW c \in Sockets, OnDesktopMessage(c),
         NEW w \in Legs, UpOrder(w), NoGap(w), ~(IsMessage(up[c][1], w) /\ phone[w] = "open")
  PROVE  UpOrder(w)' /\ NoGap(w)'
<1> DEFINE f == up[c][1]
<1>1. /\ 1 \in 1..Len(up[c]) /\ up' = [up EXCEPT ![c] = Tail(@)] /\ Taken(up', up)
      /\ UNCHANGED <<relayEnd, cut, outq, legOf, engineSent, writer>>
      /\ \/ f.kind \in {"http_response", "pair_response"} /\ Resolve(f.id)
         \/ f.kind = "ws_message" /\ f.id \in Legs /\ DeliverToPhone(f.id, f.n)
         \/ f.kind \in {"ws_close", "ws_open_refused"} /\ ClosePhone(f.id)
  BY MessageRead DEF clientVars
<1>2. Len(up[c]) \in Nat /\ Len(up'[c]) \in Nat /\ phoneGot \in [Legs -> Seq(1..MaxMessages)]
  BY LenProperties DEF TypesInv, LinkInv, RoomTypeOK
<1>3. /\ Len(up'[c]) = Len(up[c]) - 1
      /\ \A k \in 1..Len(up[c]) - 1 : up'[c][k] = up[c][k + 1]
      /\ \A d \in Sockets : d # c => up'[d] = up[d]
  <2>1. up \in [Sockets -> Seq(UpFrames)] /\ up[c] # <<>>
    BY DEF OnDesktopMessage, TypesInv, LinkInv
  <2> QED BY <1>1, <2>1, TailTakes
<1>4. phone'[w] = "open" => phone[w] = "open"
  BY <1>1 DEF Resolve, DeliverToPhone, ClosePhone, Closing
<1>5. phoneGot'[w] = phoneGot[w]
  <2>1. CASE f.kind = "ws_message" /\ f.id \in Legs /\ DeliverToPhone(f.id, f.n)
    <3>1. CASE f.id = w
      BY <2>1, <3>1 DEF DeliverToPhone, IsMessage
    <3>2. CASE f.id # w
      BY <1>2, <2>1, <3>2 DEF DeliverToPhone
    <3> QED BY <3>1, <3>2
  <2> QED BY <1>1, <2>1 DEF Resolve, ClosePhone
<1>6. UpOrder(w)'
  BY <1>1, <1>5, QueuesKept, UpOrderUndisturbed
<1>7. CASE phone[w] # "open"
  BY <1>4, <1>6, <1>7 DEF NoGap
<1>8. CASE ~IsMessage(f, w)
  <2>1. SameMessages(up'[c], up[c], w)
    <3>1. \A k \in 1..Len(up'[c]) : \E j \in 1..Len(up[c]) : up[c][j] = up'[c][k]
      <4> SUFFICES ASSUME NEW k \in 1..Len(up'[c]) PROVE \E j \in 1..Len(up[c]) : up[c][j] = up'[c][k]
        OBVIOUS
      <4> k + 1 \in 1..Len(up[c]) /\ up[c][k + 1] = up'[c][k]
        BY <1>2, <1>3
      <4> QED OBVIOUS
    <3>2. ASSUME NEW j \in 1..Len(up[c]), IsMessage(up[c][j], w)
          PROVE  \E k \in 1..Len(up'[c]) : up'[c][k] = up[c][j]
      <4>1. j # 1
        BY <1>8, <3>2
      <4>2. j - 1 \in 1..Len(up'[c]) /\ up'[c][j - 1] = up[c][(j - 1) + 1] /\ (j - 1) + 1 = j
        BY <1>2, <1>3, <4>1
      <4> QED BY <4>2
    <3> QED BY <3>1, <3>2 DEF SameMessages
  <2>2. ASSUME NEW d \in Sockets PROVE SameMessages(up'[d], up[d], w)
    <3>1. CASE d = c
      BY <2>1, <3>1
    <3>2. CASE d # c
      <4>1. up'[d] = up[d]
        BY <1>3, <3>2
      <4> QED BY <4>1 DEF SameMessages
    <3> QED BY <3>1, <3>2
  <2>3. \A d \in Sockets : Alive(d)' => Alive(d)
    BY <1>1 DEF Alive
  <2> QED BY <1>1, <1>4, <1>5, <1>6, <2>2, <2>3, NoGapKept
<1> QED BY <1>7, <1>8

(* The engine puts the next message of a leg behind the others. *)
LEMMA SendKeepsNoGap ==
  ASSUME TypesInv, TypesInv', UNCHANGED roomVars, NEW w \in Legs, EngineSends(w), NoGap(w)
  PROVE  NoGap(w)'
<1> SUFFICES ASSUME NEW c \in Sockets, c = legOf'[w], phone'[w] = "open", Alive(c)'
             PROVE  NoneMissing(c, w)'
  BY DEF NoGap
<1>1. UNCHANGED <<up, writer, cut, relayEnd, legOf, phone, phoneGot>> /\ c = legOf[w]
  BY DEF EngineSends, linkVars, roomVars
<1>2. NoneMissing(c, w)
  BY <1>1 DEF NoGap, Alive
<1>3. engineSent'[w] = engineSent[w] + 1 /\ engineSent[w] \in Nat /\ Len(phoneGot[w]) \in Nat
  BY UpTyped DEF EngineSends, TypesInv, ClientInv, ClientTypeOK
<1> PICK e \in Nat : e = engineSent[w]
  BY <1>3
<1>4. PICK g \in UpFrames :
        /\ IsMessage(g, w) /\ g.n = engineSent[w] + 1 /\ Added(outq', outq, c, g)
        /\ writer[c] = "running" => /\ Len(outq'[c]) = Len(outq[c]) + 1
                                    /\ outq'[c][Len(outq[c]) + 1] = g
  BY <1>1, MessageSent
<1>5. Len(outq[c]) \in Nat /\ Len(outq'[c]) \in Nat
  BY LenProperties DEF TypesInv, ClientInv
<1>6. \A k \in 1..Len(outq[c]) : k \in 1..Len(outq'[c]) /\ outq'[c][k] = outq[c][k]
  BY <1>4, <1>5 DEF Added
<1>7. ASSUME NEW n, OnSocket(c, w, n) PROVE OnSocket(c, w, n)'
  BY <1>1, <1>7 DEF OnSocket
<1>8. ASSUME NEW n, InQueue(c, w, n) PROVE InQueue(c, w, n)'
  BY <1>6, <1>8 DEF InQueue
<1>9. CASE writer[c] = "running"
  <2>1. InQueue(c, w, e + 1)'
    <3>1. Len(outq[c]) + 1 \in 1..Len(outq'[c])
      BY <1>4, <1>5, <1>9
    <3>2. IsMessage(outq'[c][Len(outq[c]) + 1], w) /\ outq'[c][Len(outq[c]) + 1].n = e + 1
      BY <1>4, <1>9
    <3> QED BY <3>1, <3>2 DEF InQueue
  <2>2. ASSUME NEW n \in Len(phoneGot[w]) + 1 .. e + 1
        PROVE  OnSocket(c, w, n)' \/ InQueue(c, w, n)'
    <3>1. n = e + 1 \/ n \in Len(phoneGot[w]) + 1 .. e
      BY <1>3
    <3> QED BY <1>2, <1>7, <1>8, <1>9, <2>1, <3>1 DEF NoneMissing
  <2>3. ASSUME NEW k \in 1..Len(outq'[c]), IsMessage(outq'[c][k], w),
               NEW n \in Len(phoneGot[w]) + 1 .. outq'[c][k].n
        PROVE  OnSocket(c, w, n)' \/ InQueue(c, w, n)'
    <3>1. CASE k \in 1..Len(outq[c])
      BY <1>2, <1>6, <1>7, <1>8, <2>3, <3>1 DEF NoneMissing
    <3>2. CASE outq'[c][k] = g
      BY <1>4, <2>2, <2>3, <3>2
    <3> QED BY <1>4, <1>5, <1>9, <3>1, <3>2
  <2> QED BY <1>1, <1>2, <1>3, <1>7, <2>2, <2>3 DEF NoneMissing
<1>10. CASE writer[c] # "running"
  <2>1. outq'[c] = outq[c]
    BY <1>1, <1>10 DEF EngineSends, SendFrame, TypesInv, ClientInv, ClientTypeOK
  <2> QED BY <1>1, <1>2, <1>7, <1>8, <1>10, <2>1 DEF NoneMissing
<1> QED BY <1>9, <1>10

(* The writer moves a message from its queue to the socket, in its place. *)
LEMMA WriteKeepsNoGap ==
  ASSUME TypesInv, TypesInv', UNCHANGED roomVars, NEW c \in Sockets, WriterSends(c),
         NEW w \in Legs, UpOrder(w), NoGap(w)
  PROVE  NoGap(w)'
<1> DEFINE f == outq[c][1]
<1>1. /\ 1 \in 1..Len(outq[c]) /\ Added(up', up, c, f) /\ outq' = [outq EXCEPT ![c] = Tail(@)]
      /\ UNCHANGED <<legOf, engineSent, phoneGot, phone, cut, relayEnd, writer>>
  BY FrameWritten DEF roomVars
<1>2. /\ \A x \in Sockets : \A k \in 1..Len(outq[x]) : outq[x][k].n \in Nat
      /\ \A x \in Sockets : /\ Len(up[x]) \in Nat /\ Len(outq[x]) \in Nat
                            /\ Len(up'[x]) \in Nat /\ Len(outq'[x]) \in Nat
      /\ Len(phoneGot[w]) \in Nat /\ f.n \in Nat
  BY <1>1, UpTyped, LenProperties DEF TypesInv, LinkInv, ClientInv
<1>3. /\ Len(outq'[c]) = Len(outq[c]) - 1
      /\ \A k \in 1..Len(outq[c]) - 1 : outq'[c][k] = outq[c][k + 1]
      /\ \A d \in Sockets : d # c => outq'[d] = outq[d]
  <2>1. outq \in [Sockets -> Seq(UpFrames)] /\ outq[c] # <<>>
    BY DEF WriterSends, TypesInv, ClientInv
  <2> QED BY <1>1, <2>1, TailTakes
<1> SUFFICES ASSUME NEW d \in Sockets, d = legOf[w], phone[w] = "open", Alive(d)
             PROVE  NoneMissing(d, w)'
  BY <1>1 DEF NoGap, Alive
<1>4. NoneMissing(d, w)
  BY DEF NoGap
<1>5. CASE d # c
  <2>1. outq'[d] = outq[d] /\ up'[d] = up[d]
    BY <1>1, <1>3, <1>5 DEF Added
  <2> QED BY <1>1, <1>4, <2>1, NoneMissingKept
<1>6. CASE d = c
  <2>1. up'[c] = Append(up[c], f) /\ up[c] \in Seq(UpFrames)
    BY <1>6 DEF WriterSends, Put, Alive, TypesInv, LinkInv
  <2>2. /\ Len(up'[c]) = Len(up[c]) + 1 /\ up'[c][Len(up[c]) + 1] = f
        /\ \A k \in 1..Len(up[c]) : up'[c][k] = up[c][k]
    BY <2>1
  <2> HIDE DEF f
  <2>3. ASSUME NEW n, OnSocket(c, w, n) PROVE OnSocket(c, w, n)'
    <3>1. PICK k \in 1..Len(up[c]) : IsMessage(up[c][k], w) /\ up[c][k].n = n
      BY <2>3 DEF OnSocket
    <3>2. k \in 1..Len(up'[c]) /\ up'[c][k] = up[c][k]
      BY <1>2, <2>2
    <3> QED BY <3>1, <3>2 DEF OnSocket
  <2>4. ASSUME NEW n, n = f.n, IsMessage(f, w) PROVE OnSocket(c, w, n)'
    <3>1. Len(up[c]) + 1 \in 1..Len(up'[c])
      BY <1>2, <2>2
    <3> QED BY <2>2, <2>4, <3>1 DEF OnSocket
  <2>5. ASSUME NEW n, InQueue(c, w, n) PROVE OnSocket(c, w, n)' \/ InQueue(c, w, n)'
    <3>1. PICK k \in 1..Len(outq[c]) : IsMessage(outq[c][k], w) /\ outq[c][k].n = n
      BY <2>5 DEF InQueue
    <3>2. CASE k = 1
      BY <2>4, <3>1, <3>2 DEF f
    <3>3. CASE k # 1
      <4>1. PICK q \in 1..Len(outq'[c]) : k = q + 1 /\ outq'[c][q] = outq[c][k]
        BY <1>2, <1>3, <3>3
      <4> QED BY <3>1, <4>1 DEF InQueue
    <3> QED BY <3>2, <3>3
  <2>6. ASSUME NEW k \in 1..Len(up'[c]), IsMessage(up'[c][k], w),
               NEW n \in Len(phoneGot[w]) + 1 .. up'[c][k].n
        PROVE  OnSocket(c, w, n)'
    <3>1. CASE k \in 1..Len(up[c])
      BY <1>4, <1>6, <2>2, <2>3, <2>6, <3>1 DEF NoneMissing
    <3>2. CASE up'[c][k] = f
      <4>1. n \in Len(phoneGot[w]) + 1 .. outq[c][1].n /\ IsMessage(outq[c][1], w)
        BY <2>6, <3>2 DEF f
      <4>2. CASE OnSocket(c, w, n)
        BY <2>3, <4>2
      <4>3. CASE InQueue(c, w, n)
        <5>1. PICK q \in 1..Len(outq[c]) : IsMessage(outq[c][q], w) /\ outq[c][q].n = n
          BY <4>3 DEF InQueue
        <5>2. 1 < q => outq[c][1].n < outq[c][q].n
          BY <1>1, <4>1, <5>1 DEF UpOrder
        <5>3. ~(1 < q)
          BY <1>2, <4>1, <5>1, <5>2
        <5>4. q = 1
          BY <1>2, <5>3
        <5> QED BY <2>4, <4>1, <5>1, <5>4 DEF f
      <4> QED BY <1>1, <1>4, <1>6, <4>1, <4>2, <4>3 DEF NoneMissing
    <3> QED BY <1>2, <2>2, <3>1, <3>2
  <2>7. ASSUME NEW k \in 1..Len(outq'[c]), IsMessage(outq'[c][k], w),
               NEW n \in Len(phoneGot[w]) + 1 .. outq'[c][k].n
        PROVE  OnSocket(c, w, n)' \/ InQueue(c, w, n)'
    <3>0. k + 1 \in 1..Len(outq[c]) /\ outq'[c][k] = outq[c][k + 1]
      BY <1>2, <1>3
    <3>1. PICK q \in 1..Len(outq[c]) : outq'[c][k] = outq[c][q]
      BY <3>0
    <3>2. OnSocket(c, w, n) \/ InQueue(c, w, n)
      BY <1>4, <1>6, <2>7, <3>1 DEF NoneMissing
    <3> QED BY <2>3, <2>5, <3>2
  <2>8. ASSUME writer'[c] = "running", NEW n \in Len(phoneGot[w]) + 1 .. engineSent[w]
        PROVE  OnSocket(c, w, n)' \/ InQueue(c, w, n)'
    BY <1>1, <1>4, <1>6, <2>3, <2>5, <2>8 DEF NoneMissing
  <2> QED BY <1>1, <1>6, <2>6, <2>7, <2>8 DEF NoneMissing
<1> QED BY <1>5, <1>6

LEMMA ClientKeepsNoGap ==
  ASSUME TypesInv, TypesInv', UNCHANGED roomVars, ClientNext,
         NEW w \in Legs, OpeningInv(w), UpOrder(w), NoGap(w)
  PROVE  NoGap(w)'
<1>0. phoneGot' = phoneGot /\ phone' = phone
  BY DEF roomVars
<1>1. ASSUME NEW c \in Sockets, Dispatch(c) PROVE NoGap(w)'
  <2>1. /\ UNCHANGED <<up, outq, engineSent, writer, relayEnd, cut>>
        /\ legOf'[w] = legOf[w] \/ legOf[w] = None
    BY <1>1, OpenedNow
  <2>2. CASE legOf'[w] = legOf[w]
    <3>1. \A d \in Sockets : SameMessages(up'[d], up[d], w) /\ (Alive(d)' => Alive(d))
      BY <2>1 DEF SameMessages, Alive
    <3> QED BY <1>0, <2>1, <2>2, <3>1, NoGapKept
  <2>3. CASE legOf[w] = None
    <3>1. /\ engineSent'[w] = 0 /\ Len(phoneGot'[w]) = 0
          /\ \A x \in Sockets : \A k \in 1..Len(up'[x]) : ~IsMessage(up'[x][k], w)
          /\ \A x \in Sockets : \A k \in 1..Len(outq'[x]) : ~IsMessage(outq'[x][k], w)
      BY <1>0, <2>1, <2>3, UnopenedLeg
    <3>2. \A n : n \notin Len(phoneGot'[w]) + 1 .. engineSent'[w]
      BY <3>1
    <3> SUFFICES ASSUME NEW d \in Sockets PROVE NoneMissing(d, w)'
      BY DEF NoGap
    <3>3. /\ \A k \in 1..Len(up'[d]) : ~IsMessage(up'[d][k], w)
          /\ \A k \in 1..Len(outq'[d]) : ~IsMessage(outq'[d][k], w)
      BY <3>1
    <3> QED BY <3>2, <3>3 DEF NoneMissing, OnSocket, InQueue
  <2> QED BY <2>1, <2>2, <2>3
<1>2. ASSUME NEW c \in Sockets, WriterFails(c) PROVE NoGap(w)'
  <2>1. UNCHANGED <<up, legOf, engineSent, relayEnd, cut>>
    BY <1>2 DEF WriterFails, linkVars
  <2>2. /\ \A d \in Sockets : d # c => outq'[d] = outq[d] /\ writer'[d] = writer[d]
        /\ outq'[c] = <<>> /\ writer'[c] = "done"
    BY <1>2 DEF WriterFails, TypesInv, ClientInv, ClientTypeOK
  <2>3. Len(outq'[c]) = 0
    BY <2>2, EmptySeq
  <2> SUFFICES ASSUME NEW d \in Sockets, d = legOf[w], phone[w] = "open", Alive(d)
               PROVE  NoneMissing(d, w)'
    BY <1>0, <2>1 DEF NoGap, Alive
  <2>4. NoneMissing(d, w)
    BY DEF NoGap
  <2>5. CASE d = c
    BY <1>0, <2>1, <2>2, <2>3, <2>4, <2>5 DEF NoneMissing, OnSocket
  <2>6. CASE d # c
    BY <1>0, <2>1, <2>2, <2>4, <2>6, NoneMissingKept
  <2> QED BY <2>5, <2>6
<1>3. CASE /\ ~\E c \in Sockets : Dispatch(c) \/ WriterSends(c) \/ WriterFails(c)
           /\ ~EngineSends(w)
  <2>1. /\ UNCHANGED <<relayEnd, up, cut, legOf>> /\ engineSent'[w] = engineSent[w]
        /\ \A c \in Sockets : writer'[c] = "running" => writer[c] = "running"
        /\ \/ outq' = outq
           \/ \E d \in Sockets, g \in UpFrames : Added(outq', outq, d, g) /\ ~IsMessage(g, w)
    BY <1>3, ClientSends
  <2>2. \A d \in Sockets : SameMessages(up'[d], up[d], w) /\ (Alive(d)' => Alive(d))
    BY <2>1 DEF SameMessages, Alive
  <2> QED BY <1>0, <2>1, <2>2, NoGapKept
<1> QED BY <1>1, <1>2, <1>3, WriteKeepsNoGap, SendKeepsNoGap DEF ClientNext

(* The steps of neither side, for what is on its way to a phone. *)
LEMMA OtherStepsKeepNoGap ==
  ASSUME TypesInv, TypesInv', [Next]_vars, ~(RoomNext /\ UNCHANGED clientVars),
         ~(ClientNext /\ UNCHANGED roomVars), NEW w \in Legs, OpeningInv(w), NoGap(w)
  PROVE  NoGap(w)'
<1>0. UNCHANGED <<phone, phoneGot, legOf, engineSent, outq>>
  BY OtherSteps
<1>1. ASSUME NEW c \in Sockets, Register(c) PROVE NoGap(w)'
  <2>1. up' = up /\ cut' = cut /\ c = session + 1
    BY <1>1 DEF Register, Dial, HandleDesktopRegister
  <2>2. session \in Nat
    BY LinkAssumption DEF TypesInv, ClientInv, ClientTypeOK, Sockets, LinkAssumption
  <2>3. legOf[w] # c
    BY <2>1, <2>2, LinkAssumption DEF OpeningInv, LinkAssumption
  <2>4. \A d \in Sockets : d # c => writer'[d] = writer[d] /\ (relayEnd'[d] # "closed" => relayEnd[d] # "closed")
    BY <1>1 DEF Register, Dial, HandleDesktopRegister, TypesInv, ClientInv, ClientTypeOK
  <2>5. \A d \in Sockets : SameMessages(up'[d], up[d], w) /\ (d # c /\ Alive(d)' => Alive(d))
    BY <2>1, <2>4 DEF SameMessages, Alive
  <2> QED BY <1>0, <2>3, <2>4, <2>5, NoGapKept
<1>2. ASSUME NEW c \in Sockets, CutLink(c), UNCHANGED <<roomVars, clientVars>> PROVE NoGap(w)'
  <2>1. writer' = writer /\ relayEnd' = relayEnd /\ c \in cut' /\ cut' = cut \cup {c}
    BY <1>2 DEF CutLink, clientVars
  <2>2. \A d \in Sockets : d # c => up'[d] = up[d]
    BY <1>2 DEF CutLink, TypesInv, LinkInv
  <2>3. \A d \in Sockets : Alive(d)' => Alive(d) /\ SameMessages(up'[d], up[d], w)
    BY <2>1, <2>2 DEF Alive, SameMessages
  <2> QED BY <1>0, <2>1, <2>3, NoGapKept
<1>3. CASE DesktopFallsSilent \/ RoomFallsSilent \/ UNCHANGED vars
  <2>1. UNCHANGED <<up, writer, cut, relayEnd>>
    BY <1>3 DEF DesktopFallsSilent, RoomFallsSilent, EndSession, linkVars, clientVars, vars
  <2>2. \A d \in Sockets : SameMessages(up'[d], up[d], w) /\ (Alive(d)' => Alive(d))
    BY <2>1 DEF SameMessages, Alive
  <2> QED BY <1>0, <2>1, <2>2, NoGapKept
<1> QED BY <1>1, <1>2, <1>3 DEF Next, RoomDoes, ClientDoes

LEMMA StepKeepsPath ==
  ASSUME TypesInv, OpenPhonesAreKnown, CutEmpty, [Next]_vars,
         NEW w \in Legs, OpeningInv(w), UpOrder(w), NoGap(w)
  PROVE  UpOrder(w)' /\ NoGap(w)'
<1>0. TypesInv'
  BY StepKeepsTypes
<1>1. CASE RoomNext /\ UNCHANGED clientVars
  BY <1>0, <1>1, RoomKeepsPath, DeliveryKeepsPath, TakeKeepsPath
<1>2. CASE ClientNext /\ UNCHANGED roomVars
  BY <1>0, <1>2, ClientKeepsUpOrder, ClientKeepsNoGap
<1>3. CASE ~(RoomNext /\ UNCHANGED clientVars) /\ ~(ClientNext /\ UNCHANGED roomVars)
  <2>1. UpOrder(w)'
    BY <1>0, <1>3, OtherSteps, QueuesKept, UpOrderUndisturbed
  <2> QED BY <1>0, <1>3, <2>1, OtherStepsKeepNoGap
<1> QED BY <1>1, <1>2, <1>3

LEMMA StepKeepsLegs ==
  ASSUME TypesInv, OpenPhonesAreKnown, LegsInv, [Next]_vars
  PROVE  LegsInv'
<1>1. CutEmpty'
  BY StepKeepsCutEmpty DEF LegsInv
<1>2. ASSUME NEW w \in Legs
      PROVE  OpeningInv(w)' /\ DownOrder(w)' /\ UpOrder(w)' /\ NoGap(w)'
  BY StepKeepsOpening, StepKeepsDownOrder, StepKeepsPath DEF LegsInv
<1> QED BY <1>1, <1>2 DEF LegsInv

LEMMA LegsAlways == Spec => [](TypesInv /\ OpenPhonesAreKnown /\ LegsInv)
<1>1. ASSUME Init PROVE LegsInv
  <2>1. \A c \in Sockets : down[c] = <<>> /\ up[c] = <<>> /\ outq[c] = <<>>
    BY <1>1 DEF Init, LinkInit, ClientInit
  <2>2. \A c \in Sockets : Len(down[c]) = 0 /\ Len(up[c]) = 0 /\ Len(outq[c]) = 0
    BY <2>1, EmptySeq
  <2>3. ASSUME NEW w \in Legs
        PROVE  /\ phoneGot[w] = <<>> /\ engineGot[w] = <<>> /\ engineSent[w] = 0 /\ phoneSent[w] = 0
               /\ legOf[w] = None /\ phone[w] = "none"
    BY <1>1 DEF Init, RoomInit, ClientInit
  <2>4. \A w \in Legs : Len(phoneGot[w]) = 0 /\ Len(engineGot[w]) = 0
    BY <2>3, EmptySeq
  <2>5. CutEmpty
    BY <1>1 DEF CutEmpty, Init, LinkInit
  <2>6. ASSUME NEW w \in Legs PROVE OpeningInv(w)
    BY <2>2, <2>3, <2>6 DEF OpeningInv
  <2>7. ASSUME NEW w \in Legs PROVE DownOrder(w)
    BY <2>2, <2>3, <2>4, <2>7 DEF DownOrder
  <2>8. ASSUME NEW w \in Legs PROVE UpOrder(w)
    BY <2>2, <2>3, <2>4, <2>8 DEF UpOrder
  <2>9. ASSUME NEW w \in Legs PROVE NoGap(w)
    BY <2>3, <2>9 DEF NoGap
  <2> QED BY <2>5, <2>6, <2>7, <2>8, <2>9 DEF LegsInv
<1>2. Init => TypesInv /\ OpenPhonesAreKnown
  BY InitHasTypes DEF Init, RoomInit, OpenPhonesAreKnown
<1>3. TypesInv /\ OpenPhonesAreKnown /\ LegsInv /\ [Next]_vars
        => (TypesInv /\ OpenPhonesAreKnown /\ LegsInv)'
  BY StepKeepsTypes, StepKeepsPhones, StepKeepsLegs
<1> QED BY <1>1, <1>2, <1>3, PTL DEF Spec

(* The engine gets what a phone sends on its leg in order and at most once:
   the room's sendToDesktop, the socket and `dispatch` keep the order, and a
   leg is opened on one session only. *)
THEOREM EngineOrder == Spec => []EngineSeesPhoneOrder
<1>1. ASSUME TypesInv, LegsInv PROVE EngineSeesPhoneOrder
  <2> SUFFICES ASSUME NEW w \in Legs
               PROVE  /\ \A k \in 2..Len(engineGot[w]) : engineGot[w][k - 1] < engineGot[w][k]
                      /\ \A k \in DOMAIN engineGot[w] : engineGot[w][k] <= phoneSent[w]
    BY DEF EngineSeesPhoneOrder
  <2>1. Len(engineGot[w]) \in Nat /\ DOMAIN engineGot[w] = 1..Len(engineGot[w])
    BY <1>1, DownTyped, LenProperties
  <2>2. /\ \A j \in 1..Len(engineGot[w]) : engineGot[w][j] <= phoneSent[w]
        /\ \A i, j \in 1..Len(engineGot[w]) : i < j => engineGot[w][i] < engineGot[w][j]
    BY <1>1 DEF LegsInv, DownOrder
  <2>3. ASSUME NEW k \in 2..Len(engineGot[w]) PROVE engineGot[w][k - 1] < engineGot[w][k]
    <3>1. k - 1 \in 1..Len(engineGot[w]) /\ k \in 1..Len(engineGot[w]) /\ k - 1 < k
      BY <2>1
    <3> QED BY <2>2, <3>1
  <2> QED BY <2>1, <2>2, <2>3
<1> QED BY <1>1, LegsAlways, PTL

(* A phone gets what the engine sends on its leg in order and without a gap:
   the pump, the session's writer, the socket and onDesktopMessage keep the
   order, and what is lost is lost with all that comes after it. *)
THEOREM PhoneOrder == Spec => []PhoneSeesEngineOrder
<1>1. ASSUME TypesInv, LegsInv PROVE PhoneSeesEngineOrder
  <2> SUFFICES ASSUME NEW w \in Legs
               PROVE  /\ Len(phoneGot[w]) <= engineSent[w]
                      /\ \A k \in DOMAIN phoneGot[w] : phoneGot[w][k] = k
    BY DEF PhoneSeesEngineOrder
  <2>1. DOMAIN phoneGot[w] = 1..Len(phoneGot[w])
    BY <1>1, UpTyped, LenProperties
  <2> QED BY <1>1, <2>1 DEF LegsInv, UpOrder
<1> QED BY <1>1, LegsAlways, PTL
=============================================================================
