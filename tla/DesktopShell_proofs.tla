------------------------- MODULE DesktopShell_proofs -------------------------
(***************************************************************************)
(* Proofs about DesktopShell, for any number of engines and hooks: two     *)
(* engines never run at once, and a page that is told of a restart follows *)
(* it.                                                                     *)
(***************************************************************************)
EXTENDS DesktopShell, TLAPS

ShellTypeOK ==
  /\ engine \in [Engines -> {"none", "booting", "up", "dead"}]
  /\ latest \in Engines
  /\ slot \in 0..MaxEngines
  /\ supervisor \in {"none", "waiting", "locking", "clearing", "sleeping", "booting", "telling", "storing"}

(* Only the engine started last may run. *)
InOrder ==
  \A e \in Engines : /\ e < latest => engine[e] = "dead"
                     /\ e > latest => engine[e] = "none"

(* What the thread knows at each place: the slot names the last engine, or *)
(* is empty because that one is gone or not yet there.                     *)
SlotOk ==
  /\ supervisor \in {"locking", "waiting"} => slot = latest \/ (slot = None /\ engine[latest] = "dead")
  /\ supervisor \in {"clearing", "sleeping"} => engine[latest] = "dead"
  /\ supervisor \in {"sleeping", "booting", "telling", "storing"} => slot = None

(* The thread begins once, with the first engine. *)
SetupOk ==
  /\ setup = "booting" => supervisor = "none"
  /\ supervisor = "none" => latest = 1

EngineInv == ShellTypeOK /\ InOrder /\ SlotOk /\ SetupOk

engineState == <<engine, latest, slot, supervisor>>

(* Everything that leaves engines, slot and thread alone: the page, and    *)
(* the setup closure once the first engine is there.                       *)
LEMMA OthersKeepInv ==
  ASSUME EngineInv, UNCHANGED engineState, setup' = setup \/ setup' # "booting"
  PROVE  EngineInv'
BY DEF EngineInv, engineState, ShellTypeOK, InOrder, SlotOk, SetupOk

(* Only the last engine prints a banner or dies, and it dies once.         *)
LEMMA ProcessKeepsInv ==
  ASSUME EngineInv, Banner \/ EngineDies
  PROVE  EngineInv'
<1>1. ShellTypeOK'
  BY DEF EngineInv, ShellTypeOK, Banner, EngineDies
<1>2. InOrder'
  BY ShellAssumption DEF EngineInv, ShellTypeOK, InOrder, Banner, EngineDies, Engines
<1>3. SlotOk'
  BY DEF EngineInv, ShellTypeOK, SlotOk, Banner, EngineDies
<1>4. SetupOk'
  BY DEF EngineInv, SetupOk, Banner, EngineDies
<1> QED
  BY <1>1, <1>2, <1>3, <1>4 DEF EngineInv

(* The next engine is started only where the last one is known to be gone. *)
LEMMA RespawnKeepsInv ==
  ASSUME EngineInv, Respawn
  PROVE  EngineInv'
<1>1. latest \in Nat /\ latest + 1 \in Engines /\ latest' = latest + 1 /\ engine[latest] = "dead"
  BY ShellAssumption DEF EngineInv, ShellTypeOK, SlotOk, Respawn, Engines
<1>2. ShellTypeOK'
  BY <1>1 DEF EngineInv, ShellTypeOK, Respawn
<1>3. ASSUME NEW e \in Engines
      PROVE  /\ e < latest' => engine'[e] = "dead"
             /\ e > latest' => engine'[e] = "none"
  <2>1. e \in Nat /\ engine' = [engine EXCEPT ![latest + 1] = "booting"]
    BY ShellAssumption DEF Engines, Respawn
  <2>2. CASE e < latest'
    <3>1. (e < latest \/ e = latest) /\ e # latest + 1
      BY <1>1, <2>1, <2>2
    <3> QED
      BY <1>1, <2>1, <2>2, <3>1 DEF EngineInv, ShellTypeOK, InOrder
  <2>3. CASE e > latest'
    <3>1. e > latest /\ e # latest + 1
      BY <1>1, <2>1, <2>3
    <3> QED
      BY <1>1, <2>1, <2>3, <3>1 DEF EngineInv, ShellTypeOK, InOrder
  <2> QED
    BY <1>1, <2>1, <2>2, <2>3
<1>4. SlotOk' /\ SetupOk'
  BY DEF EngineInv, SlotOk, SetupOk, Respawn
<1> QED
  BY <1>2, <1>3, <1>4 DEF EngineInv, InOrder

LEMMA SupervisorKeepsInv ==
  ASSUME EngineInv, Supervisor
  PROVE  EngineInv'
<1> USE DEF EngineInv, ShellTypeOK, InOrder, SlotOk, SetupOk
<1>1. CASE LockAndWait
  BY <1>1 DEF LockAndWait
<1>2. CASE ExitSeen
  BY <1>2, ShellAssumption DEF ExitSeen, Engines, None
<1>3. CASE ClearSlot
  BY <1>3, ShellAssumption DEF ClearSlot, None
<1>4. CASE Respawn
  BY <1>4, RespawnKeepsInv
<1>5. CASE Respawned
  BY <1>5 DEF Respawned
<1>6. CASE TellRestart
  BY <1>6 DEF TellRestart
<1>7. CASE StoreSlot
  BY <1>7, ShellAssumption DEF StoreSlot, Engines
<1> QED
  BY <1>1, <1>2, <1>3, <1>4, <1>5, <1>6, <1>7 DEF Supervisor

(* The first engine is in the slot when the thread begins.                 *)
LEMMA BootedKeepsInv ==
  ASSUME EngineInv, Booted
  PROVE  EngineInv'
<1>1. CASE engine[1] = "dead" /\ Abort
  BY <1>1, OthersKeepInv DEF Abort, engineState
<1>2. CASE engine[1] = "up" /\ ~(engine[1] = "dead" /\ Abort)
  <2>1. latest = 1 /\ slot' = 1 /\ supervisor' = "locking" /\ setup' = "reading"
        /\ UNCHANGED <<engine, latest>>
    BY <1>2 DEF EngineInv, SetupOk, Booted
  <2> QED
    BY <2>1, ShellAssumption DEF EngineInv, ShellTypeOK, InOrder, SlotOk, SetupOk, Engines
<1> QED
  BY <1>1, <1>2 DEF Booted

LEMMA EngineStep == EngineInv /\ [Next]_vars => EngineInv'
<1> SUFFICES ASSUME EngineInv, [Next]_vars PROVE EngineInv'
  OBVIOUS
<1>1. CASE UNCHANGED vars
  BY <1>1, OthersKeepInv DEF vars, shellVars, engineState
<1>2. CASE Banner \/ EngineDies
  BY <1>2, ProcessKeepsInv
<1>3. CASE Supervisor
  BY <1>3, SupervisorKeepsInv
<1>4. CASE Booted
  BY <1>4, BootedKeepsInv
<1>5. CASE ReadSlot \/ Health \/ Stash \/ Inject \/ Announce
  BY <1>5, OthersKeepInv DEF ReadSlot, Health, Stash, Inject, Announce, Abort, engineState
<1>6. CASE Page
  BY <1>6, OthersKeepInv
     DEF Page, Loading, LoadDocument, RunModule, PullHandshake, HandleMessage, Reload,
         PullAnswered, PullTimesOut, Listen, Mount, Unmount, shellVars, engineState
<1> QED
  BY <1>1, <1>2, <1>3, <1>4, <1>5, <1>6 DEF Next, Setup

(* Two engines, which would write the same database and files, never run   *)
(* at once, however often the engine dies, before its banner or after, and *)
(* however the thread, the setup and the page interleave (the loop of      *)
(* spawn_supervisor).                                                      *)
THEOREM SingleEngine == FairSpec => []OneEngine
<1>1. Init => EngineInv
  BY ShellAssumption DEF Init, EngineInv, ShellTypeOK, InOrder, SlotOk, SetupOk, Engines, None
<1>2. EngineInv /\ [Next]_vars => EngineInv'
  BY EngineStep
<1>3. EngineInv => OneEngine
  <2> SUFFICES ASSUME EngineInv, NEW e \in Engines, NEW f \in Engines,
                      {engine[e], engine[f]} \subseteq {"booting", "up"}
               PROVE  e = f
    BY DEF OneEngine
  <2>1. engine[e] \notin {"none", "dead"} /\ engine[f] \notin {"none", "dead"}
    OBVIOUS
  <2>2. e = latest /\ f = latest
    BY <2>1, ShellAssumption DEF EngineInv, ShellTypeOK, InOrder, Engines
  <2> QED
    BY <2>2
<1> QED
  BY <1>1, <1>2, <1>3, PTL DEF FairSpec

(***************************************************************************)
(* A restart the page was told of.  What is on its way to the page after   *)
(* the last restart can only be the announcement of the setup, which a     *)
(* page with a client ignores.  No answer of the pull is on its way either: *)
(* a page asks only while it has no client.                                *)
(***************************************************************************)
PageTypes ==
  /\ inbox \in Seq(Message)
  /\ handshake \in 0..MaxEngines
  /\ setup \in {"health", "stashing", "injecting", "announcing"} => handshake # None
  /\ stashed \in 0..MaxEngines

(* The restart is still on its way, and nothing but the announcement after it. *)
Coming(i) ==
  /\ inbox[i].kind = "restarted" /\ inbox[i].engine = followed
  /\ \A j \in DOMAIN inbox : j > i => inbox[j].kind = "ready"

(* It has arrived. *)
Arrived ==
  /\ \A j \in DOMAIN inbox : inbox[j].kind = "ready"
  /\ client = followed
  /\ shared \in {None, client}

FollowInv ==
  followed # None => client # None /\ (Arrived \/ \E i \in DOMAIN inbox : Coming(i))

(* A document whose module has not run has heard nothing, and the answer of *)
(* the pull is not awaited by a page that has a restart to follow.          *)
LoadInv ==
  /\ page # "running" => listening = {} /\ followed = None
  /\ pull = "asked" => followed = None

PageInv == EngineInv /\ PageTypes /\ LoadInv /\ FollowInv

(* A message joins the others: the announcement, or a restart that is told *)
(* to a page that follows none.                                            *)
LEMMA SayKeepsFollow ==
  ASSUME PageInv, NEW m \in Message, inbox' = Append(inbox, m),
         m.kind = "ready" \/ followed = None,
         UNCHANGED <<client, shared, followed>>
  PROVE  inbox' \in Seq(Message) /\ FollowInv'
<1>1. /\ inbox' \in Seq(Message)
      /\ Len(inbox) \in Nat /\ DOMAIN inbox = 1..Len(inbox) /\ DOMAIN inbox' = 1..(Len(inbox) + 1)
      /\ \A i \in 1..Len(inbox) : inbox'[i] = inbox[i]
      /\ inbox'[Len(inbox) + 1] = m
  BY DEF PageInv, PageTypes
<1>2. ASSUME followed # None PROVE client # None /\ (Arrived' \/ \E i \in DOMAIN inbox' : Coming(i)')
  <2>1. client # None /\ m.kind = "ready"
    BY <1>2 DEF PageInv, FollowInv
  <2>2. \A j \in DOMAIN inbox' : j \in DOMAIN inbox \/ inbox'[j].kind = "ready"
    BY <1>1, <2>1
  <2>3. CASE Arrived
    <3>1. Arrived'
      BY <1>1, <2>2, <2>3 DEF Arrived
    <3> QED BY <2>1, <3>1
  <2>4. ASSUME NEW i \in DOMAIN inbox, Coming(i) PROVE i \in DOMAIN inbox' /\ Coming(i)'
    BY <1>1, <2>2, <2>4 DEF Coming
  <2> QED BY <1>2, <2>1, <2>3, <2>4 DEF PageInv, FollowInv
<1> QED BY <1>1, <1>2 DEF FollowInv

(* A page with a client is told of a restart. *)
LEMMA RestartKeepsFollow ==
  ASSUME PageInv, client # None, latest # None, latest \in Engines,
         inbox' = Append(inbox, [kind |-> "restarted", engine |-> latest]),
         UNCHANGED <<client, shared>>, followed' = latest
  PROVE  inbox' \in Seq(Message) /\ FollowInv'
<1> DEFINE m == [kind |-> "restarted", engine |-> latest]
<1>1. m \in Message /\ m.kind = "restarted" /\ m.engine = latest
  BY DEF Message
<1> HIDE DEF m
<1>2. inbox' = Append(inbox, m)
  BY DEF m
<1>3. PICK n \in Nat : n = Len(inbox) + 1
  BY DEF PageInv, PageTypes
<1>4. /\ inbox' \in Seq(Message)
      /\ DOMAIN inbox' = 1..n
      /\ inbox'[n] = m
  BY <1>1, <1>2, <1>3 DEF PageInv, PageTypes
<1>5. n \in DOMAIN inbox' /\ \A j \in DOMAIN inbox' : ~(j > n)
  BY <1>3, <1>4 DEF PageInv, PageTypes
<1>6. Coming(n)'
  BY <1>1, <1>4, <1>5 DEF Coming
<1> QED BY <1>4, <1>5, <1>6 DEF FollowInv

(* The page handles a message. *)
LEMMA HandleKeepsFollow ==
  ASSUME PageInv, HandleMessage
  PROVE  inbox' \in Seq(Message) /\ FollowInv'
<1>1. PICK n \in Nat : n = Len(inbox)
  BY DEF PageInv, PageTypes
<1>2. /\ inbox \in Seq(Message) /\ inbox # <<>> /\ n > 0
      /\ inbox' = Tail(inbox) /\ followed' = followed /\ Applied(inbox[1])
      /\ inbox[1] \in Message
  BY <1>1 DEF PageInv, PageTypes, HandleMessage
<1>3. /\ inbox' \in Seq(Message)
      /\ DOMAIN inbox = 1..n /\ DOMAIN inbox' = 1..(n - 1)
      /\ \A i \in 1..(n - 1) : inbox'[i] = inbox[i + 1]
  BY <1>1, <1>2
<1>4. inbox[1].engine # None
  BY <1>2, ShellAssumption DEF Message, Engines, None
<1>5. ASSUME followed # None PROVE client' # None /\ (Arrived' \/ \E i \in DOMAIN inbox' : Coming(i)')
  <2>1. client # None
    BY <1>5 DEF PageInv, FollowInv
  <2>2. client' # None
    BY <1>2, <1>4, <2>1 DEF Applied
  <2>3. CASE Arrived
    <3>1. inbox[1].kind = "ready"
      BY <1>2, <1>3, <2>3 DEF Arrived
    <3>2. client' = client /\ shared' = shared
      BY <1>2, <2>1, <3>1 DEF Applied
    <3>3. \A j \in DOMAIN inbox' : inbox'[j].kind = "ready"
      BY <1>3, <2>3 DEF Arrived
    <3>4. Arrived'
      BY <1>2, <2>3, <3>2, <3>3 DEF Arrived
    <3> QED BY <2>2, <3>4
  <2>4. ASSUME Coming(1), 1 \in DOMAIN inbox PROVE Arrived'
    <3>1. client' = followed' /\ shared' = None
      BY <1>2, <2>4 DEF Coming, Applied
    <3>2. \A j \in DOMAIN inbox' : inbox'[j].kind = "ready"
      BY <1>1, <1>3, <2>4 DEF Coming
    <3> QED BY <3>1, <3>2 DEF Arrived
  <2>5. ASSUME NEW i \in DOMAIN inbox, i # 1, Coming(i)
        PROVE  \E k \in DOMAIN inbox' : Coming(k)'
    <3>1. PICK k \in Nat : k = i - 1
      BY <1>1, <1>3, <2>5
    <3>2. k \in DOMAIN inbox' /\ inbox'[k] = inbox[i]
      BY <1>1, <1>3, <2>5, <3>1
    <3>3. \A j \in DOMAIN inbox' : j > k => inbox'[j].kind = "ready"
      BY <1>1, <1>3, <2>5, <3>1 DEF Coming
    <3>4. Coming(k)'
      BY <1>2, <2>5, <3>2, <3>3 DEF Coming
    <3> QED BY <3>2, <3>4
  <2> QED BY <1>5, <2>2, <2>3, <2>4, <2>5 DEF PageInv, FollowInv
<1> QED BY <1>2, <1>3, <1>5 DEF FollowInv

(* The steps of the engines, the thread and the setup that tell the page nothing. *)
LEMMA SilentKeepsPage ==
  ASSUME PageInv, UNCHANGED pageVars, stashed' \in {stashed, handshake},
         \/ handshake' = handshake /\ (setup' = setup \/ setup' \in {"reading", "done", "aborted"})
         \/ handshake' = handshake /\ setup \in {"health", "stashing", "injecting", "announcing"}
         \/ handshake' \in (0..MaxEngines) \ {None}
  PROVE  PageTypes' /\ LoadInv' /\ FollowInv'
BY DEF PageInv, PageTypes, LoadInv, FollowInv, Arrived, Coming, pageVars

LEMMA PageStep ==
  ASSUME PageInv, [Next]_vars
  PROVE  PageInv'
<1>1. EngineInv'
  BY EngineStep DEF PageInv
<1> SUFFICES PageTypes' /\ LoadInv' /\ FollowInv'
  BY <1>1 DEF PageInv
<1>2. PageTypes /\ LoadInv /\ FollowInv /\ latest \in Engines /\ latest # None /\ slot \in 0..MaxEngines
  BY ShellAssumption DEF PageInv, EngineInv, ShellTypeOK, Engines, None
<1>3. CASE UNCHANGED vars
  BY <1>3, SilentKeepsPage DEF vars, shellVars
<1>4. CASE Banner \/ EngineDies \/ LockAndWait \/ ExitSeen \/ ClearSlot \/ Respawn \/ Respawned \/ StoreSlot
  BY <1>4, SilentKeepsPage
     DEF Banner, EngineDies, LockAndWait, ExitSeen, ClearSlot, Respawn, Respawned, StoreSlot
<1>5. CASE Booted
  BY <1>5, SilentKeepsPage DEF Booted, Abort
<1>6. CASE ReadSlot
  BY <1>2, <1>6, SilentKeepsPage DEF ReadSlot, Abort
<1>7. CASE Health \/ Stash
  BY <1>7, SilentKeepsPage DEF Health, Stash, Abort
<1>8. CASE TellRestart
  <2>1. UNCHANGED <<handshake, stashed, setup, page, client, listening, pull, shared>>
    BY <1>8 DEF TellRestart
  <2>2. CASE "restarted" \in listening /\ client # None /\ pull # "asked"
    <3>1. inbox' = Append(inbox, [kind |-> "restarted", engine |-> latest]) /\ followed' = latest
      BY <1>8, <2>2 DEF TellRestart, Emit
    <3>2. inbox' \in Seq(Message) /\ FollowInv'
      BY <1>2, <2>1, <2>2, <3>1, RestartKeepsFollow
    <3> QED BY <1>2, <2>1, <2>2, <3>2 DEF PageTypes, LoadInv
  <2>3. CASE "restarted" \in listening /\ (client = None \/ pull = "asked")
    <3>1. /\ inbox' = Append(inbox, [kind |-> "restarted", engine |-> latest]) /\ followed' = followed
          /\ [kind |-> "restarted", engine |-> latest] \in Message
      BY <1>2, <1>8, <2>3 DEF TellRestart, Emit, Message
    <3>2. followed = None
      BY <1>2, <2>3 DEF LoadInv, FollowInv
    <3>3. inbox' \in Seq(Message) /\ FollowInv'
      BY <2>1, <3>1, <3>2, SayKeepsFollow
    <3> QED BY <1>2, <2>1, <3>1, <3>3 DEF PageTypes, LoadInv
  <2>4. CASE "restarted" \notin listening
    <3>1. inbox' = inbox /\ followed' = followed
      BY <1>8, <2>4 DEF TellRestart, Emit
    <3> QED BY <1>2, <2>1, <3>1 DEF PageTypes, LoadInv, FollowInv, Arrived, Coming
  <2> QED BY <2>2, <2>3, <2>4
<1>9. CASE Announce
  <2>1. UNCHANGED <<handshake, stashed, page, client, listening, pull, shared, followed>> /\ setup' = "done"
    BY <1>9 DEF Announce
  <2>2. handshake \in Engines
    BY <1>2, <1>9, ShellAssumption DEF Announce, PageTypes, Engines, None
  <2>3. inbox' \in Seq(Message) /\ FollowInv'
    <3>1. CASE "ready" \in listening
      <4>1. /\ inbox' = Append(inbox, [kind |-> "ready", engine |-> handshake])
            /\ [kind |-> "ready", engine |-> handshake] \in Message
        BY <1>9, <2>2, <3>1 DEF Announce, Emit, Message
      <4> QED BY <2>1, <4>1, SayKeepsFollow
    <3>2. CASE "ready" \notin listening
      <4>1. inbox' = inbox
        BY <1>9, <3>2 DEF Announce, Emit
      <4> QED BY <1>2, <2>1, <4>1 DEF PageTypes, FollowInv, Arrived, Coming
    <3> QED BY <3>1, <3>2
  <2> QED BY <1>2, <2>1, <2>3 DEF PageTypes, LoadInv
<1>10. CASE Inject
  BY <1>2, <1>10 DEF Inject, PageTypes, LoadInv, FollowInv, Arrived, Coming
<1>11. CASE LoadDocument \/ RunModule
  <2>1. followed = None /\ UNCHANGED <<shellVars, listening, inbox, followed>>
    BY <1>2, <1>11 DEF LoadDocument, RunModule, LoadInv
  <2>2. page' = "running" \/ listening = {}
    BY <1>2, <1>11 DEF LoadDocument, RunModule, LoadInv
  <2> QED BY <1>2, <2>1, <2>2 DEF PageTypes, LoadInv, FollowInv, shellVars
<1>12. CASE PullHandshake \/ PullTimesOut
  <2>1. UNCHANGED <<shellVars, page, client, listening, inbox, shared, followed>>
    BY <1>12 DEF PullHandshake, PullTimesOut
  <2>2. pull' = "asked" => client = None
    BY <1>12 DEF PullHandshake, PullTimesOut
  <2> QED BY <1>2, <2>1, <2>2 DEF PageTypes, LoadInv, FollowInv, Arrived, Coming, shellVars
<1>13. CASE PullAnswered
  <2>1. UNCHANGED <<shellVars, page, listening, inbox, followed>> /\ pull' = "off" /\ followed = None
    BY <1>2, <1>13 DEF PullAnswered, LoadInv
  <2> QED BY <1>2, <2>1 DEF PageTypes, LoadInv, FollowInv, shellVars
<1>14. CASE HandleMessage
  <2>1. UNCHANGED <<shellVars, page, listening, pull, followed>>
    BY <1>14 DEF HandleMessage
  <2>2. inbox' \in Seq(Message) /\ FollowInv'
    BY <1>14, HandleKeepsFollow
  <2> QED BY <1>2, <2>1, <2>2 DEF PageTypes, LoadInv, shellVars
<1>15. CASE Reload
  <2>1. <<>> \in Seq(Message)
    OBVIOUS
  <2>2. inbox' = <<>> /\ followed' = None /\ listening' = {} /\ UNCHANGED shellVars
    BY <1>15 DEF Reload, NewPage
  <2> QED BY <1>2, <2>1, <2>2 DEF PageTypes, LoadInv, FollowInv, shellVars
<1>16. ASSUME NEW k \in {"ready", "restarted"}, Listen(k)
       PROVE  PageTypes' /\ LoadInv' /\ FollowInv'
  BY <1>2, <1>16 DEF Listen, PageTypes, LoadInv, FollowInv, Arrived, Coming, shellVars
<1>17. ASSUME NEW h \in Hooks, Mount(h) \/ Unmount(h)
       PROVE  PageTypes' /\ LoadInv' /\ FollowInv'
  <2>1. /\ UNCHANGED <<shellVars, page, listening, pull, inbox, client, followed>>
        /\ shared' \in {shared, client} \/ shared' = shared
    BY <1>17 DEF Mount, Unmount
  <2> QED BY <1>2, <2>1 DEF PageTypes, LoadInv, FollowInv, Arrived, Coming, shellVars
<1> QED
  BY <1>3, <1>4, <1>5, <1>6, <1>7, <1>8, <1>9, <1>10, <1>11, <1>12, <1>13, <1>14, <1>15, <1>16, <1>17
     DEF Next, Supervisor, Setup, Page, Loading

(* A page that was told of a restart while it had a client and no answer   *)
(* of its pull on the way talks to the new engine once it has handled what *)
(* it was told, and so does the socket the next hook gets, however often   *)
(* the engine restarts before the page hears of it (the handlers in        *)
(* engine.ts and on_restart in lib.rs).  Hooks mounted before keep theirs. *)
THEOREM PageFollowsRestart == FairSpec => []RestartIsFollowed
<1>1. Init => PageInv
  <2> SUFFICES ASSUME Init PROVE PageInv
    OBVIOUS
  <2>1. EngineInv
    BY ShellAssumption DEF Init, EngineInv, ShellTypeOK, InOrder, SlotOk, SetupOk, Engines, None
  <2>2. PageTypes /\ LoadInv /\ FollowInv
    BY ShellAssumption DEF Init, PageTypes, LoadInv, FollowInv, None
  <2> QED BY <2>1, <2>2 DEF PageInv
<1>2. PageInv /\ [Next]_vars => PageInv'
  BY PageStep
<1>3. PageInv => RestartIsFollowed
  <2> SUFFICES ASSUME PageInv, followed # None, \A i \in 1..Len(inbox) : inbox[i].kind # "restarted"
               PROVE  client = followed /\ shared \in {None, client}
    BY DEF RestartIsFollowed
  <2>1. DOMAIN inbox = 1..Len(inbox)
    BY DEF PageInv, PageTypes
  <2>2. ~ \E i \in DOMAIN inbox : Coming(i)
    BY <2>1 DEF Coming
  <2> QED BY <2>2 DEF PageInv, FollowInv, Arrived
<1> QED
  BY <1>1, <1>2, <1>3, PTL DEF FairSpec
=============================================================================
