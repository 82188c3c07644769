------------------------ MODULE ProviderLogin_proofs ------------------------
(***************************************************************************)
(* Proofs about ProviderLogin, for every set of providers and logins: how  *)
(* long a login stays in the engine's list, that a cancel is never lost,   *)
(* and that a spinner of the picker has an event to wait for unless one of *)
(* its provider's reports was lost.                                        *)
(***************************************************************************)
EXTENDS ProviderLogin, SequenceTheorems, TLAPS

(* The part of the state that the list, its watchers and cancels speak of. *)
EngineTypeOK ==
  /\ handler \in [Logins -> {"idle", "sent", "registering", "pushing", "broken", "over"}]
  /\ watcher \in [Logins -> {"none", "spawned", "waiting", "killing", "cleaning", "emitting", "done"}]
  /\ child \in [Logins -> {"none", "alive", "dead"}]
  /\ sessions \subseteq Logins
  /\ notified \subseteq Logins
  /\ cancelled \subseteq Logins
  /\ dismissed \subseteq Logins

(* Nothing is said of a login before its session is pushed. *)
Unwatched(l) ==
  /\ handler[l] # "over" => watcher[l] = "none"
  /\ watcher[l] = "none" => l \notin sessions \cup notified \cup cancelled \cup dismissed

(* A watcher gets to its cleanup with the process dead. *)
Reaped(l) == watcher[l] \in {"cleaning", "emitting", "done"} => child[l] = "dead"

Listed(l) ==
  l \in sessions => /\ l \notin notified \cup cancelled
                    /\ watcher[l] \in {"spawned", "waiting", "cleaning"}

Doomed(l) ==
  l \in dismissed =>
    \/ child[l] = "dead"
    \/ l \in notified /\ watcher[l] \in {"spawned", "waiting"}
    \/ watcher[l] = "killing"

LoginOk(l) == Unwatched(l) /\ Reaped(l) /\ Listed(l) /\ Doomed(l)

(* The two invariants are inductive together with what a watcher's place   *)
(* says of its login.                                                      *)
LoginInv == EngineTypeOK /\ \A l \in Logins : LoginOk(l)

engineState == <<handler, sessions, notified, watcher, cancelled, child, dismissed>>

(* The picker's own steps, and the output of a process, change none of it. *)
LEMMA OthersKeepInv ==
  ASSUME LoginInv, UNCHANGED engineState
  PROVE  LoginInv'
BY DEF LoginInv, engineState, EngineTypeOK, LoginOk, Unwatched, Reaped, Listed, Doomed

(* A login that has not got as far as its watcher goes on or ends.         *)
LEMMA HandlerKeepsInv ==
  ASSUME LoginInv, NEW l \in Logins, handler[l] # "over",
         NEW place \in {"sent", "registering", "pushing", "over"},
         handler' = [handler EXCEPT ![l] = place],
         NEW state \in {"none", "alive", "dead"},
         child' = [child EXCEPT ![l] = state],
         UNCHANGED <<sessions, notified, watcher, cancelled, dismissed>>
  PROVE  LoginInv'
<1>1. EngineTypeOK'
  BY DEF LoginInv, EngineTypeOK
<1>2. ASSUME NEW k \in Logins
      PROVE  LoginOk(k)'
  <2>1. CASE k = l
    BY <2>1 DEF LoginInv, EngineTypeOK, LoginOk, Unwatched, Reaped, Listed, Doomed
  <2>2. CASE k # l
    BY <2>2 DEF LoginInv, EngineTypeOK, LoginOk, Unwatched, Reaped, Listed, Doomed
  <2> QED
    BY <2>1, <2>2
<1> QED
  BY <1>1, <1>2 DEF LoginInv

(* A cancel takes one listed login, which its permit or its death dooms.   *)
LEMMA CancelKeepsInv ==
  ASSUME LoginInv, NEW p \in Providers, CancelInner(p),
         dismissed' = dismissed \cup (sessions \ sessions'),
         UNCHANGED <<handler, watcher, cancelled, child>>
  PROVE  LoginInv'
<1>1. CASE sessions \cap Of(p) = {}
  BY <1>1, OthersKeepInv DEF CancelInner, engineState
<1>2. CASE sessions \cap Of(p) # {}
  <2>1. PICK l \in sessions \cap Of(p) : sessions' = sessions \ {l} /\ notified' = notified \cup {l}
    BY <1>2 DEF CancelInner
  <2>2. l \in Logins /\ dismissed' = dismissed \cup {l}
    BY <2>1 DEF LoginInv, EngineTypeOK
  <2>3. EngineTypeOK'
    BY <2>1, <2>2 DEF LoginInv, EngineTypeOK
  <2>4. LoginOk(l)'
    BY <2>1, <2>2 DEF LoginInv, EngineTypeOK, LoginOk, Unwatched, Reaped, Listed, Doomed
  <2>5. ASSUME NEW k \in Logins, k # l
        PROVE  LoginOk(k)'
    BY <2>1, <2>2, <2>5 DEF LoginInv, EngineTypeOK, LoginOk, Unwatched, Reaped, Listed, Doomed
  <2> QED
    BY <2>3, <2>4, <2>5 DEF LoginInv
<1> QED
  BY <1>1, <1>2

(* register cancels the previous login and goes on.                        *)
LEMMA CancelPreviousKeepsInv ==
  ASSUME LoginInv, NEW l \in Logins, CancelPrevious(l), ProviderOf[l] \in Providers
  PROVE  LoginInv'
<1>1. CASE sessions \cap Of(ProviderOf[l]) = {}
  <2>1. UNCHANGED <<sessions, notified, dismissed>>
    BY <1>1 DEF CancelPrevious, CancelInner
  <2>2. child' = [child EXCEPT ![l] = child[l]] /\ child[l] \in {"none", "alive", "dead"}
    BY DEF CancelPrevious, LoginInv, EngineTypeOK
  <2> QED
    BY <2>1, <2>2, HandlerKeepsInv DEF CancelPrevious
<1>2. CASE sessions \cap Of(ProviderOf[l]) # {}
  <2>1. PICK k \in sessions \cap Of(ProviderOf[l]) :
          sessions' = sessions \ {k} /\ notified' = notified \cup {k}
    BY <1>2 DEF CancelPrevious, CancelInner
  <2>2. k \in Logins /\ dismissed' = dismissed \cup {k} /\ k # l
    BY <2>1 DEF CancelPrevious, LoginInv, EngineTypeOK, LoginOk, Unwatched
  <2>3. EngineTypeOK'
    BY <2>1, <2>2 DEF CancelPrevious, LoginInv, EngineTypeOK
  <2>4. LoginOk(k)'
    BY <2>1, <2>2 DEF CancelPrevious, LoginInv, EngineTypeOK, LoginOk, Unwatched, Reaped, Listed, Doomed
  <2>5. ASSUME NEW j \in Logins, j # k
        PROVE  LoginOk(j)'
    BY <2>1, <2>2, <2>5 DEF CancelPrevious, LoginInv, EngineTypeOK, LoginOk, Unwatched, Reaped, Listed, Doomed
  <2> QED
    BY <2>3, <2>4, <2>5 DEF LoginInv
<1> QED
  BY <1>1, <1>2

(* The session of a login is listed when its watcher is spawned.           *)
LEMMA PushKeepsInv ==
  ASSUME LoginInv, NEW l \in Logins, Push(l)
  PROVE  LoginInv'
<1>1. EngineTypeOK'
  BY DEF Push, LoginInv, EngineTypeOK
<1>2. LoginOk(l)'
  BY DEF Push, LoginInv, EngineTypeOK, LoginOk, Unwatched, Reaped, Listed, Doomed
<1>3. ASSUME NEW k \in Logins, k # l
      PROVE  LoginOk(k)'
  BY <1>3 DEF Push, LoginInv, EngineTypeOK, LoginOk, Unwatched, Reaped, Listed, Doomed
<1> QED
  BY <1>1, <1>2, <1>3 DEF LoginInv

(* A watcher's steps concern its own login, except for the cleanup, which  *)
(* takes others from the list and leaves them alone otherwise.             *)
LEMMA WatcherKeepsInv ==
  ASSUME LoginInv, NEW l \in Logins, Watcher(l)
  PROVE  LoginInv'
<1> USE DEF LoginInv, EngineTypeOK, LoginOk, Unwatched, Reaped, Listed, Doomed
<1>1. CASE WatcherStarts(l)
  BY <1>1 DEF WatcherStarts
<1>2. CASE WatcherReaps(l)
  BY <1>2 DEF WatcherReaps
<1>3. CASE WatcherNotified(l)
  BY <1>3 DEF WatcherNotified
<1>4. CASE Kill(l)
  BY <1>4 DEF Kill
<1>5. CASE CleanUp(l)
  <2>1. sessions' \subseteq sessions /\ l \notin sessions'
    BY <1>5 DEF CleanUp, Cleaned, Of
  <2> QED
    BY <1>5, <2>1 DEF CleanUp
<1>6. CASE EmitComplete(l)
  BY <1>6 DEF EmitComplete
<1> QED
  BY <1>1, <1>2, <1>3, <1>4, <1>5, <1>6 DEF Watcher

LEMMA ChildExitsKeepsInv ==
  ASSUME LoginInv, NEW l \in Logins, ChildExits(l)
  PROVE  LoginInv'
BY DEF ChildExits, LoginInv, EngineTypeOK, LoginOk, Unwatched, Reaped, Listed, Doomed

(* A new engine has no logins.                                             *)
LEMMA RestartKeepsInv ==
  ASSUME LoginInv, EngineRestarts
  PROVE  LoginInv'
<1>1. EngineTypeOK'
  BY DEF EngineRestarts, LoginInv, EngineTypeOK
<1>2. ASSUME NEW l \in Logins
      PROVE  LoginOk(l)'
  BY DEF EngineRestarts, LoginOk, Unwatched, Reaped, Listed, Doomed
<1> QED
  BY <1>1, <1>2 DEF LoginInv

LEMMA LoginStep == LoginInv /\ [Next]_vars => LoginInv'
<1> SUFFICES ASSUME LoginInv, [Next]_vars PROVE LoginInv'
  OBVIOUS
<1>1. CASE UNCHANGED vars
  BY <1>1, OthersKeepInv DEF vars, engineState
<1>2. CASE ClickCancel \/ HandleEvent \/ Remount \/ LoseEvent
  BY <1>2, OthersKeepInv DEF ClickCancel, HandleEvent, Remount, LoseEvent, pickerVars, engineState
<1>3. ASSUME NEW l \in Logins, ClickSignIn(l) \/ LaunchFails(l) \/ Launch(l) \/ HandlerDropped(l)
      PROVE  LoginInv'
  <2>1. child[l] \in {"none", "alive", "dead"} /\ child = [child EXCEPT ![l] = child[l]]
    BY DEF LoginInv, EngineTypeOK
  <2>2. CASE ClickSignIn(l)
    BY <2>1, <2>2, HandlerKeepsInv DEF ClickSignIn
  <2>3. CASE LaunchFails(l)
    BY <2>1, <2>3, HandlerKeepsInv DEF LaunchFails
  <2>4. CASE Launch(l)
    BY <2>4, HandlerKeepsInv DEF Launch
  <2>5. CASE HandlerDropped(l)
    BY <2>5, HandlerKeepsInv DEF HandlerDropped
  <2> QED
    BY <1>3, <2>2, <2>3, <2>4, <2>5
<1>4. ASSUME NEW l \in Logins, CancelPrevious(l)
      PROVE  LoginInv'
  BY <1>4, LoginAssumption, CancelPreviousKeepsInv
<1>5. ASSUME NEW l \in Logins, Push(l)
      PROVE  LoginInv'
  BY <1>5, PushKeepsInv
<1>6. ASSUME NEW p \in Providers, HandleCancel(p)
      PROVE  LoginInv'
  BY <1>6, CancelKeepsInv DEF HandleCancel
<1>7. ASSUME NEW l \in Logins, Watcher(l)
      PROVE  LoginInv'
  BY <1>7, WatcherKeepsInv
<1>8. ASSUME NEW l \in Logins, ChildExits(l)
      PROVE  LoginInv'
  BY <1>8, ChildExitsKeepsInv
<1>9. ASSUME NEW l \in Logins, TellCode(l)
      PROVE  LoginInv'
  BY <1>9, OthersKeepInv DEF TellCode, engineState
<1>10. CASE EngineRestarts
  BY <1>10, RestartKeepsInv
<1> QED
  BY <1>1, <1>2, <1>3, <1>4, <1>5, <1>6, <1>7, <1>8, <1>9, <1>10 DEF Next, Picker, Handlers

LEMMA LoginInvariant == Spec => []LoginInv
<1>1. Init => LoginInv
  BY DEF Init, LoginInv, EngineTypeOK, LoginOk, Unwatched, Reaped, Listed, Doomed
<1> QED
  BY <1>1, LoginStep, PTL DEF Spec

(* A session leaves the engine's list with the cancel that takes it or at  *)
(* the latest with its watcher's cleanup, before its end is reported: what *)
(* is listed is open to a cancel, or over and about to be cleaned up. For  *)
(* any number of logins and providers (register, cancel_inner, cleanup).   *)
THEOREM ListIsCurrent == Spec => []ListedUntilCleanup
<1>1. LoginInv => ListedUntilCleanup
  BY DEF LoginInv, EngineTypeOK, LoginOk, Listed, Reaped, ListedUntilCleanup
<1> QED
  BY <1>1, LoginInvariant, PTL

(* A login that a cancel took from the list is dead or is going to be:     *)
(* however cancels, exits, cleanups and new logins interleave, no permit   *)
(* is lost (cancel_inner, notify_one and the watcher's select).            *)
THEOREM CancelIsNeverLost == Spec => []DismissedAreDoomed
<1>1. LoginInv => DismissedAreDoomed
  BY DEF LoginInv, EngineTypeOK, LoginOk, Doomed, DismissedAreDoomed
<1> QED
  BY <1>1, LoginInvariant, PTL

(***************************************************************************)
(* The spinner.                                                            *)
(***************************************************************************)
Reporting(p) == \E l \in Of(p) : l \in asking \/ watcher[l] \notin {"none", "done"}
Reported(p)  == \E i \in 1..Len(events) : events[i] = Complete(p)

PickerTypes ==
  pending \in Providers \cup {None} /\ events \in Seq(Event) /\ unheard \subseteq Providers

SpinnerInv == LoginInv /\ PickerTypes /\ SpinnerHasReason

(* A task says something more. *)
LEMMA AppendReports ==
  ASSUME events \in Seq(Event), NEW e \in Event, events' = Append(events, e)
  PROVE  /\ events' \in Seq(Event)
         /\ \A p \in Providers : Reported(p) \/ e = Complete(p) => Reported(p)'
<1>1. /\ events' \in Seq(Event)
      /\ Len(events') = Len(events) + 1 /\ Len(events) \in Nat
      /\ \A i \in 1..Len(events) : events'[i] = events[i]
      /\ events'[Len(events) + 1] = e
  OBVIOUS
<1>2. ASSUME NEW p \in Providers, Reported(p) PROVE Reported(p)'
  <2>1. PICK i \in 1..Len(events) : events[i] = Complete(p)
    BY <1>2 DEF Reported
  <2>2. i \in 1..Len(events') /\ events'[i] = Complete(p)
    BY <1>1, <2>1
  <2> QED BY <2>2 DEF Reported, Complete
<1>3. ASSUME NEW p \in Providers, e = Complete(p) PROVE Reported(p)'
  <2>1. Len(events) + 1 \in 1..Len(events') /\ events'[Len(events) + 1] = Complete(p)
    BY <1>1, <1>3
  <2> QED BY <1>1, <2>1 DEF Reported, Complete
<1> QED BY <1>1, <1>2, <1>3

(* The picker takes the first event, and no other one. *)
LEMMA TailReports ==
  ASSUME events \in Seq(Event), events # <<>>, events' = Tail(events)
  PROVE  /\ events' \in Seq(Event)
         /\ Head(events) \in Event
         /\ \A p \in Providers : Reported(p) /\ Head(events) # Complete(p) => Reported(p)'
<1>1. /\ events' \in Seq(Event) /\ Head(events) = events[1] /\ events[1] \in Event
      /\ Len(events') = Len(events) - 1 /\ Len(events) \in Nat
      /\ \A i \in 1..(Len(events) - 1) : events'[i] = events[i + 1]
  OBVIOUS
<1>2. ASSUME NEW p \in Providers, Reported(p), Head(events) # Complete(p) PROVE Reported(p)'
  <2>1. PICK i \in 1..Len(events) : events[i] = Complete(p)
    BY <1>2 DEF Reported
  <2>2. i # 1
    BY <1>1, <1>2, <2>1
  <2>3. PICK k \in Nat : k = i - 1
    BY <2>1, <2>2
  <2>4. k \in 1..Len(events') /\ events'[k] = Complete(p)
    BY <1>1, <2>1, <2>2, <2>3
  <2> QED BY <2>4 DEF Reported, Complete
<1> QED BY <1>1, <1>2

(* A sequence without its i-th element has all the others.                 *)
LEMMA WithoutOne ==
  ASSUME NEW S, NEW s \in Seq(S), NEW i \in 1..Len(s)
  PROVE  LET r == SubSeq(s, 1, i - 1) \o SubSeq(s, i + 1, Len(s))
         IN r \in Seq(S) /\ \A k \in 1..Len(s) : k # i => \E j \in 1..Len(r) : r[j] = s[k]
<1>1. PICK n \in Nat : n = Len(s)
  OBVIOUS
<1>2. i \in 1..n /\ \A k \in 1..n : s[k] \in S
  BY <1>1
<1> DEFINE a == SubSeq(s, 1, i - 1)
           b == SubSeq(s, i + 1, n)
           r == a \o b
<1>3. /\ a \in Seq(S) /\ Len(a) = i - 1
      /\ \A k \in 1..(i - 1) : a[k] = s[k]
  <2>1. 1 \in Int /\ i - 1 \in Int /\ \A k \in 1..(i - 1) : s[k] \in S
    BY <1>2
  <2>2. /\ a \in Seq(S) /\ Len(a) = IF 1 <= i - 1 THEN i - 1 - 1 + 1 ELSE 0
        /\ \A k \in 1..(i - 1 - 1 + 1) : a[k] = s[1 + k - 1]
    BY <2>1, SubSeqProperties
  <2> HIDE DEF a
  <2> QED BY <1>2, <2>2
<1>4. /\ b \in Seq(S) /\ Len(b) = n - i
      /\ \A k \in 1..(n - i) : b[k] = s[i + k]
  <2>1. i + 1 \in Int /\ n \in Int /\ \A k \in (i + 1)..n : s[k] \in S
    BY <1>2
  <2>2. /\ b \in Seq(S) /\ Len(b) = IF i + 1 <= n THEN n - (i + 1) + 1 ELSE 0
        /\ \A k \in 1..(n - (i + 1) + 1) : b[k] = s[(i + 1) + k - 1]
    BY <2>1, SubSeqProperties
  <2> HIDE DEF b
  <2> QED BY <1>2, <2>2
<1> HIDE DEF a, b
<1>5. /\ r \in Seq(S) /\ Len(r) = Len(a) + Len(b)
      /\ \A k \in 1..(Len(a) + Len(b)) : r[k] = IF k <= Len(a) THEN a[k] ELSE b[k - Len(a)]
  BY <1>3, <1>4, ConcatProperties
<1> HIDE DEF r
<1>6. Len(r) = n - 1
  BY <1>2, <1>3, <1>4, <1>5
<1>7. ASSUME NEW k \in 1..n, k # i PROVE \E j \in 1..Len(r) : r[j] = s[k]
  <2>1. CASE k < i
    <3>1. k \in 1..(Len(a) + Len(b)) /\ k <= Len(a) /\ k \in 1..(i - 1)
      BY <1>2, <1>3, <1>4, <2>1
    <3>2. r[k] = s[k] /\ k \in 1..Len(r)
      BY <1>3, <1>5, <3>1
    <3> QED BY <3>2
  <2>2. CASE k > i
    <3>1. PICK j \in 1..(n - 1) : j = k - 1
      BY <1>2, <2>2
    <3>2. PICK m \in 1..(n - i) : m = j - (i - 1)
      BY <1>2, <2>2, <3>1
    <3>3. ~(j <= Len(a)) /\ j - Len(a) = m /\ i + m = k /\ j \in 1..(Len(a) + Len(b))
      BY <1>2, <1>3, <1>4, <2>2, <3>1, <3>2
    <3>4. r[j] = b[m]
      BY <1>5, <3>3
    <3>5. b[m] = s[k]
      BY <1>4, <3>2, <3>3
    <3> QED BY <1>6, <3>1, <3>4, <3>5
  <2> QED BY <1>2, <1>7, <2>1, <2>2
<1>8. r = SubSeq(s, 1, i - 1) \o SubSeq(s, i + 1, Len(s))
  BY <1>1 DEF r, a, b
<1> QED BY <1>1, <1>5, <1>7, <1>8

(* Of a lost event nothing is left; the others stay.                       *)
LEMMA LossReports ==
  ASSUME events \in Seq(Event), NEW i \in 1..Len(events),
         events' = SubSeq(events, 1, i - 1) \o SubSeq(events, i + 1, Len(events))
  PROVE  /\ events' \in Seq(Event)
         /\ \A p \in Providers : Reported(p) /\ events[i] # Complete(p) => Reported(p)'
<1>1. /\ events' \in Seq(Event)
      /\ \A k \in 1..Len(events) : k # i => \E j \in 1..Len(events') : events'[j] = events[k]
  BY WithoutOne
<1>2. ASSUME NEW p \in Providers, Reported(p), events[i] # Complete(p) PROVE Reported(p)'
  <2>1. PICK k \in 1..Len(events) : events[k] = Complete(p)
    BY <1>2 DEF Reported
  <2>2. PICK j \in 1..Len(events') : events'[j] = Complete(p)
    BY <1>1, <1>2, <2>1
  <2> QED BY <2>2 DEF Reported, Complete
<1> QED BY <1>1, <1>2

LEMMA ReasonParts ==
  /\ SpinnerHasReason <=>
       (pending # None => pending \in unheard \/ Reporting(pending) \/ Reported(pending))
  /\ SpinnerHasReason' <=>
       (pending' # None => pending' \in unheard' \/ (Reporting(pending) \/ Reported(pending))')
BY DEF SpinnerHasReason, Reporting, Reported

(* The spinner and its reason, while neither is taken away. *)
LEMMA ReasonStays ==
  ASSUME SpinnerInv, pending' = pending, events' \in Seq(Event),
         unheard \subseteq unheard', unheard' \subseteq Providers,
         \A l \in asking : l \in asking' \/ (l \in Logins => watcher'[l] \notin {"none", "done"}),
         \A l \in Logins : watcher[l] \notin {"none", "done"} =>
           watcher'[l] \notin {"none", "done"} \/ Reported(ProviderOf[l])',
         \A p \in Providers : Reported(p) => Reported(p)' \/ p \in unheard'
  PROVE  PickerTypes' /\ SpinnerHasReason'
<1>1. PickerTypes'
  BY DEF SpinnerInv, PickerTypes
<1>2. ASSUME pending # None PROVE pending \in unheard' \/ (Reporting(pending) \/ Reported(pending))'
  <2>1. pending \in Providers
    BY <1>2 DEF SpinnerInv, PickerTypes
  <2>2. CASE Reported(pending)
    <3>1. pending \in unheard' \/ Reported(pending)'
      BY <2>1, <2>2 DEF Reported
    <3> QED BY <3>1
  <2>3. ASSUME NEW l \in Of(pending), l \in asking \/ watcher[l] \notin {"none", "done"}
        PROVE  (Reporting(pending) \/ Reported(pending))'
    <3>1. l \in Logins /\ ProviderOf[l] = pending /\ l \in Of(pending')
      BY DEF Of
    <3>2. CASE l \in asking' \/ watcher'[l] \notin {"none", "done"}
      BY <3>1, <3>2 DEF Reporting
    <3>3. CASE ~(l \in asking' \/ watcher'[l] \notin {"none", "done"})
      <4>1. watcher[l] \notin {"none", "done"}
        BY <2>3, <3>1, <3>3
      <4>2. Reported(ProviderOf[l])'
        BY <3>1, <3>3, <4>1
      <4> QED BY <3>1, <4>2 DEF Reported
    <3> QED BY <3>2, <3>3
  <2>4. CASE pending \in unheard
    BY <2>4
  <2> QED BY <1>2, <2>2, <2>3, <2>4, ReasonParts DEF SpinnerInv, Reporting
<1> QED BY <1>1, <1>2, ReasonParts

LEMMA SpinnerStep ==
  ASSUME SpinnerInv, [Next]_vars
  PROVE  SpinnerInv'
<1>1. LoginInv' /\ watcher \in [Logins -> {"none", "spawned", "waiting", "killing", "cleaning", "emitting", "done"}]
  BY LoginStep DEF SpinnerInv, LoginInv, EngineTypeOK
<1> SUFFICES PickerTypes' /\ SpinnerHasReason'
  BY <1>1 DEF SpinnerInv
<1> DEFINE samePicker == UNCHANGED <<pending, asking, watcher, events, unheard>>
<1>2. CASE samePicker
  BY <1>2 DEF SpinnerInv, PickerTypes, SpinnerHasReason
<1>3. CASE pending' = None /\ events' \in Seq(Event) /\ unheard' \subseteq Providers
  BY <1>3 DEF PickerTypes, SpinnerHasReason
<1>4. CASE HandleEvent
  <2>1. /\ events' \in Seq(Event)
        /\ Head(events) \in Event
        /\ \A p \in Providers : Reported(p) /\ Head(events) # Complete(p) => Reported(p)'
    BY <1>4, TailReports DEF HandleEvent, SpinnerInv, PickerTypes
  <2>2. CASE Head(events).type = "ProviderLoginDeviceCode"
    <3>1. \A p \in Providers : Head(events) # Complete(p)
      BY <2>2 DEF Complete
    <3> QED BY <1>4, <2>1, <2>2, <3>1, ReasonStays DEF HandleEvent, SpinnerInv, PickerTypes
  <2>3. CASE Head(events).type # "ProviderLoginDeviceCode"
    BY <1>3, <1>4, <2>1, <2>3 DEF HandleEvent, SpinnerInv, PickerTypes
  <2> QED BY <2>2, <2>3
<1>5. CASE Remount
  <2>1. <<>> \in Seq(Event) /\ events \in Seq(Event)
    BY DEF SpinnerInv, PickerTypes
  <2>2. pending' = None /\ (events' = events \/ events' = <<>>)
    BY <1>5 DEF Remount
  <2>3. events' \in Seq(Event)
    BY <2>1, <2>2
  <2>4. unheard' = unheard /\ unheard \subseteq Providers
    BY <1>5 DEF Remount, SpinnerInv, PickerTypes
  <2> QED BY <1>3, <2>2, <2>3, <2>4
<1>6. ASSUME NEW l \in Logins, ClickSignIn(l) PROVE PickerTypes' /\ SpinnerHasReason'
  <2>1. ProviderOf[l] \in Providers /\ pending' = ProviderOf[l] /\ l \in asking' /\ events' = events
    BY <1>6, LoginAssumption DEF ClickSignIn, LoginAssumption
  <2>2. l \in Of(ProviderOf[l])
    BY DEF Of
  <2>3. PickerTypes'
    BY <1>6, <2>1 DEF ClickSignIn, SpinnerInv, PickerTypes
  <2>4. Reporting(pending)'
    BY <2>1, <2>2 DEF Reporting, Of
  <2> QED BY <2>3, <2>4, ReasonParts
<1>7. ASSUME NEW l \in Logins, LaunchFails(l) PROVE PickerTypes' /\ SpinnerHasReason'
  <2>1. CASE l \in asking
    BY <1>3, <1>7, <2>1 DEF LaunchFails, SpinnerInv, PickerTypes
  <2>2. CASE l \notin asking
    <3>1. samePicker
      BY <1>7, <2>2 DEF LaunchFails
    <3> QED BY <1>2, <3>1
  <2> QED BY <2>1, <2>2
<1>8. ASSUME NEW l \in Logins, Push(l) PROVE PickerTypes' /\ SpinnerHasReason'
  <2>1. /\ pending' = pending /\ events' = events /\ asking' = asking \ {l}
        /\ watcher' = [watcher EXCEPT ![l] = "spawned"]
        /\ unheard' = unheard /\ unheard \subseteq Providers
    BY <1>8 DEF Push, SpinnerInv, PickerTypes
  <2>2. \A p \in Providers : Reported(p) => Reported(p)'
    BY <2>1 DEF Reported, Complete
  <2>3. events' \in Seq(Event)
    BY <2>1 DEF SpinnerInv, PickerTypes
  <2> QED BY <1>1, <2>1, <2>2, <2>3, ReasonStays
<1>9. ASSUME NEW l \in Logins, EmitComplete(l) PROVE PickerTypes' /\ SpinnerHasReason'
  <2>1. Complete(ProviderOf[l]) \in Event
    BY LoginAssumption DEF LoginAssumption, Complete, Event
  <2>2. /\ events' \in Seq(Event)
        /\ \A p \in Providers : Reported(p) \/ Complete(ProviderOf[l]) = Complete(p) => Reported(p)'
    BY <1>9, <2>1, AppendReports DEF EmitComplete, SpinnerInv, PickerTypes
  <2>3. Reported(ProviderOf[l])'
    BY <2>2, LoginAssumption DEF LoginAssumption
  <2>4. /\ pending' = pending /\ asking' = asking /\ watcher' = [watcher EXCEPT ![l] = "done"]
        /\ unheard' = unheard /\ unheard \subseteq Providers
    BY <1>9 DEF EmitComplete, pickerVars, SpinnerInv, PickerTypes
  <2>5. \A k \in Logins : watcher[k] \notin {"none", "done"} =>
          watcher'[k] \notin {"none", "done"} \/ Reported(ProviderOf[k])'
    <3> SUFFICES ASSUME NEW k \in Logins, watcher[k] \notin {"none", "done"}, watcher'[k] \in {"none", "done"}
                 PROVE  Reported(ProviderOf[k])'
      OBVIOUS
    <3>1. k = l
      BY <1>1, <2>4
    <3> QED BY <2>3, <3>1
  <2> QED BY <2>2, <2>4, <2>5, ReasonStays
<1>10. ASSUME NEW l \in Logins,
              WatcherStarts(l) \/ WatcherReaps(l) \/ WatcherNotified(l) \/ Kill(l) \/ CleanUp(l)
       PROVE  PickerTypes' /\ SpinnerHasReason'
  <2>1. /\ pending' = pending /\ asking' = asking /\ events' = events
        /\ unheard' = unheard /\ unheard \subseteq Providers
        /\ \A k \in Logins : watcher[k] \notin {"none", "done"} => watcher'[k] \notin {"none", "done"}
    BY <1>1, <1>10 DEF WatcherStarts, WatcherReaps, WatcherNotified, Kill, CleanUp, pickerVars,
                       SpinnerInv, PickerTypes
  <2>2. \A p \in Providers : Reported(p) => Reported(p)'
    BY <2>1 DEF Reported, Complete
  <2>3. events' \in Seq(Event)
    BY <2>1 DEF SpinnerInv, PickerTypes
  <2> QED BY <2>1, <2>2, <2>3, ReasonStays
<1>11. ASSUME NEW l \in Logins, TellCode(l) PROVE PickerTypes' /\ SpinnerHasReason'
  <2>1. [type |-> "ProviderLoginDeviceCode", provider |-> ProviderOf[l]] \in Event
    BY LoginAssumption DEF LoginAssumption, Event
  <2>2. /\ events' \in Seq(Event)
        /\ \A p \in Providers : Reported(p) => Reported(p)'
    BY <1>11, <2>1, AppendReports DEF TellCode, SpinnerInv, PickerTypes
  <2>3. /\ pending' = pending /\ asking' = asking /\ watcher' = watcher
        /\ unheard' = unheard /\ unheard \subseteq Providers
    BY <1>11 DEF TellCode, pickerVars, SpinnerInv, PickerTypes
  <2> QED BY <2>2, <2>3, ReasonStays
<1>12. CASE UNCHANGED vars
  BY <1>2, <1>12 DEF vars, pickerVars
<1>13. CASE ClickCancel
  BY <1>2, <1>13 DEF ClickCancel
<1>14. ASSUME NEW l \in Logins, Launch(l) \/ CancelPrevious(l) \/ HandlerDropped(l) \/ ChildExits(l)
       PROVE  PickerTypes' /\ SpinnerHasReason'
  BY <1>2, <1>14 DEF Launch, CancelPrevious, HandlerDropped, ChildExits, pickerVars
<1>15. ASSUME NEW p \in Providers, HandleCancel(p) PROVE PickerTypes' /\ SpinnerHasReason'
  BY <1>2, <1>15 DEF HandleCancel
<1>16. CASE LoseEvent
  <2>1. PICK i \in 1..Len(events) :
          /\ events' = SubSeq(events, 1, i - 1) \o SubSeq(events, i + 1, Len(events))
          /\ unheard' = IF events[i].type = "ProviderLoginComplete"
                          THEN unheard \cup {events[i].provider} ELSE unheard
    BY <1>16 DEF LoseEvent
  <2>2. events \in Seq(Event) /\ unheard \subseteq Providers /\ events[i] \in Event
    BY <2>1 DEF SpinnerInv, PickerTypes
  <2>3. unheard \subseteq unheard' /\ unheard' \subseteq Providers
    BY <2>1, <2>2 DEF Event
  <2>4. /\ events' \in Seq(Event)
        /\ \A p \in Providers : Reported(p) /\ events[i] # Complete(p) => Reported(p)'
    BY <2>1, <2>2, LossReports
  <2>5. \A p \in Providers : events[i] = Complete(p) => p \in unheard'
    BY <2>1 DEF Complete
  <2>6. pending' = pending /\ asking' = asking /\ watcher' = watcher
    BY <1>16 DEF LoseEvent, pickerVars
  <2> QED BY <2>3, <2>4, <2>5, <2>6, ReasonStays
<1>17. CASE EngineRestarts
  <2>1. pending' = pending /\ unheard' = Providers /\ events' = <<>>
    BY <1>17 DEF EngineRestarts
  <2>2. events' \in Seq(Event)
    BY <2>1
  <2>3. pending' # None => pending' \in unheard'
    BY <2>1 DEF SpinnerInv, PickerTypes
  <2>4. PickerTypes'
    BY <2>1, <2>2 DEF SpinnerInv, PickerTypes
  <2> QED BY <2>3, <2>4 DEF SpinnerHasReason
<1> QED
  BY <1>4, <1>5, <1>6, <1>7, <1>8, <1>9, <1>10, <1>11, <1>12, <1>13, <1>14, <1>15, <1>16, <1>17
     DEF Next, Picker, Handlers, Watcher

(* No spinner is left without an event that will end it, unless a report   *)
(* of its provider was lost on the socket or with its engine since "Sign   *)
(* in" was clicked last: for any number of logins and providers, whatever  *)
(* request fails, handler is dropped or login overtakes another            *)
(* (provider-picker.tsx and the watcher of login_session.rs).              *)
THEOREM SpinnersEnd == Spec => []SpinnerHasReason
<1>1. Init => SpinnerInv
  <2> SUFFICES ASSUME Init PROVE SpinnerInv
    OBVIOUS
  <2>1. LoginInv
    BY DEF Init, LoginInv, EngineTypeOK, LoginOk, Unwatched, Reaped, Listed, Doomed
  <2>2. PickerTypes /\ SpinnerHasReason
    BY DEF Init, PickerTypes, SpinnerHasReason
  <2> QED BY <2>1, <2>2 DEF SpinnerInv
<1>2. SpinnerInv /\ [Next]_vars => SpinnerInv'
  BY SpinnerStep
<1>3. SpinnerInv => SpinnerHasReason
  BY DEF SpinnerInv
<1> QED
  BY <1>1, <1>2, <1>3, PTL DEF Spec
=============================================================================
