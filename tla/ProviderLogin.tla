----------------------------- MODULE ProviderLogin -----------------------------
(***************************************************************************)
(* Signing in to a provider. The picker of the desktop app asks the engine *)
(* to run the provider's own login command (provider.rs); the engine keeps *)
(* a list of the logins it may cancel (provider/login_session.rs); a       *)
(* watcher task per login tells the picker when its process is over.       *)
(* A handler of a request is a task of its own, and so is every watcher:   *)
(* between two awaits of one, the others may do anything. Events travel    *)
(* on the WebSocket of EventStream, which may lose any of them, and the    *)
(* engine may be started again at any moment.                              *)
(***************************************************************************)
EXTENDS Naturals, Sequences, FiniteSets

CONSTANTS
  Providers,
  Logins,        \* the login requests a user makes
  ProviderOf,    \* the provider each of them is for
  Challenging,   \* providers whose CLI prints a device code (codex)
  None

ASSUME LoginAssumption ==
  /\ ProviderOf \in [Logins -> Providers]
  /\ Challenging \subseteq Providers
  /\ None \notin Providers \cup Logins

VARIABLES
  (* the picker *)
  pending,       \* loginPending: the provider whose card shows a spinner
  codes,         \* deviceCodes: the providers whose code is shown
  asking,        \* requests whose answer the picker on screen will act on
  cancels,       \* providers with a cancel request on its way
  (* the engine *)
  handler,       \* where launch_login is
  sessions,      \* LOGIN_SESSIONS
  notified,      \* logins whose Notify holds a permit
  watcher,       \* where the watcher task is
  cancelled,     \* what its select! returned
  untold,        \* logins whose output may still show a device code
  child,         \* the login process
  events,        \* engine events on their way to the picker
  dismissed,     \* history: logins that a cancel of this engine took from the list
  unheard        \* history: providers of which a report was lost since the last "Sign in"

pickerVars == <<pending, codes, asking, cancels>>
vars == <<pickerVars, handler, sessions, notified, watcher, cancelled, untold, child, events, dismissed, unheard>>

Event == [type : {"ProviderLoginDeviceCode", "ProviderLoginComplete"}, provider : Providers]
Complete(p) == [type |-> "ProviderLoginComplete", provider |-> p]

TypeOK ==
  /\ pending \in Providers \cup {None}
  /\ codes \subseteq Providers
  /\ asking \subseteq Logins
  /\ cancels \subseteq Providers
  /\ handler \in [Logins -> {"idle", "sent", "registering", "pushing", "broken", "over"}]
  /\ sessions \subseteq Logins
  /\ notified \subseteq Logins
  /\ watcher \in [Logins -> {"none", "spawned", "waiting", "killing", "cleaning", "emitting", "done"}]
  /\ cancelled \subseteq Logins
  /\ untold \subseteq Logins
  /\ child \in [Logins -> {"none", "alive", "dead"}]
  /\ events \in Seq(Event)
  /\ dismissed \subseteq Logins
  /\ unheard \subseteq Providers

Init ==
  /\ pending = None
  /\ codes = {} /\ asking = {} /\ cancels = {}
  /\ handler = [l \in Logins |-> "idle"]
  /\ sessions = {} /\ notified = {} /\ cancelled = {} /\ untold = {}
  /\ dismissed = {} /\ unheard = {}
  /\ watcher = [l \in Logins |-> "none"]
  /\ child = [l \in Logins |-> "none"]
  /\ events = <<>>

Of(p) == {l \in Logins : ProviderOf[l] = p}

(***************************************************************************)
(* The picker                                                              *)
(***************************************************************************)

\* handleLaunchLogin: "Sign in", or "Open the browser again" while a login is
\* pending and shows no code.
ClickSignIn(l) ==
  LET p == ProviderOf[l] IN
  /\ handler[l] = "idle"
  /\ pending = p => p \notin codes
  /\ pending' = p
  /\ asking' = asking \cup {l}
  /\ handler' = [handler EXCEPT ![l] = "sent"]
  /\ unheard' = unheard \ {p}
  /\ UNCHANGED <<codes, cancels, sessions, notified, watcher, cancelled, untold, child, events, dismissed>>

\* Bug: the catch branch reports the error and leaves the spinner.
LaunchFails_KeepsSpinner(l) ==
  /\ handler[l] \in {"sent", "broken"}
  /\ handler' = [handler EXCEPT ![l] = "over"]
  /\ asking' = asking \ {l}
  /\ UNCHANGED <<pending, codes, cancels, sessions, notified, watcher, cancelled, untold, child, events, dismissed, unheard>>

\* launch_login fails (no such CLI, no login command, the spawn fails) or its engine
\* dies, and the answer takes the catch branch of handleLaunchLogin.
LaunchFails(l) ==
  /\ handler[l] \in {"sent", "broken"}
  /\ handler' = [handler EXCEPT ![l] = "over"]
  /\ pending' = IF l \in asking THEN None ELSE pending
  /\ asking' = asking \ {l}
  /\ UNCHANGED <<codes, cancels, sessions, notified, watcher, cancelled, untold, child, events, dismissed, unheard>>

\* handleCancel: the spinner stays until an event ends it.
ClickCancel ==
  /\ pending # None
  /\ cancels' = cancels \cup {pending}
  /\ UNCHANGED <<pending, codes, asking, handler, sessions, notified, watcher, cancelled, untold, child, events, dismissed, unheard>>

\* The handler of engine events in the picker.
HandleEvent ==
  /\ events # <<>>
  /\ LET e == Head(events) IN
     IF e.type = "ProviderLoginDeviceCode"
       THEN /\ codes' = codes \cup {e.provider}
            /\ UNCHANGED pending
       ELSE /\ codes' = codes \ {e.provider}
            /\ pending' = None
  /\ events' = Tail(events)
  /\ UNCHANGED <<asking, cancels, handler, sessions, notified, watcher, cancelled, untold, child, dismissed, unheard>>

\* The user leaves the picker and comes back: its state starts anew, the answers
\* of its requests reach nobody. When the page was reloaded, so do the events.
Remount ==
  /\ pending' = None
  /\ codes' = {}
  /\ asking' = {}
  /\ events' \in {events, <<>>}
  /\ UNCHANGED <<cancels, handler, sessions, notified, watcher, cancelled, untold, child, dismissed, unheard>>

(***************************************************************************)
(* The engine's handlers                                                   *)
(***************************************************************************)

\* launch_login: the process and the task that reads its output are spawned.
Launch(l) ==
  /\ handler[l] = "sent"
  /\ handler' = [handler EXCEPT ![l] = "registering"]
  /\ child' = [child EXCEPT ![l] = "alive"]
  /\ untold' = IF ProviderOf[l] \in Challenging THEN untold \cup {l} ELSE untold
  /\ UNCHANGED <<pickerVars, sessions, notified, watcher, cancelled, events, dismissed, unheard>>

\* Bug: notify_waiters keeps no permit for a watcher that has not begun to wait.
CancelInner_Waiters(p) ==
  IF sessions \cap Of(p) = {}
    THEN UNCHANGED <<sessions, notified>>
    ELSE \E l \in sessions \cap Of(p) :
           /\ sessions' = sessions \ {l}
           /\ notified' = IF watcher[l] = "waiting" THEN notified \cup {l} ELSE notified

\* cancel_inner: the first session of the provider leaves the list and is notified.
\* The list is kept as a set: with two sessions of a provider, either may be first.
CancelInner(p) ==
  IF sessions \cap Of(p) = {}
    THEN UNCHANGED <<sessions, notified>>
    ELSE \E l \in sessions \cap Of(p) :
           /\ sessions' = sessions \ {l}
           /\ notified' = notified \cup {l}

\* register, first part: the previous login of the provider is cancelled.
CancelPrevious(l) ==
  /\ handler[l] = "registering"
  /\ handler' = [handler EXCEPT ![l] = "pushing"]
  /\ CancelInner(ProviderOf[l])
  /\ dismissed' = dismissed \cup (sessions \ sessions')
  /\ UNCHANGED <<pickerVars, watcher, cancelled, untold, child, events, unheard>>

\* register, second part: the session is pushed and its watcher spawned.
Push(l) ==
  /\ handler[l] = "pushing"
  /\ handler' = [handler EXCEPT ![l] = "over"]
  /\ asking' = asking \ {l}
  /\ sessions' = sessions \cup {l}
  /\ watcher' = [watcher EXCEPT ![l] = "spawned"]
  /\ UNCHANGED <<pending, codes, cancels, notified, cancelled, untold, child, events, dismissed, unheard>>

\* The page is gone: the handler's future is dropped where it waits for the lock,
\* and its child with it (kill_on_drop).
HandlerDropped(l) ==
  /\ l \notin asking
  /\ handler[l] \in {"registering", "pushing"}
  /\ handler' = [handler EXCEPT ![l] = "over"]
  /\ child' = [child EXCEPT ![l] = "dead"]
  /\ UNCHANGED <<pickerVars, sessions, notified, watcher, cancelled, untold, events, dismissed, unheard>>

\* cancel_login
HandleCancel(p) ==
  /\ p \in cancels
  /\ cancels' = cancels \ {p}
  /\ CancelInner(p)
  /\ dismissed' = dismissed \cup (sessions \ sessions')
  /\ UNCHANGED <<pending, codes, asking, handler, watcher, cancelled, untold, child, events, unheard>>

(***************************************************************************)
(* The process and the tasks that look after it                            *)
(***************************************************************************)

\* The login ends: the user has signed in, given up in the browser, or waited too long.
ChildExits(l) ==
  /\ child[l] = "alive"
  /\ child' = [child EXCEPT ![l] = "dead"]
  /\ UNCHANGED <<pickerVars, handler, sessions, notified, watcher, cancelled, untold, events, dismissed, unheard>>

\* watch_for_device_code: it may read what was written before the process died.
TellCode(l) ==
  /\ l \in untold
  /\ untold' = untold \ {l}
  /\ events' = Append(events, [type |-> "ProviderLoginDeviceCode", provider |-> ProviderOf[l]])
  /\ UNCHANGED <<pickerVars, handler, sessions, notified, watcher, cancelled, child, dismissed, unheard>>

\* The task is polled for the first time: from now on it waits.
WatcherStarts(l) ==
  /\ watcher[l] = "spawned"
  /\ watcher' = [watcher EXCEPT ![l] = "waiting"]
  /\ UNCHANGED <<pickerVars, handler, sessions, notified, cancelled, untold, child, events, dismissed, unheard>>

\* select!: child.wait() is ready.
WatcherReaps(l) ==
  /\ watcher[l] = "waiting"
  /\ child[l] = "dead"
  /\ watcher' = [watcher EXCEPT ![l] = "cleaning"]
  /\ UNCHANGED <<pickerVars, handler, sessions, notified, cancelled, untold, child, events, dismissed, unheard>>

\* select!: the permit is there; the process is to be killed.
WatcherNotified(l) ==
  /\ watcher[l] = "waiting"
  /\ l \in notified
  /\ watcher' = [watcher EXCEPT ![l] = "killing"]
  /\ cancelled' = cancelled \cup {l}
  /\ notified' = notified \ {l}
  /\ UNCHANGED <<pickerVars, handler, sessions, untold, child, events, dismissed, unheard>>

\* child.kill().await: the process is dead and reaped.
Kill(l) ==
  /\ watcher[l] = "killing"
  /\ child' = [child EXCEPT ![l] = "dead"]
  /\ watcher' = [watcher EXCEPT ![l] = "cleaning"]
  /\ UNCHANGED <<pickerVars, handler, sessions, notified, cancelled, untold, events, dismissed, unheard>>

\* Bug: only the sessions of cancelled logins, which are gone already, are removed.
Cleaned_Cancelled(l) == IF l \in cancelled THEN sessions \ Of(ProviderOf[l]) ELSE sessions

\* The cleanup: every session of the provider leaves the list, whoever's it is.
Cleaned(l) == sessions \ Of(ProviderOf[l])

CleanUp(l) ==
  /\ watcher[l] = "cleaning"
  /\ watcher' = [watcher EXCEPT ![l] = "emitting"]
  /\ sessions' = Cleaned(l)
  /\ UNCHANGED <<pickerVars, handler, notified, cancelled, untold, child, events, dismissed, unheard>>

EmitComplete(l) ==
  /\ watcher[l] = "emitting"
  /\ watcher' = [watcher EXCEPT ![l] = "done"]
  /\ events' = Append(events, Complete(ProviderOf[l]))
  /\ UNCHANGED <<pickerVars, handler, sessions, notified, cancelled, untold, child, dismissed, unheard>>

\* An event is lost on its way: the engine's queue of the socket overflows, the socket
\* reconnects, or the picker's handler is on the socket of an engine that is no more.
LoseEvent ==
  \E i \in 1..Len(events) :
    /\ events' = SubSeq(events, 1, i - 1) \o SubSeq(events, i + 1, Len(events))
    /\ unheard' = IF events[i].type = "ProviderLoginComplete"
                    THEN unheard \cup {events[i].provider} ELSE unheard
    /\ UNCHANGED <<pickerVars, handler, sessions, notified, watcher, cancelled, untold, child, dismissed>>

\* The engine dies and is started again. Its list, its tasks and what they had to tell
\* are gone; requests that it had not answered fail; login processes may go on.
EngineRestarts ==
  /\ handler' = [l \in Logins |-> IF handler[l] \in {"idle", "over"} THEN handler[l] ELSE "broken"]
  /\ watcher' = [l \in Logins |-> "none"]
  /\ sessions' = {} /\ notified' = {} /\ cancelled' = {} /\ untold' = {} /\ cancels' = {}
  /\ events' = <<>>
  /\ dismissed' = {} /\ unheard' = Providers
  /\ UNCHANGED <<pending, codes, asking, child>>

Picker == ClickCancel \/ HandleEvent \/ Remount \/ \E l \in Logins : ClickSignIn(l) \/ LaunchFails(l)
Handlers == \/ \E l \in Logins : Launch(l) \/ CancelPrevious(l) \/ Push(l) \/ HandlerDropped(l)
            \/ \E p \in Providers : HandleCancel(p)
Watcher(l) == WatcherStarts(l) \/ WatcherReaps(l) \/ WatcherNotified(l) \/ Kill(l) \/ CleanUp(l) \/ EmitComplete(l)

Next == \/ Picker \/ Handlers \/ LoseEvent \/ EngineRestarts
        \/ \E l \in Logins : Watcher(l) \/ ChildExits(l) \/ TellCode(l)

Spec == Init /\ [][Next]_vars

(***************************************************************************)
(* Properties                                                              *)
(***************************************************************************)

\* A session stays in the list no longer than until its watcher's cleanup: no cancel has
\* taken it, and its watcher still takes a permit, or is at the cleanup of a process that
\* is over. So what a cancel takes is a login that it ends, or one that is over and not
\* yet cleaned up; never one that was cancelled, or whose end was reported, before
\* (login_session.rs:55-58, 73-82).
ListedUntilCleanup ==
  \A l \in sessions :
    /\ l \notin notified \cup cancelled
    /\ \/ watcher[l] \in {"spawned", "waiting"}
       \/ watcher[l] = "cleaning" /\ child[l] = "dead"

\* A card spins for a reason: a request for its provider is on its way, a watcher of
\* its provider has still to report, or its report is on its way; unless a report of
\* its provider was lost, with the event or with the engine, since "Sign in" was clicked
\* last: nothing repeats it, and the spinner turns until the picker is left or another
\* login ends (provider-picker.tsx:68-85, 95-104).
SpinnerHasReason ==
  pending # None =>
    \/ pending \in unheard
    \/ \E l \in Of(pending) : l \in asking \/ watcher[l] \notin {"none", "done"}
    \/ \E i \in 1..Len(events) : events[i] = Complete(pending)

\* While the engine lives, a login that a cancel took from the list is dead or going to
\* be: its permit waits for a watcher that will take it, or the watcher is killing it.
\* Nothing later, an exit, a cleanup or another cancel, takes the permit away, even when
\* it came before the watcher had begun to wait (login_session.rs:40-53, 73-82).
DismissedAreDoomed ==
  \A l \in dismissed :
    \/ child[l] = "dead"
    \/ l \in notified /\ watcher[l] \in {"spawned", "waiting"}
    \/ watcher[l] = "killing"
================================================================================
