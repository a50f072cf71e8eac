------------------------------ MODULE Manager ------------------------------
(***************************************************************************)
(* internal/client/manager.go: the client's connection to S.  Reconnect    *)
(* runs in the shell's thread and in the goroutines that follow sessions:  *)
(* sessionLoop waits for the end of a session, then reconnectLoop tries    *)
(* for a new one.  A goroutine carries the name of the session it follows. *)
(***************************************************************************)
EXTENDS Naturals, FiniteSets

CONSTANTS Sessions,      \* sessions that may be made
          Shell,         \* the shell's thread
          NoSession,
          MaxAttempts,   \* reconnectLoop's bound, 6 in the code
          MaxCommands,   \* bound on the shell's connect and reconnect commands
          MayClose,      \* whether Manager.Close may be called
          MayRefuse      \* whether connecting to S may fail

Threads == Sessions \cup {Shell}

ASSUME ManagerAssumption ==
  /\ Shell \notin Sessions /\ NoSession \notin Sessions
  /\ MaxAttempts \in Nat \ {0} /\ MaxCommands \in Nat
  /\ MayClose \in BOOLEAN /\ MayRefuse \in BOOLEAN

VARIABLES
  session, state, closed,   \* fields of Manager
  alive, used,   \* the sessions not done, and all that were started
  pc,            \* where a thread is
  fresh,         \* the session a thread in Reconnect has started
  attempt,       \* reconnectLoop's counter
  commands       \* commands the shell has yet to give

vars == <<session, state, closed, alive, used, pc, fresh, attempt, commands>>

\* "idle" is the shell's; "watch" to "timer" are sessionLoop and reconnectLoop;
\* "dial" and "install" are the two halves of Reconnect.
Steps == {"idle", "none", "watch", "ended", "timer", "dial", "install", "gone"}

TypeOK ==
  /\ session \in Sessions \cup {NoSession}
  /\ state \in {"disconnected", "connecting", "connected"}
  /\ closed \in BOOLEAN
  /\ alive \subseteq used /\ used \subseteq Sessions
  /\ pc \in [Threads -> Steps]
  /\ fresh \in [Threads -> Sessions \cup {NoSession}]
  /\ attempt \in [Threads -> 0..MaxAttempts]
  /\ commands \in 0..MaxCommands

Init ==
  /\ session = NoSession /\ state = "disconnected" /\ closed = FALSE
  /\ alive = {} /\ used = {}
  /\ pc = [t \in Threads |-> IF t = Shell THEN "idle" ELSE "none"]
  /\ fresh = [t \in Threads |-> NoSession]
  /\ attempt = [t \in Threads |-> 0]
  /\ commands = MaxCommands

To(t, step) == pc' = [pc EXCEPT ![t] = step]

-----------------------------------------------------------------------------
(* Reconnect                                                               *)

\* Session.Close of the manager's session, by Reconnect and by Close.
keepSession == alive
closeSession == alive \ {session}

evenClosed == TRUE
stillWanted == ~closed

\* Its first section under the lock, and Session.Close right after it: only the
\* sessionLoop of the old session could tell, and that finds it replaced.
Reconnect(t) ==
  /\ stillWanted
  /\ session' = NoSession /\ state' = "connecting"
  /\ alive' = closeSession
  /\ To(t, "dial")

\* The shell's connect or reconnect.
Command ==
  /\ commands > 0 /\ pc[Shell] = "idle"
  /\ Reconnect(Shell)
  /\ commands' = commands - 1
  /\ UNCHANGED <<closed, used, fresh, attempt>>

\* Connecting, the handshake and Session.Start succeed.
DialOK(t) ==
  /\ pc[t] = "dial"
  /\ \E s \in Sessions \ used :
       /\ used' = used \cup {s} /\ alive' = alive \cup {s}
       /\ fresh' = [fresh EXCEPT ![t] = s]
  /\ To(t, "install")
  /\ UNCHANGED <<session, state, closed, attempt, commands>>

lastAttempt(t) == attempt[t] + 1 = MaxAttempts

\* One of them fails: setError, and Reconnect returns to its caller; a
\* reconnectLoop tries again unless this was its last attempt.
DialFails(t) ==
  /\ pc[t] = "dial" /\ MayRefuse
  /\ state' = "disconnected"
  /\ IF t = Shell THEN To(t, "idle") /\ UNCHANGED attempt
     ELSE /\ attempt' = [attempt EXCEPT ![t] = @ + 1]
          /\ To(t, IF lastAttempt(t) THEN "gone" ELSE "timer")
  /\ UNCHANGED <<session, closed, alive, used, fresh, commands>>

\* Where Reconnect returns to once it has succeeded.
loopGoesOn(t) == IF t = Shell THEN "idle" ELSE "timer"
returnsTo(t) == IF t = Shell THEN "idle" ELSE "gone"

\* The second section under the lock; sessionLoop starts to watch the session.
Install(t) ==
  /\ pc[t] = "install"
  /\ session' = fresh[t] /\ state' = "connected"
  /\ fresh' = [fresh EXCEPT ![t] = NoSession]
  /\ pc' = [pc EXCEPT ![t] = returnsTo(t), ![fresh[t]] = "watch"]
  /\ UNCHANGED <<closed, alive, used, attempt, commands>>

-----------------------------------------------------------------------------
(* sessionLoop and reconnectLoop                                           *)

\* The session ends, for a reason outside the manager.
SessionDies(s) ==
  /\ s \in alive
  /\ alive' = alive \ {s}
  /\ UNCHANGED <<session, state, closed, used, pc, fresh, attempt, commands>>

\* Only the loop of the manager's current session goes on.
current(s) == session = s

sessionOnly == session' = NoSession /\ UNCHANGED state
disconnected == session' = NoSession /\ state' = "disconnected"

SessionEnded(s) ==
  /\ pc[s] = "watch" /\ s \notin alive
  /\ \/ current(s) /\ disconnected /\ To(s, "ended")
     \/ ~current(s) /\ To(s, "gone") /\ UNCHANGED <<session, state>>
  /\ UNCHANGED <<closed, alive, used, fresh, attempt, commands>>

neverAgain(s) == "gone"
nextStep(s) == IF closed THEN "gone" ELSE "timer"

StartLoop(s) ==
  /\ pc[s] = "ended"
  /\ To(s, nextStep(s))
  /\ UNCHANGED <<session, state, closed, alive, used, fresh, attempt, commands>>

\* The timer fires.  (If the manager is closed between the loop's look at it
\* and Reconnect's, the loop ends at its next timer instead.)
Attempt(s) ==
  /\ pc[s] = "timer"
  /\ \/ Reconnect(s)
     \/ closed /\ To(s, "gone") /\ UNCHANGED <<session, state, alive>>
  /\ UNCHANGED <<closed, used, fresh, attempt, commands>>

-----------------------------------------------------------------------------
\* On "disconnect", and from Shutdown in any thread.
Close ==
  /\ MayClose
  /\ alive' = closeSession
  /\ session' = NoSession /\ closed' = TRUE /\ state' = "disconnected"
  /\ UNCHANGED <<used, pc, fresh, attempt, commands>>

Thread(t) == DialOK(t) \/ DialFails(t) \/ Install(t)
Follower(s) == SessionEnded(s) \/ StartLoop(s) \/ Attempt(s) \/ Thread(s)

Next ==
  \/ Command \/ Thread(Shell) \/ Close
  \/ \E s \in Sessions : SessionDies(s) \/ Follower(s)

Spec == Init /\ [][Next]_vars

(* Goroutines run, timers fire and connecting ends; nothing makes the      *)
(* shell give a command or a session end.                                  *)
FairSpec == Spec /\ WF_vars(Thread(Shell)) /\ \A s \in Sessions : WF_vars(Follower(s))

-----------------------------------------------------------------------------
(* Properties                                                              *)

\* The shell has given no command after the one that first connected.
Unassisted == commands + 1 >= MaxCommands

\* "status" never shows a connection where there is none; and it shows the one
\* there is, as long as only the loops call Reconnect.
StateTruthful ==
  /\ state = "connected" => session # NoSession
  /\ Unassisted /\ session # NoSession => state = "connected"

\* Through losses, retries and Close, every live session can be found to be
\* closed: it is the manager's, or a thread is about to make it so.
NoLeakedSession ==
  Unassisted => alive \subseteq {session} \cup {fresh[t] : t \in {u \in Threads : pc[u] = "install"}}

\* Once connected and as long as the manager is not closed, someone is at work
\* on a new session whenever there is none, or a reconnectLoop has used up its
\* attempts.
AtWork == {t \in Threads : pc[t] \in {"ended", "timer", "dial", "install"}}
GaveUp == \E s \in Sessions : pc[s] = "gone" /\ attempt[s] = MaxAttempts
RetriesOrGivesUp ==
  Unassisted /\ used # {} /\ ~closed /\ session = NoSession => AtWork # {} \/ GaveUp

\* reconnectLoop never takes down a session that works.
LoopSparesLiveSession ==
  [][\A s \in Sessions :
       Unassisted /\ pc[s] = "timer" /\ pc'[s] = "dial" => session \notin alive]_vars

\* Once the manager is closed and no call of Reconnect is half way, no timer and
\* no command starts one again.
ClosedStaysClosed ==
  [][closed /\ (\A t \in Threads : pc[t] \notin {"dial", "install"})
       => session' \in {session, NoSession} /\ \A t \in Threads : pc'[t] # "dial"]_vars

\* A session that was lost is replaced, unless S refuses every attempt, Close is
\* called or the shell takes over.
LostIsReplaced ==
  (used # {} /\ session = NoSession)
    ~> (session # NoSession \/ closed \/ GaveUp \/ ~Unassisted \/ used = Sessions)
=============================================================================
