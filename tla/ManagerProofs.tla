--------------------------- MODULE ManagerProofs ---------------------------
(***************************************************************************)
(* Proofs about Manager: the client's manager with any number of sessions, *)
(* attempts and commands.                                                  *)
(***************************************************************************)
EXTENDS Manager, TLAPS

\* The threads that are about to make a session: AtWork of Manager.
OneAtWork ==
  Unassisted =>
    /\ \A t, u \in AtWork : t = u
    /\ AtWork # {} => session = NoSession

\* A session belongs to one thread until it is installed, and its own goroutine
\* starts only then.
FreshIsOwn ==
  /\ \A s \in Sessions \ used : pc[s] = "none"
  /\ \A t \in Threads :
       pc[t] = "install" => fresh[t] \in used /\ pc[fresh[t]] = "none"
  /\ \A t, u \in Threads :
       pc[t] = "install" /\ pc[u] = "install" /\ fresh[t] = fresh[u] => t = u

\* A reconnectLoop that goes on has attempts left.
AttemptsLeft == \A s \in Sessions : pc[s] # "gone" => attempt[s] < MaxAttempts

\* Before the first command nothing has happened, and as long as it is the only
\* one the shell's thread connects first.
FirstCommand ==
  /\ commands = MaxCommands =>
       used = {} /\ pc[Shell] = "idle" /\ \A s \in Sessions : pc[s] = "none"
  /\ Unassisted /\ pc[Shell] = "dial" => used = {}

TypeInv == TypeOK /\ FreshIsOwn /\ AttemptsLeft

IInv ==
  /\ TypeInv /\ OneAtWork /\ FirstCommand
  /\ StateTruthful /\ NoLeakedSession /\ RetriesOrGivesUp

-----------------------------------------------------------------------------
LEMMA InitTypeInv == Init => TypeInv
<1> SUFFICES ASSUME Init PROVE TypeInv
  OBVIOUS
<1> USE ManagerAssumption DEF Init, Threads, Steps
<1>1. TypeOK
  <2>1. pc \in [Threads -> Steps]
    OBVIOUS
  <2>2. attempt \in [Threads -> 0..MaxAttempts] /\ commands \in 0..MaxCommands
    OBVIOUS
  <2>3. fresh \in [Threads -> Sessions \cup {NoSession}]
    OBVIOUS
  <2>4. closed \in BOOLEAN /\ state \in {"disconnected", "connecting", "connected"}
    BY ZenonT(60)
  <2>5. session \in Sessions \cup {NoSession} /\ alive \subseteq used /\ used \subseteq Sessions
    OBVIOUS
  <2> QED BY <2>1, <2>2, <2>3, <2>4, <2>5 DEF TypeOK
<1>2. FreshIsOwn
  BY DEF FreshIsOwn
<1>3. AttemptsLeft
  BY DEF AttemptsLeft
<1> QED BY <1>1, <1>2, <1>3 DEF TypeInv

LEMMA NextTypeInv == TypeInv /\ [Next]_vars => TypeInv'
<1> SUFFICES ASSUME TypeInv, [Next]_vars PROVE TypeInv'
  OBVIOUS
<1> USE ManagerAssumption DEF TypeInv, TypeOK, Threads, Steps, To
<1>1. CASE UNCHANGED vars
  BY <1>1 DEF vars, FreshIsOwn, AttemptsLeft
<1>2. CASE Command
  BY <1>2 DEF Command, Reconnect, stillWanted, closeSession, FreshIsOwn, AttemptsLeft
<1>3. ASSUME NEW t \in Threads, DialOK(t) PROVE TypeInv'
  <2>1. PICK s \in Sessions \ used :
          used' = used \cup {s} /\ alive' = alive \cup {s} /\ fresh' = [fresh EXCEPT ![t] = s]
    BY ZenonT(60), <1>3 DEF DialOK
  <2>2. TypeOK'
    BY <1>3, <2>1 DEF DialOK
  <2>3. FreshIsOwn'
    BY <1>3, <2>1 DEF DialOK, FreshIsOwn
  <2>4. AttemptsLeft'
    BY <1>3 DEF DialOK, AttemptsLeft
  <2> QED BY <2>2, <2>3, <2>4
<1>4. ASSUME NEW t \in Threads, DialFails(t) PROVE TypeInv'
  BY <1>4 DEF DialFails, lastAttempt, FreshIsOwn, AttemptsLeft
<1>5. ASSUME NEW t \in Threads, Install(t) PROVE TypeInv'
  <2>1. fresh[t] \in Sessions /\ fresh[t] \in used /\ fresh[t] # t
    BY <1>5 DEF Install, FreshIsOwn
  <2>2. TypeOK'
    BY <1>5, <2>1 DEF Install, returnsTo
  <2>3. FreshIsOwn'
    BY <1>5, <2>1 DEF Install, returnsTo, FreshIsOwn
  <2>4. AttemptsLeft'
    BY <1>5, <2>1 DEF Install, returnsTo, FreshIsOwn, AttemptsLeft
  <2> QED BY <2>2, <2>3, <2>4
<1>6. ASSUME NEW s \in Sessions, SessionDies(s) PROVE TypeInv'
  BY <1>6 DEF SessionDies, FreshIsOwn, AttemptsLeft
<1>7. ASSUME NEW s \in Sessions, SessionEnded(s) PROVE TypeInv'
  BY <1>7 DEF SessionEnded, current, disconnected, FreshIsOwn, AttemptsLeft
<1>8. ASSUME NEW s \in Sessions, StartLoop(s) PROVE TypeInv'
  BY <1>8 DEF StartLoop, nextStep, FreshIsOwn, AttemptsLeft
<1>9. ASSUME NEW s \in Sessions, Attempt(s) PROVE TypeInv'
  BY <1>9 DEF Attempt, Reconnect, closeSession, FreshIsOwn, AttemptsLeft
<1>10. CASE Close
  BY <1>10 DEF Close, closeSession, FreshIsOwn, AttemptsLeft
<1> QED
  BY <1>1, <1>2, <1>3, <1>4, <1>5, <1>6, <1>7, <1>8, <1>9, <1>10 DEF Next, Thread, Follower

\* The manager's variables keep their types: in particular reconnectLoop never
\* counts past its attempts.
THEOREM TypeCorrect == Spec => []TypeOK
<1>1. Init => TypeInv BY InitTypeInv
<1>2. TypeInv /\ [Next]_vars => TypeInv' BY NextTypeInv
<1>3. TypeInv => TypeOK BY DEF TypeInv
<1> QED BY <1>1, <1>2, <1>3, PTL DEF Spec

-----------------------------------------------------------------------------
LEMMA InitIInv == Init => IInv
<1> SUFFICES ASSUME Init PROVE IInv
  OBVIOUS
<1>1. TypeInv
  BY InitTypeInv
<1>2. AtWork = {}
  BY DEF Init, AtWork, Threads
<1>3. OneAtWork /\ FirstCommand
  BY <1>2, ManagerAssumption DEF Init, OneAtWork, FirstCommand, Threads
<1>4. StateTruthful /\ NoLeakedSession /\ RetriesOrGivesUp
  BY DEF Init, StateTruthful, NoLeakedSession, RetriesOrGivesUp
<1> QED BY <1>1, <1>3, <1>4 DEF IInv

\* Under one command at most, a thread at work is the only one, there is no
\* session meanwhile, and only its own fresh one is alive.
LEMMA AloneAtWork ==
  ASSUME IInv, Unassisted, NEW t \in Threads, t \in AtWork
  PROVE  /\ session = NoSession
         /\ \A u \in Threads : u # t => pc[u] \notin {"ended", "timer", "dial", "install"}
         /\ pc[t] # "install" => alive = {}
         /\ pc[t] = "install" => alive \subseteq {fresh[t]}
<1>1. session = NoSession /\ \A u \in AtWork : u = t
  BY DEF IInv, OneAtWork
<1>2. \A u \in Threads : u # t => pc[u] \notin {"ended", "timer", "dial", "install"}
  BY <1>1 DEF AtWork
<1>3. NoSession \notin alive
  BY ManagerAssumption DEF IInv, TypeInv, TypeOK
<1> QED
  BY <1>1, <1>2, <1>3 DEF IInv, NoLeakedSession

LEMMA NextIInv == IInv /\ [Next]_vars => IInv'
<1> SUFFICES ASSUME IInv, [Next]_vars PROVE IInv'
  OBVIOUS
<1>0. TypeInv' /\ TypeOK /\ TypeOK' /\ FreshIsOwn
  BY NextTypeInv DEF IInv, TypeInv
<1> USE <1>0, ManagerAssumption DEF To
<1>1. CASE UNCHANGED vars
  BY <1>1 DEF vars, IInv, OneAtWork, FirstCommand, StateTruthful, NoLeakedSession, RetriesOrGivesUp,
     Unassisted, AtWork, GaveUp
<1>2. CASE Command
  <2>1. ~Unassisted' \/ commands = MaxCommands
    BY <1>2 DEF Command, Unassisted, TypeOK
  <2>2. CASE ~Unassisted'
    BY <1>2, <2>2 DEF Command, Reconnect, IInv, OneAtWork, FirstCommand, StateTruthful,
       NoLeakedSession, RetriesOrGivesUp, TypeOK, Unassisted
  <2>3. CASE commands = MaxCommands
    <3>1. used = {} /\ alive = {} /\ pc[Shell] = "idle" /\ \A s \in Sessions : pc[s] = "none"
      BY <2>3 DEF IInv, FirstCommand, TypeOK
    <3>2. pc' = [pc EXCEPT ![Shell] = "dial"] /\ used' = {} /\ alive' = {}
          /\ session' = NoSession /\ state' = "connecting" /\ commands' = MaxCommands - 1
      BY <1>2, <2>3, <3>1 DEF Command, Reconnect, closeSession
    <3>3. AtWork' = {Shell}
      BY <3>1, <3>2 DEF AtWork, Threads, TypeOK
    <3>4. OneAtWork' /\ FirstCommand'
      BY <3>1, <3>2, <3>3 DEF OneAtWork, FirstCommand, TypeOK, Threads
    <3>5. StateTruthful' /\ NoLeakedSession' /\ RetriesOrGivesUp'
      BY <3>2 DEF StateTruthful, NoLeakedSession, RetriesOrGivesUp
    <3> QED BY <3>4, <3>5 DEF IInv
  <2> QED BY <2>1, <2>2, <2>3
<1>3. ASSUME NEW t \in Threads, DialOK(t) PROVE IInv'
  <2>1. PICK s \in Sessions \ used :
          used' = used \cup {s} /\ alive' = alive \cup {s} /\ fresh' = [fresh EXCEPT ![t] = s]
    BY ZenonT(60), <1>3 DEF DialOK
  <2>2. AtWork' = AtWork /\ t \in AtWork /\ UNCHANGED <<session, state, closed, commands, attempt>>
        /\ pc' = [pc EXCEPT ![t] = "install"] /\ pc[t] = "dial"
    BY <1>3 DEF DialOK, AtWork, TypeOK, Threads
  <2>3. OneAtWork' /\ StateTruthful'
    BY <2>2 DEF IInv, OneAtWork, StateTruthful, Unassisted
  <2>4. FirstCommand'
    BY <2>1, <2>2 DEF IInv, OneAtWork, AtWork, FirstCommand, Unassisted, TypeOK, Threads
  <2>5. NoLeakedSession'
    BY <2>1, <2>2, AloneAtWork DEF NoLeakedSession, Unassisted, TypeOK, Threads
  <2>6. RetriesOrGivesUp'
    BY <2>2 DEF RetriesOrGivesUp
  <2> QED BY <2>3, <2>4, <2>5, <2>6 DEF IInv
<1>4. ASSUME NEW t \in Threads, DialFails(t) PROVE IInv'
  <2>1. t \in AtWork /\ pc[t] = "dial" /\ state' = "disconnected"
        /\ UNCHANGED <<session, closed, alive, used, fresh, commands>>
    BY <1>4 DEF DialFails, AtWork
  <2>2. /\ \A u \in Threads : u # t => pc'[u] = pc[u]
        /\ pc'[t] \in {"idle", "gone", "timer"}
        /\ t = Shell => pc'[t] = "idle"
        /\ t # Shell => pc'[t] = "timer" \/ (pc'[t] = "gone" /\ attempt'[t] = MaxAttempts)
    BY <1>4 DEF DialFails, lastAttempt, TypeOK, Threads
  <2>3. AtWork' \subseteq AtWork
    BY <2>1, <2>2 DEF AtWork, Threads
  <2>4. OneAtWork'
    BY <2>1, <2>3 DEF IInv, OneAtWork, Unassisted
  <2>5. StateTruthful'
    BY <2>1, AloneAtWork DEF StateTruthful, Unassisted
  <2>6. FirstCommand'
    BY <2>1, <2>2 DEF IInv, FirstCommand, Unassisted, TypeOK, Threads
  <2>7. NoLeakedSession'
    BY <2>1, <2>2, AloneAtWork DEF NoLeakedSession, Unassisted
  <2>8. RetriesOrGivesUp'
    <3>1. CASE t = Shell
      BY <2>1, <3>1 DEF RetriesOrGivesUp, IInv, FirstCommand, Unassisted
    <3>2. CASE t # Shell
      BY <2>1, <2>2, <3>2 DEF RetriesOrGivesUp, AtWork, GaveUp, Threads
    <3> QED BY <3>1, <3>2
  <2> QED BY <2>4, <2>5, <2>6, <2>7, <2>8 DEF IInv
<1>5. ASSUME NEW t \in Threads, Install(t) PROVE IInv'
  <2>1. /\ t \in AtWork /\ pc[t] = "install" /\ fresh[t] \in Sessions /\ fresh[t] \in used
        /\ pc[fresh[t]] = "none" /\ fresh[t] # t
    BY <1>5 DEF Install, FreshIsOwn, AtWork, TypeOK
  <2>2. /\ session' = fresh[t] /\ state' = "connected"
        /\ UNCHANGED <<closed, alive, used, attempt, commands>>
        /\ \A u \in Threads : u \notin {t, fresh[t]} => pc'[u] = pc[u]
        /\ pc'[t] \in {"idle", "gone"} /\ (t = Shell => pc'[t] = "idle")
        /\ pc'[fresh[t]] = "watch"
    BY <1>5, <2>1 DEF Install, returnsTo, TypeOK, Threads
  <2>3. Unassisted => AtWork' = {}
    BY <2>1, <2>2, AloneAtWork DEF AtWork
  <2>4. OneAtWork'
    BY <2>2, <2>3 DEF OneAtWork, Unassisted
  <2>5. StateTruthful' /\ RetriesOrGivesUp'
    BY <2>1, <2>2 DEF StateTruthful, RetriesOrGivesUp
  <2>6. FirstCommand'
    BY <2>1, <2>2 DEF IInv, FirstCommand, Unassisted, TypeOK, Threads
  <2>7. NoLeakedSession'
    BY <2>1, <2>2, AloneAtWork DEF NoLeakedSession, Unassisted
  <2> QED BY <2>4, <2>5, <2>6, <2>7 DEF IInv
<1>6. ASSUME NEW s \in Sessions, SessionDies(s) PROVE IInv'
  BY <1>6 DEF SessionDies, IInv, OneAtWork, FirstCommand, StateTruthful, NoLeakedSession,
     RetriesOrGivesUp, Unassisted, AtWork, GaveUp
<1>7. ASSUME NEW s \in Sessions, SessionEnded(s) PROVE IInv'
  <2>1. pc[s] = "watch" /\ s \notin alive /\ s # Shell /\ s # NoSession
        /\ UNCHANGED <<closed, alive, used, fresh, attempt, commands>>
    BY <1>7 DEF SessionEnded
  <2>2. CASE current(s)
    <3>1. session = s /\ session' = NoSession /\ state' = "disconnected"
          /\ pc' = [pc EXCEPT ![s] = "ended"]
      BY <1>7, <2>2 DEF SessionEnded, current, disconnected
    <3>2. AtWork' = AtWork \cup {s}
      BY <2>1, <3>1 DEF AtWork, TypeOK, Threads
    <3>3. OneAtWork'
      BY <2>1, <3>1, <3>2 DEF IInv, OneAtWork, Unassisted
    <3>4. StateTruthful' /\ RetriesOrGivesUp'
      BY <3>1, <3>2 DEF StateTruthful, RetriesOrGivesUp
    <3>5. FirstCommand'
      BY <2>1, <3>1 DEF IInv, FirstCommand, Unassisted, TypeOK, Threads
    <3>6. NoLeakedSession'
      BY <2>1, <3>1 DEF IInv, NoLeakedSession, Unassisted, TypeOK, Threads
    <3> QED BY <3>3, <3>4, <3>5, <3>6 DEF IInv
  <2>3. CASE ~current(s)
    <3>1. UNCHANGED <<session, state>> /\ pc' = [pc EXCEPT ![s] = "gone"]
      BY <1>7, <2>3 DEF SessionEnded
    <3>2. AtWork' = AtWork
      BY <2>1, <3>1 DEF AtWork, TypeOK, Threads
    <3>3. OneAtWork' /\ StateTruthful'
      BY <2>1, <3>1, <3>2 DEF IInv, OneAtWork, StateTruthful, Unassisted
    <3>4. FirstCommand'
      BY <2>1, <3>1 DEF IInv, FirstCommand, Unassisted, TypeOK, Threads
    <3>5. NoLeakedSession'
      BY <2>1, <3>1 DEF IInv, NoLeakedSession, Unassisted, TypeOK, Threads
    <3>6. RetriesOrGivesUp'
      BY <2>1, <3>1, <3>2 DEF IInv, RetriesOrGivesUp, GaveUp, Unassisted, TypeOK, Threads
    <3> QED BY <3>3, <3>4, <3>5, <3>6 DEF IInv
  <2> QED BY <2>2, <2>3
<1>8. ASSUME NEW s \in Sessions, StartLoop(s) PROVE IInv'
  <2>1. pc[s] = "ended" /\ s \in AtWork /\ s # Shell
        /\ UNCHANGED <<session, state, closed, alive, used, fresh, attempt, commands>>
    BY <1>8 DEF StartLoop, AtWork, Threads
  <2>2. pc' = [pc EXCEPT ![s] = nextStep(s)] /\ nextStep(s) \in {"gone", "timer"}
        /\ (~closed => nextStep(s) = "timer")
    BY <1>8 DEF StartLoop, nextStep
  <2>3. AtWork' \subseteq AtWork /\ (~closed => AtWork' = AtWork)
    BY <2>1, <2>2 DEF AtWork, TypeOK, Threads
  <2>4. OneAtWork' /\ StateTruthful'
    BY <2>1, <2>3 DEF IInv, OneAtWork, StateTruthful, Unassisted
  <2>5. FirstCommand'
    BY <2>1, <2>2 DEF IInv, FirstCommand, Unassisted, TypeOK, Threads
  <2>6. NoLeakedSession'
    BY <2>1, <2>2 DEF IInv, NoLeakedSession, Unassisted, TypeOK, Threads
  <2>7. RetriesOrGivesUp'
    BY <2>1, <2>3 DEF RetriesOrGivesUp
  <2> QED BY <2>4, <2>5, <2>6, <2>7 DEF IInv
<1>9. ASSUME NEW s \in Sessions, Attempt(s) PROVE IInv'
  <2>1. pc[s] = "timer" /\ s \in AtWork /\ s # Shell
        /\ UNCHANGED <<closed, used, fresh, attempt, commands>>
    BY <1>9 DEF Attempt, AtWork, Threads
  <2>2. CASE Reconnect(s)
    <3>1. session' = NoSession /\ state' = "connecting" /\ alive' = alive \ {session}
          /\ pc' = [pc EXCEPT ![s] = "dial"]
      BY <2>2 DEF Reconnect, closeSession
    <3>2. AtWork' = AtWork
      BY <2>1, <3>1 DEF AtWork, TypeOK, Threads
    <3>3. OneAtWork' /\ StateTruthful' /\ RetriesOrGivesUp'
      BY <2>1, <3>1, <3>2 DEF IInv, OneAtWork, StateTruthful, RetriesOrGivesUp, Unassisted
    <3>4. FirstCommand'
      BY <2>1, <3>1 DEF IInv, FirstCommand, Unassisted, TypeOK, Threads
    <3>5. NoLeakedSession'
      BY <2>1, <3>1, AloneAtWork DEF NoLeakedSession, Unassisted, Threads
    <3> QED BY <3>3, <3>4, <3>5 DEF IInv
  <2>3. CASE closed /\ To(s, "gone") /\ UNCHANGED <<session, state, alive>>
    <3>1. closed' /\ pc' = [pc EXCEPT ![s] = "gone"] /\ UNCHANGED <<session, state, alive>>
      BY <2>1, <2>3
    <3>2. AtWork' \subseteq AtWork
      BY <2>1, <3>1 DEF AtWork, TypeOK, Threads
    <3>3. OneAtWork' /\ StateTruthful' /\ RetriesOrGivesUp'
      BY <2>1, <3>1, <3>2 DEF IInv, OneAtWork, StateTruthful, RetriesOrGivesUp, Unassisted
    <3>4. FirstCommand'
      BY <2>1, <3>1 DEF IInv, FirstCommand, Unassisted, TypeOK, Threads
    <3>5. NoLeakedSession'
      BY <2>1, <3>1 DEF IInv, NoLeakedSession, Unassisted, TypeOK, Threads
    <3> QED BY <3>3, <3>4, <3>5 DEF IInv
  <2> QED BY <1>9, <2>2, <2>3 DEF Attempt
<1>10. CASE Close
  <2>1. alive' = alive \ {session} /\ session' = NoSession /\ closed' /\ state' = "disconnected"
        /\ UNCHANGED <<used, pc, fresh, attempt, commands>>
    BY <1>10 DEF Close, closeSession
  <2> QED
    BY <2>1 DEF IInv, OneAtWork, FirstCommand, StateTruthful, NoLeakedSession, RetriesOrGivesUp,
       Unassisted, AtWork
<1> QED
  BY <1>1, <1>2, <1>3, <1>4, <1>5, <1>6, <1>7, <1>8, <1>9, <1>10 DEF Next, Thread, Follower, Threads

LEMMA SpecIInv == Spec => []IInv
<1>1. Init => IInv BY InitIInv
<1>2. IInv /\ [Next]_vars => IInv' BY NextIInv
<1> QED BY <1>1, <1>2, PTL DEF Spec

\* "status" tells the truth about the connection, for any number of sessions.
THEOREM StatusIsTrue == Spec => []StateTruthful
<1>1. IInv => StateTruthful BY DEF IInv
<1> QED BY SpecIInv, <1>1, PTL

\* No live session is ever out of the manager's reach.
THEOREM NothingLeaks == Spec => []NoLeakedSession
<1>1. IInv => NoLeakedSession BY DEF IInv
<1> QED BY SpecIInv, <1>1, PTL

\* There is a session, or a loop at work on one, or one that has used up its
\* attempts, whatever their number.
THEOREM SomeoneRetries == Spec => []RetriesOrGivesUp
<1>1. IInv => RetriesOrGivesUp BY DEF IInv
<1> QED BY SpecIInv, <1>1, PTL

\* reconnectLoop never replaces a session that lives.
THEOREM LiveSessionSpared == Spec => LoopSparesLiveSession
<1>1. IInv /\ [Next]_vars =>
        [\A s \in Sessions :
           Unassisted /\ pc[s] = "timer" /\ pc'[s] = "dial" => session \notin alive]_vars
  <2> SUFFICES ASSUME IInv, NEW s \in Sessions, Unassisted, pc[s] = "timer"
               PROVE  session \notin alive
    OBVIOUS
  <2>1. s \in Threads /\ s \in AtWork
    BY DEF AtWork, Threads
  <2> QED
    BY <2>1, AloneAtWork, ManagerAssumption DEF IInv, TypeInv, TypeOK
<1> QED BY SpecIInv, <1>1, PTL DEF Spec, LoopSparesLiveSession

\* After Close no timer and no command connects again.
THEOREM CloseIsFinal == Spec => ClosedStaysClosed
<1> DEFINE Quiet == closed /\ \A t \in Threads : pc[t] \notin {"dial", "install"}
           Stays == session' \in {session, NoSession} /\ \A t \in Threads : pc'[t] # "dial"
<1>1. IInv /\ [Next]_vars => [Quiet => Stays]_vars
  <2> SUFFICES ASSUME TypeOK, closed, \A t \in Threads : pc[t] \notin {"dial", "install"}, Next
               PROVE  Stays
    BY DEF IInv, TypeInv
  <2> USE DEF TypeOK, To, Threads
  <2>1. CASE Command
    BY <2>1 DEF Command, Reconnect, stillWanted
  <2>2. ASSUME NEW t \in Threads, Thread(t) PROVE Stays
    BY ZenonT(60), <2>2 DEF Thread, DialOK, DialFails, Install
  <2>3. CASE Close
    BY <2>3 DEF Close
  <2>4. ASSUME NEW s \in Sessions, SessionDies(s) \/ SessionEnded(s) \/ StartLoop(s) \/ Attempt(s)
        PROVE  Stays
    BY ZenonT(60), <2>4 DEF SessionDies, SessionEnded, disconnected, StartLoop, nextStep, Attempt, Reconnect,
       stillWanted
  <2> QED BY <2>1, <2>2, <2>3, <2>4 DEF Next, Follower
<1> QED BY SpecIInv, <1>1, PTL DEF Spec, ClosedStaysClosed
=============================================================================
