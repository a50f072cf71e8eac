---------------------------- MODULE ProxyJournal ----------------------------
(***************************************************************************)
(* internal/client/runtime.go and cmd/lnproxy-client: the life of client   *)
(* processes, one after the other, that take over the user's proxy         *)
(* settings, keep a journal of what they were, and give them back.  In a   *)
(* process two threads run: the shell, which starts the runtime and at the *)
(* end shuts it down, and a goroutine that shuts it down on a signal.      *)
(***************************************************************************)
EXTENDS SystemProxy

CONSTANTS Address,      \* of each process, in the order they are launched
          Desktops,     \* the desktops considered: "windows", "kde" and "gnome"
          Configs,      \* by desktop, proxy settings a user may choose
          MayBeHeadless,  \* whether processes may start outside the desktop session
          NoJournal,
          MayCrash,     \* whether processes may be killed
          MaySignal,    \* whether SIGINT or SIGTERM may come
          MayFail,      \* the calls that may return an error
          MaxChanges    \* bound on the changes the user makes meanwhile

\* The values of settings: those a user may choose, and those a client writes.
Values(d) ==
  {"", "0", "1", "manual", "unparsable", Loopback} \cup {Address[i] : i \in 1..Len(Address)}
    \cup UNION {{c[k] : k \in Keys(d)} : c \in Configs[d]}

ASSUME JournalAssumption ==
  /\ Desktops \subseteq {"windows", "kde", "gnome"}
  /\ MayBeHeadless \in BOOLEAN /\ MayCrash \in BOOLEAN /\ MaySignal \in BOOLEAN
  /\ MayFail \subseteq {"apply", "restore"}
  /\ MaxChanges \in Nat
  /\ Address \in Seq(STRING)
  /\ \A d \in Desktops : \A c \in Configs[d] :
       c \in [Keys(d) -> STRING] /\ \A k \in Keys(d) : c[k] # "unparsable"
  /\ \A d \in Desktops : NoJournal \notin [SnapshotKeys(d) -> Values(d)]

VARIABLES
  desktop,     \* the desktop, which never changes
  settings,    \* its proxy settings
  user,        \* what the user last chose
  changes,     \* how often the user chose anew
  journal,     \* the file system-proxy-journal.json
  proc,        \* the process launched last
  headless,    \* whether New found no provider for it
  main, sig,   \* where its two threads are
  work,        \* writes it has yet to do in Apply or Restore
  before,      \* the snapshot in its memory
  started, closed, hasJournal,   \* fields of Runtime
  mishaps      \* history: what went wrong so far

world == <<desktop, user, changes>>
self == <<proc, headless>>
flags == <<started, closed, hasJournal>>
vars == <<world, settings, journal, self, main, sig, work, before, flags, mishaps>>

Shutting == {"shutdown", "draining", "restoring"}
MainSteps == {"off", "prompt", "recovering", "connecting", "listening", "journaling",
              "applying", "exited", "crashed"} \cup Shutting

\* Apply returned an error half way; Restore returned one; the error of a write
\* was ignored; a process without a provider wrote, or "restored", a journal that
\* a process then recovered from.
Mishaps == {"apply failed", "restore failed", "write ignored", "headless recovery"}
Happens(m) == mishaps' = mishaps \cup {m}

IsSnapshot(b) == b \in [SnapshotKeys(desktop) -> Values(desktop)]

TypeOK ==
  /\ desktop \in Desktops
  /\ user \in Configs[desktop] /\ settings \in [Keys(desktop) -> Values(desktop)]
  /\ changes \in 0..MaxChanges
  /\ journal # NoJournal => IsSnapshot(journal)
  /\ proc \in 0..Len(Address) /\ headless \in BOOLEAN
  /\ main \in MainSteps
  /\ sig \in {"waiting", "done"} \cup Shutting
  /\ work \in Seq([key : Keys(desktop), value : Values(desktop), fatal : BOOLEAN])
  /\ work # <<>> => \/ main \in {"recovering", "applying", "crashed"}
                    \/ "restoring" \in {main, sig}
  /\ IsSnapshot(before)
  /\ started \in BOOLEAN /\ closed \in BOOLEAN /\ hasJournal \in BOOLEAN
  /\ mishaps \subseteq Mishaps

Init ==
  /\ desktop \in Desktops
  /\ settings \in Configs[desktop] /\ user = settings /\ changes = 0
  /\ journal = NoJournal
  /\ proc = 0 /\ headless = FALSE
  /\ main = "off" /\ sig = "waiting"
  /\ work = <<>> /\ before = emptySnapshot(desktop, settings)
  /\ started = FALSE /\ closed = FALSE /\ hasJournal = FALSE
  /\ mishaps = {}

Runs == main \notin {"off", "exited", "crashed"}
MainTo(from, to) == main = from /\ main' = to
Signalled == sig # "waiting"

\* The signal cancels the context Start runs under, and with it, on Linux, the
\* commands that read and write the settings.
Cancelled ==
  desktop # "windows" /\ Signalled /\ main \in {"recovering", "listening", "applying"}

-----------------------------------------------------------------------------
(* The environment                                                         *)

\* One process at a time, with fresh memory.
Launch ==
  /\ ~Runs /\ proc < Len(Address)
  /\ proc' = proc + 1
  /\ headless' \in IF MayBeHeadless /\ desktop # "windows" THEN BOOLEAN ELSE {FALSE}
  /\ main' = "prompt" /\ sig' = "waiting"
  /\ work' = <<>> /\ before' = emptySnapshot(desktop, settings)
  /\ started' = FALSE /\ closed' = FALSE /\ hasJournal' = FALSE
  /\ UNCHANGED <<world, settings, journal, mishaps>>

\* The process is killed, or panics.
Crash ==
  /\ MayCrash /\ Runs
  /\ main' = "crashed"
  /\ UNCHANGED <<world, settings, journal, self, sig, work, before, flags, mishaps>>

UserChange ==
  /\ changes < MaxChanges /\ changes' = changes + 1
  /\ user' \in Configs[desktop] \ {settings} /\ settings' = user'
  /\ UNCHANGED <<desktop, journal, self, main, sig, work, before, flags, mishaps>>

-----------------------------------------------------------------------------
(* One write of Apply or Restore                                           *)

WriteDone ==
  /\ work # <<>> /\ ~Cancelled /\ ~(Unwritable(Head(work)) /\ Head(work).fatal)
  /\ settings' = IF Unwritable(Head(work)) THEN settings
                 ELSE [settings EXCEPT ![Head(work).key] = Head(work).value]
  /\ work' = Tail(work)
  /\ UNCHANGED <<world, journal, self, main, sig, before, flags, mishaps>>

\* A write fails and its error is ignored.
WriteIgnored ==
  /\ "restore" \in MayFail \/ Cancelled
  /\ work # <<>> /\ ~Head(work).fatal
  /\ work' = Tail(work)
  /\ Happens("write ignored")
  /\ UNCHANGED <<world, settings, journal, self, main, sig, before, flags>>

\* A write fails and the call returns its error.
WriteFails(call) ==
  /\ work # <<>> /\ Head(work).fatal
  /\ call \in MayFail \/ Cancelled \/ Unwritable(Head(work))

-----------------------------------------------------------------------------
(* Runtime.Start, on the command "connect"                                 *)

\* Restore; without a provider it does nothing, and succeeds.
Restore(b) == work' = IF headless THEN <<>> ELSE restoreWrites(desktop, b)

\* What the journal holds is restored, whatever the settings are now.
skipRecovery == MainTo("prompt", "connecting") /\ UNCHANGED <<work, mishaps>>
recoverJournal ==
  IF journal = NoJournal
  THEN MainTo("prompt", "connecting") /\ UNCHANGED <<work, mishaps>>
  ELSE /\ MainTo("prompt", "recovering")
       /\ Restore(journal)
       /\ IF headless \/ journal = emptySnapshot(desktop, user)
          THEN Happens("headless recovery") ELSE UNCHANGED mishaps

Start ==
  /\ ~started /\ ~closed
  /\ recoverJournal
  /\ UNCHANGED <<world, settings, journal, self, sig, before, flags>>

\* Restore fails: Start returns, and the journal stays.
RecoverFails ==
  /\ WriteFails("restore")
  /\ MainTo("recovering", "prompt")
  /\ work' = <<>>
  /\ Happens("restore failed")
  /\ UNCHANGED <<world, settings, journal, self, sig, before, flags>>

\* RemoveJournal
Recovered ==
  /\ work = <<>>
  /\ MainTo("recovering", "connecting")
  /\ journal' = NoJournal
  /\ UNCHANGED <<world, settings, self, sig, work, before, flags, mishaps>>

\* Manager.Connect, then the listeners.
Connected ==
  /\ MainTo("connecting", "listening")
  /\ started' = TRUE
  /\ UNCHANGED <<world, settings, journal, self, sig, work, before, closed, hasJournal, mishaps>>

\* Connect fails, or a listener does after started was set.
ConnectFails ==
  /\ MainTo("connecting", "prompt")
  /\ started' \in BOOLEAN
  /\ UNCHANGED <<world, settings, journal, self, sig, work, before, closed, hasJournal, mishaps>>

TakeSnapshot ==
  /\ ~Cancelled \/ headless
  /\ MainTo("listening", "journaling")
  /\ before' = IF headless THEN emptySnapshot(desktop, settings)
               ELSE snapshotOf(desktop, settings)
  /\ UNCHANGED <<world, settings, journal, self, sig, work, flags, mishaps>>

SnapshotFails ==
  /\ ~headless /\ ("apply" \in MayFail \/ Cancelled)
  /\ MainTo("listening", "prompt")
  /\ UNCHANGED <<world, settings, journal, self, sig, work, before, flags, mishaps>>

\* WriteJournal replaces the file at once, by a rename; Apply comes next.
applyFirst == UNCHANGED journal
saveJournal == journal' = before

WriteJournal ==
  /\ MainTo("journaling", "applying")
  /\ saveJournal
  /\ work' = IF headless THEN <<>> ELSE applyWrites(desktop, Address[proc])
  /\ UNCHANGED <<world, settings, self, sig, before, flags, mishaps>>

Applied ==
  /\ work = <<>> /\ ~headless
  /\ MainTo("applying", "prompt")
  /\ hasJournal' = TRUE
  /\ UNCHANGED <<world, settings, journal, self, sig, work, before, started, closed, mishaps>>

\* Apply fails, or is unsupported: the journal is removed.
ApplyFails ==
  /\ MainTo("applying", "prompt")
  /\ \/ WriteFails("apply") /\ Happens("apply failed")
     \/ headless /\ UNCHANGED mishaps
  /\ journal' = NoJournal
  /\ work' = <<>>
  /\ UNCHANGED <<world, settings, self, sig, before, flags>>

-----------------------------------------------------------------------------
(* Runtime.Shutdown, in either thread                                      *)

\* At "quit" or the end of the input the shell calls Shutdown; a signal makes
\* the goroutine of main call it.
Quit ==
  /\ MainTo("prompt", "shutdown")
  /\ UNCHANGED <<world, settings, journal, self, sig, work, before, flags, mishaps>>

Signal ==
  /\ MaySignal /\ Runs /\ sig = "waiting"
  /\ sig' = "shutdown"
  /\ UNCHANGED <<world, settings, journal, self, main, work, before, flags, mishaps>>

\* The thread at step "from" of Shutdown moves on; a thread that is through
\* leaves, and with the shell's the process.
ThreadTo(from, to) ==
  \/ MainTo(from, IF to = "done" THEN "exited" ELSE to) /\ UNCHANGED sig
  \/ sig = from /\ sig' = to /\ UNCHANGED main

\* Shutdown returns if it was called before.
Closed ==
  /\ ThreadTo("shutdown", IF closed THEN "done" ELSE "draining")
  /\ closed' = TRUE
  /\ UNCHANGED <<world, settings, journal, self, work, before, started, hasJournal, mishaps>>

\* Streams drain and the session is closed; restoreProxy looks at the settings,
\* and gives up where they differ or cannot be read.
unlessJournal == ~hasJournal /\ matches(desktop, settings, Address[proc])
restoring == hasJournal /\ matches(desktop, settings, Address[proc])

CheckProxy ==
  /\ restoring
  /\ ThreadTo("draining", "restoring")
  /\ Restore(before)
  /\ UNCHANGED <<world, settings, journal, self, before, flags, mishaps>>

SkipRestore ==
  /\ \/ ~restoring /\ UNCHANGED mishaps
     \/ hasJournal /\ "restore" \in MayFail /\ Happens("restore failed")
  /\ ThreadTo("draining", "done")
  /\ UNCHANGED <<world, settings, journal, self, work, before, flags>>

RestoreFails ==
  /\ WriteFails("restore")
  /\ ThreadTo("restoring", "done")
  /\ work' = <<>>
  /\ Happens("restore failed")
  /\ UNCHANGED <<world, settings, journal, self, before, flags>>

\* RemoveJournal, once every write is done; then hasJournal is reset.
removeEarly == TRUE
restoreDone == work = <<>>
keepFlag == TRUE
resetFlag == FALSE

Restored ==
  /\ restoreDone
  /\ ThreadTo("restoring", "done")
  /\ journal' = NoJournal
  /\ hasJournal' = resetFlag
  /\ UNCHANGED <<world, settings, self, work, before, started, closed, mishaps>>

-----------------------------------------------------------------------------
\* What a process does by itself, with no command, signal or crash.
Step ==
  /\ Runs
  /\ \/ WriteDone \/ WriteIgnored \/ RecoverFails \/ Recovered
     \/ Connected \/ ConnectFails \/ TakeSnapshot \/ SnapshotFails
     \/ WriteJournal \/ Applied \/ ApplyFails
     \/ Closed \/ CheckProxy \/ SkipRestore \/ RestoreFails \/ Restored

Next == Launch \/ Crash \/ UserChange \/ Start \/ Quit \/ Signal \/ Step

Spec == Init /\ [][Next]_vars

(* The threads of a running process keep running; commands, signals,       *)
(* crashes and launches need not happen.                                   *)
FairSpec == Spec /\ WF_vars(Step)

-----------------------------------------------------------------------------
(* Properties                                                              *)

\* The user's settings are in force or the journal on disk has them.
OriginalNeverLost == settings = user \/ journal = snapshotOf(desktop, user)

\* What Restore can put back: of GNOME's hosts none, and of its ports only 0
\* (splitEndpoint).
Restorable ==
  desktop = "gnome" => /\ user.httpHost = "" /\ user.httpPort = "0"
                       /\ user.httpsHost = "" /\ user.httpsPort = "0"

\* GNOME's Matches wants no autoconfig URL, and Apply does not clear the user's:
\* with one, Shutdown takes the client's own settings for somebody else's.
Recognised == desktop = "gnome" => user.autoconf = ""

\* However clients are killed at any step, among them Apply, Restore and the
\* recovery of an earlier journal, are signalled, return an error from Restore
\* and are started again: while the user leaves the settings alone, they are in
\* force or the journal has them, unless Apply failed, the error of a write was
\* ignored or a process without a provider had a part in a recovery.
JournalHasOriginal ==
  (changes = 0 /\ mishaps \subseteq {"restore failed"} /\ Restorable) => OriginalNeverLost

\* A client that connected and ends on "quit" or the end of its input, no signal
\* having come, leaves the user's settings behind, not the address of a listener
\* that is gone, where Matches recognises what Apply wrote.
GracefulExitRestores ==
  (main = "exited" /\ started /\ ~Signalled /\ changes = 0 /\ mishaps = {}
     /\ Restorable /\ Recognised) => settings = user

\* Shutdown never starts to restore while the settings are the user's own choice,
\* made after Apply or while it ran: what the user changed is not overwritten.
RestoreStarts ==
  \/ main # "restoring" /\ main' = "restoring"
  \/ sig # "restoring" /\ sig' = "restoring"
UserChangeKept == [][RestoreStarts => settings # user]_vars

\* A thread that shuts down a client which has taken over the settings, and
\* finds them as the client set them, gives them back, unless the process ends,
\* Restore fails or the user steps in.
ShutdownRestores ==
  ("draining" \in {main, sig} /\ restoring)
    ~> (~hasJournal \/ ~Runs \/ "restore failed" \in mishaps \/ ~restoring)
=============================================================================
