----------------------------- MODULE ShellProofs -----------------------------
(***************************************************************************)
(* The safety properties of Shell hold for any set of sessions, and an     *)
(* exit reaches the Logout of main or hangs in the one way Hung says.      *)
(*                                                                         *)
(* No safety property is inductive.  IInv adds what the program counters   *)
(* say of the rest of the state: the shell goroutine exists exactly        *)
(* between StartShell and ExitClose and accounts for the wait group; main  *)
(* is past the wait only when that goroutine is over; the vim client is    *)
(* bare exactly before a login; and after the first half of Logout the     *)
(* only sessions open are those the server refused to close.               *)
(***************************************************************************)
EXTENDS Shell, TLAPS

BeforeShell == {"start", "login", "showApi", "checkTime", "notify"}

\* wgBackground counts the shell goroutine and the download it may be in.
WgAccount ==
  wg = (IF shellPc \in {"off", "done"} THEN 0 ELSE IF shellPc = "download" THEN 2 ELSE 1)

\* The shell goroutine starts when main begins to wait for a signal, and
\* main is past the wait group only when it is over.
Phases ==
  /\ shellPc = "off" <=> mainPc \in BeforeShell
  /\ mainPc \in {"sleep", "logoutVim", "logoutSso", "returned"} => shellPc = "done"
  /\ sigClosed <=> shellPc = "done"

\* Where the two goroutines were when the process ended.
Endings ==
  /\ status = "exited" => mainPc = "returned"
  /\ status = "killed" => shellPc = "off"
  /\ status = "fatal" =>
       mainPc \in {"login", "checkTime"} \/ shellPc \in {"prompt", "reCheck", "reLogin"}
  /\ status = "panic" => (shellPc = "work" /\ cmd = "basic_info") \/ shellPc = "done"

\* What the vim client is, by the place the program is in.
ClientFilled ==
  /\ mainPc \in {"start", "login"} => live = {}
  /\ mainPc = "login" \/ shellPc = "reLogin" => soap = Bare
  /\ mainPc \notin {"start", "login"} /\ shellPc # "reLogin" => soap \in Session

\* After the vim half of Logout, the sessions still open were refused; if
\* the error has not been overwritten either, the client's own is closed.
LoggedOut ==
  /\ shellPc \in {"reLogoutSso", "reCheck", "reNew"} => live \subseteq refused
  /\ mainPc \in {"logoutSso", "returned"} => live \subseteq refused
  /\ shellPc = "reLogoutSso" /\ logoutErr = FALSE => soap \notin live
  /\ (shellPc = "reCheck" /\ logoutErr = FALSE) \/ shellPc = "reNew" =>
       IF sso = NilPtr THEN soap \notin live ELSE sso \notin ssoLive

IInv ==
  /\ TypeOK
  /\ WgAccount
  /\ Phases
  /\ Endings
  /\ ClientFilled
  /\ LoggedOut
  /\ OnlyRefusedSessionsLeak

-----------------------------------------------------------------------------

LEMMA InitIInv == Init => IInv
<1> SUFFICES ASSUME Init
             PROVE  IInv
    OBVIOUS
<1> USE PointersAssumption DEF Init, ClientInit
<1>1. TypeOK
  <2>1. /\ loggedIn \in BOOLEAN /\ postInit \in BOOLEAN /\ serverIsVC \in BOOLEAN
        /\ logoutErr \in BOOLEAN /\ sigClosed \in BOOLEAN
    BY Zenon
  <2>2. ClientTypeOK
    BY <2>1 DEF ClientTypeOK
  <2>3. wg \in 0..2 /\ sigBuf \in {0, 1}
    BY SMT
  <2>4. QED
    BY <2>1, <2>2, <2>3, Zenon DEF TypeOK
<1>2. WgAccount /\ Phases /\ Endings
  BY DEF WgAccount, Phases, Endings, BeforeShell
<1>3. ClientFilled
  BY DEF ClientFilled
<1>4. LoggedOut /\ OnlyRefusedSessionsLeak
  BY DEF LoggedOut, OnlyRefusedSessionsLeak
<1> QED
  BY <1>1, <1>2, <1>3, <1>4 DEF IInv

LEMMA MainKeepsIInv == IInv /\ MainStep => IInv'
<1> SUFFICES ASSUME IInv, MainStep
             PROVE  IInv'
    OBVIOUS
<1> USE PointersAssumption
    DEF IInv, TypeOK, ClientTypeOK, WgAccount, Phases, Endings, BeforeShell, ClientFilled, LoggedOut,
        OnlyRefusedSessionsLeak, Running, MainGo, clientVars, flagVars, serverVars, chanVars
<1>1. CASE Startup           BY <1>1 DEF Startup, NewClient
<1>2. CASE StartupLogin      BY <1>2 DEF StartupLogin, LoginSucceeds
<1>3. CASE StartupShowAPI    BY <1>3 DEF StartupShowAPI, ShowAPIVersion
<1>4. CASE StartupTimeInSync BY <1>4 DEF StartupTimeInSync
<1>5. CASE StartupFails      BY <1>5 DEF StartupFails
<1>6. CASE StartShell        BY <1>6 DEF StartShell
<1>7. CASE ReceiveSignal     BY <1>7 DEF ReceiveSignal
<1>8. CASE WaitBackground    BY <1>8 DEF WaitBackground
<1>9. CASE SleepThenReturn   BY <1>9 DEF SleepThenReturn
<1>10. CASE DeferredLogoutVim BY <1>10 DEF DeferredLogoutVim, LogoutVim
<1>11. CASE DeferredLogoutSso BY <1>11 DEF DeferredLogoutSso, LogoutSso
<1> QED BY <1>1, <1>2, <1>3, <1>4, <1>5, <1>6, <1>7, <1>8, <1>9, <1>10, <1>11 DEF MainStep

LEMMA ShellKeepsIInv == IInv /\ ShellStep => IInv'
<1> SUFFICES ASSUME IInv, ShellStep
             PROVE  IInv'
    OBVIOUS
<1> USE PointersAssumption
    DEF IInv, TypeOK, ClientTypeOK, WgAccount, Phases, Endings, BeforeShell, ClientFilled, LoggedOut,
        OnlyRefusedSessionsLeak, Running, ShellGo, EndCommand,
        clientVars, flagVars, serverVars, chanVars
<1>1. CASE PromptInterrupted   BY <1>1 DEF PromptInterrupted
<1>2. CASE ExitCommand         BY <1>2 DEF ExitCommand
<1>3. CASE ExitSend            BY <1>3 DEF ExitSend
<1>4. CASE ExitClose           BY <1>4 DEF ExitClose
<1>5. CASE ReconnectCommand    BY <1>5 DEF ReconnectCommand
<1>6. CASE ReconnectLogoutVim
  <2>1. TypeOK'
    BY <1>6 DEF ReconnectLogoutVim, LogoutVim
  <2>2. WgAccount' /\ Phases' /\ Endings' /\ ClientFilled' /\ OnlyRefusedSessionsLeak'
    BY <1>6 DEF ReconnectLogoutVim, LogoutVim
  <2>3. LoggedOut'
    BY <1>6 DEF ReconnectLogoutVim, LogoutVim
  <2>4. QED
    BY <2>1, <2>2, <2>3
<1>7. CASE ReconnectLogoutSso
  <2>1. TypeOK'
    <3>1. logoutErr' \in BOOLEAN
      BY <1>7, Zenon DEF ReconnectLogoutSso, LogoutSso
    <3>2. ssoLive' \subseteq Session
      BY <1>7 DEF ReconnectLogoutSso, LogoutSso
    <3>3. QED
      BY <1>7, <3>1, <3>2 DEF ReconnectLogoutSso, LogoutSso
  <2>2. WgAccount' /\ Phases' /\ Endings' /\ ClientFilled' /\ OnlyRefusedSessionsLeak'
    BY <1>7 DEF ReconnectLogoutSso, LogoutSso
  <2>3. LoggedOut'
    BY <1>7 DEF ReconnectLogoutSso, LogoutSso
  <2>4. QED
    BY <2>1, <2>2, <2>3
<1>8. CASE ReconnectCheck      BY <1>8 DEF ReconnectCheck
<1>9. CASE ReconnectNewClient  BY <1>9 DEF ReconnectNewClient, NewClient
<1>10. CASE ReconnectLogin     BY <1>10 DEF ReconnectLogin, LoginSucceeds
<1>11. CASE ReconnectLoginFails BY <1>11 DEF ReconnectLoginFails
<1>12. CASE StartCommand       BY <1>12 DEF StartCommand
<1>13. CASE ListSucceeds       BY <1>13 DEF ListSucceeds
<1>14. CASE ListFails          BY <1>14 DEF ListFails
<1>15. CASE UserAnswers        BY <1>15 DEF UserAnswers
<1>16. CASE AskInterrupted     BY <1>16 DEF AskInterrupted
<1>17. CASE SsoLogin           BY <1>17 DEF SsoLogin, Login2SSOMgmt
<1>18. CASE WorkEnds           BY <1>18 DEF WorkEnds
<1>19. CASE WorkPanics         BY <1>19 DEF WorkPanics
<1>20. CASE StartDownload      BY <1>20 DEF StartDownload
<1>21. CASE DownloadEnds       BY <1>21 DEF DownloadEnds
<1> QED BY <1>1, <1>2, <1>3, <1>4, <1>5, <1>6, <1>7, <1>8, <1>9, <1>10, <1>11, <1>12, <1>13,
           <1>14, <1>15, <1>16, <1>17, <1>18, <1>19, <1>20, <1>21 DEF ShellStep

\* Neither a signal nor the expiry of a session opens one.
LEMMA EnvironmentKeepsIInv == IInv /\ Environment => IInv'
<1> SUFFICES ASSUME IInv, Environment
             PROVE  IInv'
    OBVIOUS
<1> USE DEF IInv, TypeOK, ClientTypeOK, WgAccount, Phases, Endings, BeforeShell, ClientFilled, LoggedOut,
            OnlyRefusedSessionsLeak, Running, clientVars, flagVars, serverVars, chanVars
<1>1. CASE SigIntBeforeNotify BY <1>1 DEF SigIntBeforeNotify
<1>2. CASE SigIntQueued       BY <1>2 DEF SigIntQueued
<1>3. CASE SigIntOnClosed     BY <1>3 DEF SigIntOnClosed
<1>4. CASE SessionExpires     BY <1>4 DEF SessionExpires, Expire
<1> QED BY <1>1, <1>2, <1>3, <1>4 DEF Environment

LEMMA StutterKeepsIInv == IInv /\ UNCHANGED vars => IInv'
  BY DEF vars, IInv, TypeOK, ClientTypeOK, WgAccount, Phases, Endings, BeforeShell, ClientFilled, LoggedOut,
         OnlyRefusedSessionsLeak, clientVars, flagVars, serverVars, chanVars

\* Cited through INSTANCE by the modules that implement Shell from another
\* initial state than Init.
LEMMA NextKeepsIInv == IInv /\ [Next]_vars => IInv'
  BY MainKeepsIInv, ShellKeepsIInv, EnvironmentKeepsIInv, StutterKeepsIInv DEF Next, Terminated

LEMMA IInvSuffices ==
  IInv => NoBareAccess /\ OnlyRefusedSessionsLeak /\ ReconnectDropsSession
  BY DEF IInv, TypeOK, Phases, BeforeShell, ClientFilled, NoBareAccess, CallsThroughVim,
         LoggedOut, ReconnectDropsSession

\* The strengthened invariant of the program: it holds in every state the
\* main and shell goroutines, signals and session expiry can reach.
THEOREM Invariance == Spec => []IInv
  BY InitIInv, NextKeepsIInv, PTL DEF Spec

-----------------------------------------------------------------------------

\* Every variable keeps its type, for any number of reconnects: the counter
\* of the wait group never goes below 0 (which would panic) or above 2.
THEOREM TypeCorrect == Spec => []TypeOK
<1>1. IInv => TypeOK
  BY DEF IInv
<1> QED BY Invariance, <1>1, PTL

\* No goroutine calls the server through the bare client that NewClient
\* leaves until the login (client.go:98-102).
THEOREM BareNeverUsed == Spec => []NoBareAccess
  BY Invariance, IInvSuffices, PTL

\* try_reconnect and the way out never forget an open vim session that the
\* server was willing to close.
THEOREM SessionsAccountedFor == Spec => []OnlyRefusedSessionsLeak
  BY Invariance, IInvSuffices, PTL

\* A vim session outlives the process only for one of the causes listed: a
\* return of main, and a log.Fatalln in a reconnect or at the first login,
\* leave none that the server was willing to close (main.go:165, client.go:197).
THEOREM SessionsOutliveByCause == Spec => []OpenSessionHasCause
<1>1. IInv => OpenSessionHasCause
  <2> SUFFICES ASSUME IInv, ~Running, ~(live \subseteq refused)
               PROVE  OpenSessionHasCause
      BY DEF OpenSessionHasCause
  <2>1. mainPc \notin {"login", "logoutSso", "returned"} /\ shellPc # "reCheck"
    BY DEF IInv, ClientFilled, LoggedOut
  <2>2. shellPc # "reLogin"
    BY PointersAssumption
    DEF IInv, TypeOK, ClientTypeOK, ClientFilled, OnlyRefusedSessionsLeak
  <2>3. status \in {"exited", "fatal", "panic", "killed"}
    BY DEF IInv, TypeOK, Running
  <2> QED BY <2>1, <2>2, <2>3 DEF IInv, Endings, OpenSessionHasCause
<1> QED BY Invariance, <1>1, PTL

\* The deferred Logout of main never runs beside a command of the shell.
THEOREM LogoutRunsAlone == Spec => []WayOutIsAlone
<1>1. IInv => WayOutIsAlone
  BY DEF IInv, WgAccount, Phases, WayOutIsAlone
<1> QED BY Invariance, <1>1, PTL

\* try_reconnect builds a new client on a session still open only after an SSO
\* logout that succeeded and so hid that the vim logout was refused
\* (try_reconn.go:10-15, client.go:205).
THEOREM ReconnectIsClean == Spec => []ReconnectDropsSession
  BY Invariance, IInvSuffices, PTL

-----------------------------------------------------------------------------
(* The way out: where the exit command leads, and the one place it does    *)
(* not.  Leaving says where the two goroutines are once exit was entered.  *)

Leaving ==
  /\ Running
  /\ shellPc \in {"exitSend", "exitClose", "done"}
  /\ mainPc \in {"recv", "wait", "sleep"}

SendWhileReceiving == Leaving /\ shellPc = "exitSend" /\ mainPc = "recv" /\ sigBuf = 0
SendBehindSignal   == Leaving /\ shellPc = "exitSend" /\ mainPc = "recv" /\ sigBuf = 1
SendWhileWaiting   == Leaving /\ shellPc = "exitSend" /\ mainPc = "wait" /\ sigBuf = 0
Closing            == Leaving /\ shellPc = "exitClose"
DoneReceiving      == Leaving /\ shellPc = "done" /\ mainPc = "recv"
DoneWaiting        == Leaving /\ shellPc = "done" /\ mainPc = "wait"
Sleeping           == Leaving /\ mainPc = "sleep"

Out == mainPc = "logoutVim" \/ status # "running"

LEMMA ExitIsLeaving ==
  ASSUME IInv, shellPc \in {"exitSend", "exitClose"}
  PROVE  (Leaving /\ mainPc # "sleep") \/ status # "running"
  BY DEF IInv, TypeOK, Phases, BeforeShell, Leaving, Running

\* While the process leaves, only the steps of the way out and signals move
\* it: commands, reconnects and start-up are over.
LEMMA LeavingSteps ==
  ASSUME IInv, Leaving, [Next]_vars
  PROVE  \/ UNCHANGED <<mainPc, shellPc, sigBuf, sigClosed, wg, status>>
         \/ status' # "running"
         \/ SigIntQueued
         \/ ReceiveSignal \/ WaitBackground \/ SleepThenReturn
         \/ ExitSend \/ ExitClose
<1> USE DEF Leaving, Running, MainGo, ShellGo, EndCommand, chanVars
<1>1. CASE MainStep
  BY <1>1 DEF MainStep, Startup, StartupLogin, StartupShowAPI, StartupTimeInSync, StartupFails,
              StartShell, DeferredLogoutVim, DeferredLogoutSso
<1>2. CASE ShellStep
  BY <1>2 DEF ShellStep, PromptInterrupted, ExitCommand, ReconnectCommand, ReconnectLogoutVim,
              ReconnectLogoutSso, ReconnectCheck, ReconnectNewClient, ReconnectLogin,
              ReconnectLoginFails, StartCommand, ListSucceeds, ListFails, UserAnswers,
              AskInterrupted, SsoLogin, WorkEnds, WorkPanics, StartDownload, DownloadEnds
<1>3. CASE Environment
  BY <1>3 DEF Environment, SigIntBeforeNotify, SigIntOnClosed, SessionExpires
<1>4. CASE Terminated \/ UNCHANGED vars
  BY <1>4 DEF Terminated, vars
<1> QED BY <1>1, <1>2, <1>3, <1>4 DEF Next

\* Each state of the way out stays as it is or goes on to the next one.
LEMMA LeavingGoesOn ==
  ASSUME IInv, [Next]_vars
  PROVE  /\ SendWhileReceiving =>
              (SendWhileReceiving \/ SendBehindSignal \/ SendWhileWaiting \/ Closing \/ Out)'
         /\ SendBehindSignal => (SendBehindSignal \/ SendWhileWaiting \/ Out)'
         /\ SendWhileWaiting => (SendWhileWaiting \/ Closing \/ Hung \/ Out)'
         /\ Closing => (Closing \/ DoneReceiving \/ DoneWaiting \/ Out)'
         /\ DoneReceiving => (DoneReceiving \/ DoneWaiting \/ Out)'
         /\ DoneWaiting => (DoneWaiting \/ Sleeping \/ Out)'
         /\ Sleeping => (Sleeping \/ Out)'
<1> SUFFICES ASSUME Leaving PROVE
         /\ SendWhileReceiving =>
              (SendWhileReceiving \/ SendBehindSignal \/ SendWhileWaiting \/ Closing \/ Out)'
         /\ SendBehindSignal => (SendBehindSignal \/ SendWhileWaiting \/ Out)'
         /\ SendWhileWaiting => (SendWhileWaiting \/ Closing \/ Hung \/ Out)'
         /\ Closing => (Closing \/ DoneReceiving \/ DoneWaiting \/ Out)'
         /\ DoneReceiving => (DoneReceiving \/ DoneWaiting \/ Out)'
         /\ DoneWaiting => (DoneWaiting \/ Sleeping \/ Out)'
         /\ Sleeping => (Sleeping \/ Out)'
    BY DEF SendWhileReceiving, SendBehindSignal, SendWhileWaiting, Closing, DoneReceiving,
           DoneWaiting, Sleeping
<1> USE DEF SendWhileReceiving, SendBehindSignal, SendWhileWaiting, Closing, DoneReceiving,
            DoneWaiting, Sleeping, Hung, Out, Leaving, Running, MainGo, ShellGo,
            IInv, Phases, WgAccount
<1>1. CASE UNCHANGED <<mainPc, shellPc, sigBuf, sigClosed, wg, status>>  BY <1>1
<1>2. CASE status' # "running"  BY <1>2
<1>3. CASE SigIntQueued         BY <1>3 DEF SigIntQueued
<1>4. CASE ReceiveSignal        BY <1>4 DEF ReceiveSignal
<1>5. CASE WaitBackground       BY <1>5 DEF WaitBackground
<1>6. CASE SleepThenReturn      BY <1>6 DEF SleepThenReturn
<1>7. CASE ExitSend             BY <1>7 DEF ExitSend
<1>8. CASE ExitClose            BY <1>8 DEF ExitClose
<1> QED BY <1>1, <1>2, <1>3, <1>4, <1>5, <1>6, <1>7, <1>8, LeavingSteps

\* The fair step of each of these states leads out of it.
LEMMA FairStepLeads ==
  ASSUME IInv
  PROVE  /\ SendWhileReceiving /\ <<ExitSend>>_vars => Closing'
         /\ SendBehindSignal /\ <<ReceiveSignal>>_vars => SendWhileWaiting'
         /\ SendWhileWaiting /\ <<ExitSend>>_vars => Closing'
         /\ Closing /\ <<ExitClose>>_vars => (DoneReceiving \/ DoneWaiting)'
         /\ DoneReceiving /\ <<ReceiveSignal>>_vars => DoneWaiting'
         /\ DoneWaiting /\ <<WaitBackground>>_vars => Sleeping'
         /\ Sleeping /\ <<SleepThenReturn>>_vars => Out'
<1> USE DEF SendWhileReceiving, SendBehindSignal, SendWhileWaiting, Closing, DoneReceiving,
            DoneWaiting, Sleeping, Out, Leaving, Running, MainGo, ShellGo, IInv, Phases
<1>1. ASSUME ExitSend
      PROVE  (SendWhileReceiving => Closing') /\ (SendWhileWaiting => Closing')
  BY <1>1 DEF ExitSend
<1>2. ASSUME ReceiveSignal
      PROVE  (SendBehindSignal => SendWhileWaiting') /\ (DoneReceiving => DoneWaiting')
  BY <1>2 DEF ReceiveSignal
<1>3. ASSUME ExitClose
      PROVE  Closing => (DoneReceiving \/ DoneWaiting)'
  BY <1>3 DEF ExitClose
<1>4. ASSUME WaitBackground
      PROVE  DoneWaiting => Sleeping'
  BY <1>4 DEF WaitBackground
<1>5. ASSUME SleepThenReturn
      PROVE  Sleeping => Out'
  BY <1>5 DEF SleepThenReturn
<1> QED BY <1>1, <1>2, <1>3, <1>4, <1>5

\* What each statement of the way out waits for.
CanReceive == Running /\ mainPc = "recv" /\ (sigBuf = 1 \/ sigClosed)
CanPass    == Running /\ mainPc = "wait" /\ wg = 0
CanReturn  == Running /\ mainPc = "sleep"
CanSend    == Running /\ shellPc = "exitSend" /\ sigBuf = 0
CanClose   == Running /\ shellPc = "exitClose"

\* Both goroutines run: none stays for good where its statement can go on.  That
\* is the weak fairness of FairSpec, with the guard of each step in the place of
\* ENABLED.
Scheduled ==
  /\ []<>~CanReceive \/ []<><<ReceiveSignal>>_vars
  /\ []<>~CanPass \/ []<><<WaitBackground>>_vars
  /\ []<>~CanReturn \/ []<><<SleepThenReturn>>_vars
  /\ []<>~CanSend \/ []<><<ExitSend>>_vars
  /\ []<>~CanClose \/ []<><<ExitClose>>_vars

\* In each phase the goroutine whose turn it is can go on.
LEMMA NextCanGo ==
  ASSUME IInv
  PROVE  /\ SendWhileReceiving => CanSend
         /\ SendBehindSignal => CanReceive
         /\ SendWhileWaiting => CanSend
         /\ Closing => CanClose
         /\ DoneReceiving => CanReceive
         /\ DoneWaiting => CanPass
         /\ Sleeping => CanReturn
  BY DEF SendWhileReceiving, SendBehindSignal, SendWhileWaiting, Closing, DoneReceiving,
         DoneWaiting, Sleeping, Leaving, IInv, Phases, WgAccount, CanSend, CanReceive, CanClose,
         CanPass, CanReturn

LEMMA OutIsOut == Out <=> mainPc = "logoutVim" \/ status # "running"
  BY DEF Out

LEMMA ClosingIsExitClose ==
  ASSUME IInv
  PROVE  /\ Closing => shellPc = "exitClose"
         /\ shellPc = "exitClose" => Closing \/ Out
  BY ExitIsLeaving DEF Closing, Out

\* Once the exit command has got its signal into the channel, main gets to
\* its deferred Logout, however many interrupts were queued before.
ExitReachesLogout ==
  shellPc = "exitClose" ~> (mainPc = "logoutVim" \/ status # "running")

\* Once its signal is in the channel, the exit command brings main to its
\* deferred Logout, for any number of sessions and signals.
THEOREM ExitLogsOut == Spec /\ Scheduled => ExitReachesLogout
<1>1. IInv => /\ Closing => CanClose
              /\ DoneReceiving => CanReceive
              /\ DoneWaiting => CanPass
              /\ Sleeping => CanReturn
  BY NextCanGo
<1>2. IInv /\ [Next]_vars =>
        /\ Closing => (Closing \/ DoneReceiving \/ DoneWaiting \/ Out)'
        /\ DoneReceiving => (DoneReceiving \/ DoneWaiting \/ Out)'
        /\ DoneWaiting => (DoneWaiting \/ Sleeping \/ Out)'
        /\ Sleeping => (Sleeping \/ Out)'
  BY LeavingGoesOn
<1>3. IInv =>
        /\ Closing /\ <<ExitClose>>_vars => (DoneReceiving \/ DoneWaiting)'
        /\ DoneReceiving /\ <<ReceiveSignal>>_vars => DoneWaiting'
        /\ DoneWaiting /\ <<WaitBackground>>_vars => Sleeping'
        /\ Sleeping /\ <<SleepThenReturn>>_vars => Out'
  BY FairStepLeads
<1>4. Spec /\ Scheduled => (Sleeping ~> Out)
  BY Invariance, <1>1, <1>2, <1>3, PTL DEF Spec, Scheduled
<1>5. Spec /\ Scheduled => (DoneWaiting ~> Sleeping \/ Out)
  BY Invariance, <1>1, <1>2, <1>3, PTL DEF Spec, Scheduled
<1>6. Spec /\ Scheduled => (DoneReceiving ~> DoneWaiting \/ Out)
  BY Invariance, <1>1, <1>2, <1>3, PTL DEF Spec, Scheduled
<1>7. Spec /\ Scheduled => (Closing ~> DoneReceiving \/ DoneWaiting \/ Out)
  BY Invariance, <1>1, <1>2, <1>3, PTL DEF Spec, Scheduled
<1>8. Spec => [](shellPc = "exitClose" => Closing \/ Out)
  BY Invariance, ClosingIsExitClose, PTL
<1>9. Spec /\ Scheduled => (shellPc = "exitClose" ~> Out)
  BY <1>4, <1>5, <1>6, <1>7, <1>8, PTL
<1> QED BY <1>9, OutIsOut, PTL DEF ExitReachesLogout

\* The exit command brings main to its deferred Logout from its first step on,
\* unless its send finds the channel full behind main's receive.
THEOREM ExitLeadsOut == Spec /\ Scheduled => ExitEndsOrHangs
<1>1. IInv => /\ SendWhileReceiving => CanSend
              /\ SendBehindSignal => CanReceive
              /\ SendWhileWaiting => CanSend
  BY NextCanGo
<1>2. IInv /\ [Next]_vars =>
        /\ SendWhileReceiving =>
             (SendWhileReceiving \/ SendBehindSignal \/ SendWhileWaiting \/ Closing \/ Out)'
        /\ SendBehindSignal => (SendBehindSignal \/ SendWhileWaiting \/ Out)'
        /\ SendWhileWaiting => (SendWhileWaiting \/ Closing \/ Hung \/ Out)'
  BY LeavingGoesOn
<1>3. IInv =>
        /\ SendWhileReceiving /\ <<ExitSend>>_vars => Closing'
        /\ SendBehindSignal /\ <<ReceiveSignal>>_vars => SendWhileWaiting'
        /\ SendWhileWaiting /\ <<ExitSend>>_vars => Closing'
  BY FairStepLeads
<1>4. Spec /\ Scheduled => (SendWhileWaiting ~> Closing \/ Hung \/ Out)
  BY Invariance, <1>1, <1>2, <1>3, PTL DEF Spec, Scheduled
<1>5. Spec /\ Scheduled => (SendBehindSignal ~> SendWhileWaiting \/ Out)
  BY Invariance, <1>1, <1>2, <1>3, PTL DEF Spec, Scheduled
<1>6. Spec /\ Scheduled =>
        (SendWhileReceiving ~> SendBehindSignal \/ SendWhileWaiting \/ Closing \/ Out)
  BY Invariance, <1>1, <1>2, <1>3, PTL DEF Spec, Scheduled
<1>7. IInv /\ shellPc = "exitSend" =>
        SendWhileReceiving \/ SendBehindSignal \/ SendWhileWaiting \/ Hung \/ Out
  BY ExitIsLeaving DEF IInv, TypeOK, SendWhileReceiving, SendBehindSignal, SendWhileWaiting,
     Hung, Out, Leaving
<1>8. Spec /\ Scheduled => (shellPc = "exitSend" ~> Closing \/ Hung \/ Out)
  BY Invariance, <1>4, <1>5, <1>6, <1>7, PTL
<1>9. Spec => [](Closing => shellPc = "exitClose")
  BY Invariance, ClosingIsExitClose, PTL
<1>10. Spec /\ Scheduled => (Closing ~> Out)
  BY ExitLogsOut, <1>9, OutIsOut, PTL DEF ExitReachesLogout
<1> QED BY <1>8, <1>10, OutIsOut, PTL DEF ExitEndsOrHangs

\* No step of the program, and no further signal, gets it out of there: only
\* killing the process does, which leaves the session open.
HungForEver == [][Hung => Hung']_vars

\* A process whose exit command hangs hangs for good: neither another signal
\* nor the server gets it out (main.go:199).
THEOREM HangIsFinal == Spec => HungForEver
<1>1. IInv /\ [Next]_vars => [Hung => Hung']_vars
  <2> SUFFICES ASSUME IInv, Next, Hung
               PROVE  Hung'
      OBVIOUS
  <2> USE DEF Hung, Running, IInv, Phases, WgAccount, chanVars
  <2>1. CASE Environment
    BY <2>1 DEF Environment, SigIntBeforeNotify, SigIntQueued, SigIntOnClosed, SessionExpires
  <2>2. CASE MainStep
    BY <2>2 DEF MainStep, MainGo, Startup, StartupLogin, StartupShowAPI, StartupTimeInSync,
                StartupFails, StartShell, ReceiveSignal, WaitBackground, SleepThenReturn,
                DeferredLogoutVim, DeferredLogoutSso
  <2>3. CASE ShellStep
    BY <2>3 DEF ShellStep, ShellGo, EndCommand, PromptInterrupted, ExitCommand, ExitSend, ExitClose,
                ReconnectCommand, ReconnectLogoutVim, ReconnectLogoutSso, ReconnectCheck,
                ReconnectNewClient, ReconnectLogin, ReconnectLoginFails, StartCommand, ListSucceeds,
                ListFails, UserAnswers, AskInterrupted, SsoLogin, WorkEnds, WorkPanics,
                StartDownload, DownloadEnds
  <2> QED BY <2>1, <2>2, <2>3 DEF Next, Terminated
<1> QED BY Invariance, <1>1, PTL DEF Spec, HungForEver

=============================================================================
