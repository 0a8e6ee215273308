-------------------------------- MODULE Shell --------------------------------
(***************************************************************************)
(* The process: cmd/main.go with the commands of pkg/subcmds seen as       *)
(* sequences of client operations.  Two goroutines run.  The main one sets *)
(* up the client, starts the shell, waits for a signal and then for the    *)
(* wait group, and logs out in its deferred calls.  The shell one reads    *)
(* commands until `exit', which sends a signal and closes the channel.     *)
(* The runtime delivers SIGINT to the same channel (signal.Notify).        *)
(*                                                                         *)
(* A status other than "running" is the end of the process: "exited" when  *)
(* main returned, "fatal" when log.Fatalln called os.Exit (which skips the *)
(* deferred calls), "panic", or "killed" by a SIGINT nobody asked for.     *)
(***************************************************************************)
EXTENDS VSphereClient, Naturals

VARIABLES
  mainPc,     \* where the main goroutine is
  shellPc,    \* where the shell goroutine is
  cmd,        \* the data command the shell is in, or "none"
  sigBuf,     \* signals waiting in sigChan, whose capacity is 1
  sigClosed,  \* sigChan has been closed
  wg,         \* wgBackground
  status      \* how the process ended, or "running"

chanVars == <<sigBuf, sigClosed>>
vars == <<clientVars, mainPc, shellPc, cmd, chanVars, wg, status>>

Command == {"vi_events", "support_bundle", "basic_info"}

TypeOK ==
  /\ ClientTypeOK
  /\ mainPc \in {"start", "login", "showApi", "checkTime", "notify", "recv",
                 "wait", "sleep", "logoutVim", "logoutSso", "returned"}
  /\ shellPc \in {"off", "prompt", "exitSend", "exitClose", "done", "reLogoutVim",
                  "reLogoutSso", "reCheck", "reNew", "reLogin", "list", "ask",
                  "sso", "work", "download"}
  /\ cmd \in Command \cup {"none"}
  /\ sigBuf \in {0, 1}
  /\ sigClosed \in BOOLEAN
  /\ wg \in 0..2
  /\ status \in {"running", "exited", "fatal", "panic", "killed"}

Init ==
  /\ ClientInit
  /\ mainPc = "start"
  /\ shellPc = "off"
  /\ cmd = "none"
  /\ sigBuf = 0
  /\ sigClosed = FALSE
  /\ wg = 0
  /\ status = "running"

-----------------------------------------------------------------------------
(* The main goroutine: start-up, then the way out.                         *)

Running == status = "running"

MainGo(from, to) == Running /\ mainPc = from /\ mainPc' = to

Startup ==
  /\ MainGo("start", "login")
  /\ NewClient
  /\ UNCHANGED <<shellPc, cmd, chanVars, wg, status>>

StartupLogin ==
  /\ MainGo("login", "showApi")
  /\ LoginSucceeds
  /\ UNCHANGED <<shellPc, cmd, chanVars, wg, status>>

StartupShowAPI ==
  /\ MainGo("showApi", "checkTime")
  /\ ShowAPIVersion
  /\ UNCHANGED <<shellPc, cmd, chanVars, wg, status>>

StartupTimeInSync ==
  /\ MainGo("checkTime", "notify")
  /\ soap \in live
  /\ UNCHANGED <<clientVars, shellPc, cmd, chanVars, wg, status>>

\* Login refused, or no answer to the time query, or the clocks differ.
StartupFails ==
  /\ Running
  /\ mainPc \in {"login", "checkTime"}
  /\ status' = "fatal"
  /\ UNCHANGED <<clientVars, mainPc, shellPc, cmd, chanVars, wg>>

\* signal.Notify, wgBackground.Add(1), go func() {...}().
StartShell ==
  /\ MainGo("notify", "recv")
  /\ shellPc' = "prompt"
  /\ wg' = 1
  /\ UNCHANGED <<clientVars, cmd, chanVars, status>>

\* <-sigChan, which a closed channel also satisfies.
ReceiveSignal ==
  /\ MainGo("recv", "wait")
  /\ sigBuf = 1 \/ sigClosed
  /\ sigBuf' = 0
  /\ UNCHANGED <<clientVars, shellPc, cmd, sigClosed, wg, status>>

WaitBackground ==
  /\ MainGo("wait", "sleep")
  /\ wg = 0
  /\ UNCHANGED <<clientVars, shellPc, cmd, chanVars, wg, status>>

\* The faulty program that does not defer Logout.
SleepThenReturnOnly ==
  /\ MainGo("sleep", "returned")
  /\ status' = "exited"
  /\ UNCHANGED <<clientVars, shellPc, cmd, chanVars, wg>>

SleepThenReturn ==
  /\ MainGo("sleep", "logoutVim")
  /\ UNCHANGED <<clientVars, shellPc, cmd, chanVars, wg, status>>

DeferredLogoutVim ==
  /\ MainGo("logoutVim", "logoutSso")
  /\ LogoutVim
  /\ UNCHANGED <<shellPc, cmd, chanVars, wg, status>>

\* The error of Logout is dropped; then the log is closed and main is over.
DeferredLogoutSso ==
  /\ MainGo("logoutSso", "returned")
  /\ LogoutSso
  /\ status' = "exited"
  /\ UNCHANGED <<shellPc, cmd, chanVars, wg>>

-----------------------------------------------------------------------------
(* SIGINT, from the terminal or from another process.                      *)

SigIntBeforeNotify ==
  /\ Running
  /\ mainPc \in {"start", "login", "showApi", "checkTime", "notify"}
  /\ status' = "killed"
  /\ UNCHANGED <<clientVars, mainPc, shellPc, cmd, chanVars, wg>>

\* The runtime's send does not block: a full channel loses the signal.
SigIntQueued ==
  /\ Running
  /\ shellPc # "off"
  /\ ~sigClosed
  /\ sigBuf' = 1
  /\ UNCHANGED <<clientVars, mainPc, shellPc, cmd, sigClosed, wg, status>>

\* A send on a closed channel panics, in the runtime's signal goroutine too.
SigIntOnClosed ==
  /\ Running
  /\ sigClosed
  /\ status' = "panic"
  /\ UNCHANGED <<clientVars, mainPc, shellPc, cmd, chanVars, wg>>

-----------------------------------------------------------------------------
(* The shell goroutine: prompt and exit.  `full_help' and unknown commands *)
(* change nothing and come back to the prompt.                             *)

ShellGo(from, to) == Running /\ shellPc = from /\ shellPc' = to

\* The prompt puts the terminal in raw mode: Ctrl-C there is no signal but
\* an error of survey.AskOne, and log.Fatalln ends the process.
PromptInterrupted ==
  /\ Running
  /\ shellPc = "prompt"
  /\ status' = "fatal"
  /\ UNCHANGED <<clientVars, mainPc, shellPc, cmd, chanVars, wg>>

ExitCommand ==
  /\ ShellGo("prompt", "exitSend")
  /\ UNCHANGED <<clientVars, mainPc, cmd, chanVars, wg, status>>

\* sigChan <- os.Interrupt, which blocks while the channel is full.
ExitSend ==
  /\ ShellGo("exitSend", "exitClose")
  /\ sigBuf = 0
  /\ sigBuf' = 1
  /\ UNCHANGED <<clientVars, mainPc, cmd, sigClosed, wg, status>>

\* The faulty program that returns without wgBackground.Done().
ExitCloseNoDone ==
  /\ ShellGo("exitClose", "done")
  /\ sigClosed' = TRUE
  /\ UNCHANGED <<clientVars, mainPc, cmd, sigBuf, wg, status>>

\* close(sigChan), return, and the deferred wgBackground.Done().
ExitClose ==
  /\ ShellGo("exitClose", "done")
  /\ sigClosed' = TRUE
  /\ wg' = wg - 1
  /\ UNCHANGED <<clientVars, mainPc, cmd, sigBuf, status>>

-----------------------------------------------------------------------------
(* try_reconnect.                                                          *)

\* The faulty program that replaces the client without logging it out.
ReconnectWithoutLogout ==
  /\ ShellGo("prompt", "reNew")
  /\ UNCHANGED <<clientVars, mainPc, cmd, chanVars, wg, status>>

ReconnectCommand ==
  /\ ShellGo("prompt", "reLogoutVim")
  /\ UNCHANGED <<clientVars, mainPc, cmd, chanVars, wg, status>>

ReconnectLogoutVim ==
  /\ ShellGo("reLogoutVim", "reLogoutSso")
  /\ LogoutVim
  /\ UNCHANGED <<mainPc, cmd, chanVars, wg, status>>

ReconnectLogoutSso ==
  /\ ShellGo("reLogoutSso", "reCheck")
  /\ LogoutSso
  /\ UNCHANGED <<mainPc, cmd, chanVars, wg, status>>

\* The faulty program that ignores the error of Logout.
ReconnectIgnoresError ==
  /\ ShellGo("reCheck", "reNew")
  /\ UNCHANGED <<clientVars, mainPc, cmd, chanVars, wg, status>>

ReconnectCheck ==
  /\ Running
  /\ shellPc = "reCheck"
  /\ \/ logoutErr /\ status' = "fatal" /\ UNCHANGED shellPc
     \/ ~logoutErr /\ shellPc' = "reNew" /\ UNCHANGED status
  /\ UNCHANGED <<clientVars, mainPc, cmd, chanVars, wg>>

ReconnectNewClient ==
  /\ ShellGo("reNew", "reLogin")
  /\ NewClient
  /\ UNCHANGED <<mainPc, cmd, chanVars, wg, status>>

ReconnectLogin ==
  /\ ShellGo("reLogin", "prompt")
  /\ LoginSucceeds
  /\ UNCHANGED <<mainPc, cmd, chanVars, wg, status>>

\* The faulty program that goes back to the prompt when the login fails.
ReconnectLoginToPrompt ==
  /\ ShellGo("reLogin", "prompt")
  /\ UNCHANGED <<clientVars, mainPc, cmd, chanVars, wg, status>>

ReconnectLoginFails ==
  /\ Running
  /\ shellPc = "reLogin"
  /\ status' = "fatal"
  /\ UNCHANGED <<clientVars, mainPc, shellPc, cmd, chanVars, wg>>

-----------------------------------------------------------------------------
(* vi_events, support_bundle and basic_info: list the inventory, ask the   *)
(* user, work.  An error at any point is logged and ends the command.      *)

EndCommand(from) == Running /\ shellPc = from /\ shellPc' = "prompt" /\ cmd' = "none"

StartCommand ==
  /\ ShellGo("prompt", "list")
  /\ \E c \in Command :
       /\ c = "vi_events" => IsVCenter
       /\ cmd' = c
  /\ UNCHANGED <<clientVars, mainPc, chanVars, wg, status>>

\* ListEsxiHost or ListDataCenter, then the inventory path of each entry.  The
\* server may have dropped the session since its last answer.
ListSucceeds ==
  /\ Running
  /\ shellPc = "list"
  /\ loggedIn /\ postInit
  /\ shellPc' = IF cmd # "basic_info" THEN "ask" ELSE IF IsVCenter THEN "sso" ELSE "work"
  /\ UNCHANGED <<clientVars, mainPc, cmd, chanVars, wg, status>>

ListFails ==
  /\ EndCommand("list")
  /\ UNCHANGED <<clientVars, mainPc, chanVars, wg, status>>

UserAnswers ==
  /\ ShellGo("ask", "work")
  /\ UNCHANGED <<clientVars, mainPc, cmd, chanVars, wg, status>>

\* Ctrl-C in the prompt of a command only ends the command.
AskInterrupted ==
  /\ EndCommand("ask")
  /\ UNCHANGED <<clientVars, mainPc, chanVars, wg, status>>

\* The SSO login inside ListAllUsers; basic_info goes on without it.
SsoLogin ==
  /\ ShellGo("sso", "work")
  /\ Login2SSOMgmt
  /\ UNCHANGED <<mainPc, cmd, chanVars, wg, status>>

\* Everything else a command does; for support_bundle, a failed generation.
WorkEnds ==
  /\ EndCommand("work")
  /\ UNCHANGED <<clientVars, mainPc, chanVars, wg, status>>

\* FormatAndSave indexes the first row of an answer that may have no row, and
\* the converters of a host configuration follow pointers that may be nil.
WorkPanics ==
  /\ Running
  /\ shellPc = "work"
  /\ cmd = "basic_info"
  /\ status' = "panic"
  /\ UNCHANGED <<clientVars, mainPc, shellPc, cmd, chanVars, wg>>

\* The faulty program that forgets wg.Add(1).
StartDownloadNoAdd ==
  /\ ShellGo("work", "download")
  /\ cmd = "support_bundle"
  /\ UNCHANGED <<clientVars, mainPc, cmd, chanVars, wg, status>>

\* RequestSupportBundle, once the bundle is generated: wg.Add(1).
StartDownload ==
  /\ ShellGo("work", "download")
  /\ cmd = "support_bundle"
  /\ wg' = wg + 1
  /\ UNCHANGED <<clientVars, mainPc, cmd, chanVars, status>>

\* The faulty program that forgets parentWg.Done().
DownloadEndsNoDone ==
  /\ EndCommand("download")
  /\ UNCHANGED <<clientVars, mainPc, chanVars, wg, status>>

\* downloadSupportBundle returns; parentWg.Done().
DownloadEnds ==
  /\ EndCommand("download")
  /\ wg' = wg - 1
  /\ UNCHANGED <<clientVars, mainPc, chanVars, status>>

-----------------------------------------------------------------------------

MainStep ==
  \/ Startup \/ StartupLogin \/ StartupShowAPI \/ StartupTimeInSync \/ StartupFails
  \/ StartShell \/ ReceiveSignal \/ WaitBackground \/ SleepThenReturn
  \/ DeferredLogoutVim \/ DeferredLogoutSso

ShellStep ==
  \/ PromptInterrupted \/ ExitCommand \/ ExitSend \/ ExitClose
  \/ ReconnectCommand \/ ReconnectLogoutVim \/ ReconnectLogoutSso \/ ReconnectCheck
  \/ ReconnectNewClient \/ ReconnectLogin \/ ReconnectLoginFails
  \/ StartCommand \/ ListSucceeds \/ ListFails \/ UserAnswers \/ AskInterrupted
  \/ SsoLogin \/ WorkEnds \/ WorkPanics \/ StartDownload \/ DownloadEnds

SessionExpires ==
  /\ Running
  /\ Expire
  /\ UNCHANGED <<mainPc, shellPc, cmd, chanVars, wg, status>>

Environment ==
  \/ SigIntBeforeNotify \/ SigIntQueued \/ SigIntOnClosed \/ SessionExpires

Terminated == ~Running /\ UNCHANGED vars

Next == MainStep \/ ShellStep \/ Environment \/ Terminated

Spec == Init /\ [][Next]_vars

\* The Go scheduler runs a goroutine that can go on.  Only steps that wait
\* neither for the server nor for the user are fair.
FairSpec ==
  /\ Spec
  /\ WF_vars(ReceiveSignal)
  /\ WF_vars(WaitBackground)
  /\ WF_vars(SleepThenReturn)
  /\ WF_vars(ExitSend)
  /\ WF_vars(ExitClose)

-----------------------------------------------------------------------------

\* No request goes out through the bare client NewClient leaves behind,
\* whose fields are nil ("DO NOT ACCESS", client.go:100): whenever a
\* goroutine is about to use the vim client, a login has filled it, also
\* after reconnects and in main's deferred Logout.
CallsThroughVim ==
  \/ mainPc \in {"showApi", "checkTime", "logoutVim"}
  \/ shellPc \in {"list", "ask", "sso", "work", "download", "reLogoutVim"}

NoBareAccess == CallsThroughVim => soap \in Session

\* A vim session the program has let go of is closed on the server, unless
\* the server refused to close it: reconnecting never just forgets one.
OnlyRefusedSessionsLeak == live \subseteq {soap} \cup refused

\* A process that is over leaves a vim session open, which Logout was not
\* refused for, only if it never came to its deferred Logout (client.go:197),
\* and it was: killed before the shell ran; ended by log.Fatalln when the
\* clocks differ or at the prompt, and nowhere else; or ended by a panic, of
\* basic_info or of a signal on the closed channel before main logs out.
OpenSessionHasCause ==
  ~Running /\ ~(live \subseteq refused) =>
    \/ status = "killed" /\ shellPc = "off"
    \/ status = "fatal" /\ (mainPc = "checkTime" \/ shellPc = "prompt")
    \/ status = "panic" /\ shellPc = "work" /\ cmd = "basic_info"
    \/ status = "panic" /\ shellPc = "done" /\ mainPc \notin {"logoutSso", "returned"}

\* main touches the client again only when the shell goroutine is over: no
\* command, and no download, is abandoned by the way out, and Logout does
\* not run against a client in use (main.go:225).
WayOutIsAlone ==
  mainPc \in {"sleep", "logoutVim", "logoutSso", "returned"} => shellPc = "done" /\ wg = 0

\* try_reconnect goes on to a new client with the old session still open in one
\* way only: the server refused its logout, and the success of the SSO logout
\* took the place of that error (client.go:205).  Without an SSO client to log
\* out, or when its logout fails too, it does not (try_reconn.go:11).
ReconnectDropsSession ==
  shellPc = "reNew" /\ soap \in live =>
    soap \in refused /\ sso # NilPtr /\ sso \notin ssoLive

\* The exit command waits to send, main waits for the shell goroutine, and the
\* channel is full: a signal came before main's receive, another one after it.
Hung ==
  Running /\ shellPc = "exitSend" /\ mainPc = "wait" /\ sigBuf = 1

\* The one state in which exit is stuck: from any other place of the exit
\* command main gets to its deferred Logout (main.go:197-202, 218-225).
ExitEndsOrHangs ==
  shellPc = "exitSend" ~> (mainPc = "logoutVim" \/ status # "running" \/ Hung)

-----------------------------------------------------------------------------
(* What the documentation says and the program does not do.                *)

\* "exit: Logout current session and exit" (full-help.md:23): the exit
\* command brings main to Logout.  Two interrupts before it fill sigChan for
\* good, and the send of the command blocks forever.
ExitTerminates ==
  shellPc = "exitSend" ~> (mainPc = "logoutVim" \/ status # "running")

\* "Press Ctrl-C again to force exit" (main.go:223-224): an interrupt that
\* comes while main waits for the wait group ends that wait.  Nothing reads
\* sigChan any more.
SecondInterruptExits ==
  mainPc = "wait" /\ sigBuf = 1 ~> (mainPc # "wait" \/ status # "running")

\* "Logout should be called via defer stack, to make sure session is invalid
\* in time" (client.go:197): os.Exit runs no deferred call.
FatalLogsOut == status = "fatal" => live \subseteq refused

\* Sessions are not leaked (client.go:80): the only SSO session open is the
\* one the client can log out.  A second basic_info drops the first one.
SsoNotLeaked == ssoLive \subseteq {sso}

=============================================================================
