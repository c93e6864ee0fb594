------------------------------ MODULE Terminals ------------------------------
(***************************************************************************)
(* The administrator's terminal: the component in the browser              *)
(* (src/frontend/src/components/Terminal.tsx), socket.io between, and the  *)
(* gateway and the service of the backend (src/backend/src/admin/terminal),*)
(* which start a shell for each socket of an administrator.  The browser   *)
(* and the backend learn of a lost connection each at its own time, and    *)
(* handleConnection awaits the database: the socket may be gone by then.   *)
(* One user; what is typed and shown, and the size of the terminal, are    *)
(* left out.                                                               *)
(***************************************************************************)
EXTENDS FiniteSets, Naturals

CONSTANTS
    Terminal,           \* Terminal components
    Socket,             \* socket ids, used again when nothing refers to one
    NoSocket,           \* no socket
    Attempts            \* reconnectionAttempts

ASSUME TerminalAssumption ==
    NoSocket \notin Socket /\ Attempts \in Nat \ {0}

VARIABLES
    account,            \* the user document
    terminal,           \* the components
    open,               \* sockets the backend holds for connected
    finding,            \* sockets whose handleConnection awaits findById
    sessions,           \* keys of TerminalService.sessions
    shell,              \* sockets whose pty runs
    (* history *)
    late                \* sockets that closed while handleConnection waited

terminalVars == <<account, terminal, open, finding, sessions, shell, late>>

Account == {"admin", "regular", "deleted"}
Phase == {"off", "connecting", "connected", "failed"}
Off == [phase |-> "off", socket |-> NoSocket, attempts |-> 0, token |-> FALSE]

TerminalInit ==
    /\ account = "admin"
    /\ terminal = [t \in Terminal |-> Off]
    /\ open = {} /\ finding = {} /\ sessions = {} /\ shell = {} /\ late = {}

-----------------------------------------------------------------------------
(* The browser *)

\* Connecting, with this many attempts left.  Every attempt presents the token
\* of the mount, although the page may have a newer one.
Connecting(t, left) ==
    [terminal[t] EXCEPT !.phase = "connecting", !.socket = NoSocket,
                        !.attempts = left]

\* The component is mounted: io().
Mount(t) ==
    /\ terminal[t].phase = "off"
    /\ terminal' = [terminal EXCEPT
                       ![t] = [Connecting(t, Attempts) EXCEPT !.token = TRUE]]
    /\ UNCHANGED <<account, open, finding, sessions, shell, late>>

\* The cleanup of useEffect, or the tab is closed.
Unmount(t) ==
    /\ terminal[t].phase # "off"
    /\ terminal' = [terminal EXCEPT ![t] = Off]
    /\ UNCHANGED <<account, open, finding, sessions, shell, late>>

\* Mutant of ConnectFails: the attempts are not limited.
ConnectFailsAlways(t) ==
    /\ terminal[t].phase = "connecting"
    /\ terminal' = [terminal EXCEPT ![t] = Connecting(t, @.attempts - 1)]
    /\ UNCHANGED <<account, open, finding, sessions, shell, late>>

\* connect_error.
ConnectFails(t) ==
    /\ terminal[t].phase = "connecting"
    /\ terminal' = [terminal EXCEPT
                       ![t] = IF @.attempts > 0 THEN Connecting(t, @.attempts - 1)
                              ELSE [Off EXCEPT !.phase = "failed"]]
    /\ UNCHANGED <<account, open, finding, sessions, shell, late>>

\* The browser notices that the connection is lost, or that the backend closed
\* the socket ("io server disconnect": connect()); it connects anew.
ClientLoses(t) ==
    /\ terminal[t].phase = "connected"
    /\ terminal' = [terminal EXCEPT ![t] = Connecting(t, Attempts)]
    /\ UNCHANGED <<account, open, finding, sessions, shell, late>>

-----------------------------------------------------------------------------
(* TerminalGateway and TerminalService *)

Unused == {s \in Socket :
               /\ s \notin open \cup finding \cup sessions \cup shell
               /\ \A t \in Terminal : terminal[t].socket # s}

\* handleConnection up to its await.  A token that does not verify closes the
\* socket at once.
HandleConnection(t) ==
    /\ terminal[t].phase = "connecting"
    /\ \E s \in Unused :
        /\ terminal' = [terminal EXCEPT ![t].phase = "connected", ![t].socket = s]
        /\ IF terminal[t].token
           THEN open' = open \cup {s} /\ finding' = finding \cup {s}
           ELSE UNCHANGED <<open, finding>>
        /\ late' = late \ {s}
    /\ UNCHANGED <<account, sessions, shell>>

\* Mutant of DestroyTerminal: the session is forgotten, the shell runs on.
ForgetTerminal(s) == sessions' = sessions \ {s} /\ UNCHANGED shell

\* destroyTerminal: kill the shell of a known session.
DestroyTerminal(s) ==
    IF s \in sessions THEN sessions' = sessions \ {s} /\ shell' = shell \ {s}
    ELSE UNCHANGED <<sessions, shell>>

\* Mutant of Close: handleDisconnect does not destroy the terminal.
CloseOnly(s) ==
    /\ open' = open \ {s}
    /\ late' = IF s \in finding THEN late \cup {s} ELSE late
    /\ UNCHANGED <<sessions, shell>>

\* The socket is closed: handleDisconnect.
Close(s) ==
    /\ open' = open \ {s}
    /\ DestroyTerminal(s)
    /\ late' = IF s \in finding THEN late \cup {s} ELSE late

\* findById returns somebody who is no administrator, or nobody, or throws, or
\* spawn() does: disconnect().
Refuse(s) ==
    /\ s \in finding
    /\ finding' = finding \ {s}
    /\ open' = open \ {s}
    /\ UNCHANGED <<account, terminal, sessions, shell, late>>

\* createTerminal for an administrator.  Nobody asks whether the socket is still
\* open.
CreateTerminal(s) ==
    /\ s \in finding /\ account = "admin"
    /\ finding' = finding \ {s}
    /\ sessions' = sessions \cup {s} /\ shell' = shell \cup {s}
    /\ UNCHANGED <<account, terminal, open, late>>

\* The backend notices that the other end is gone, or the connection breaks.
ServerLoses(s) ==
    /\ s \in open /\ Close(s)
    /\ UNCHANGED <<account, terminal, finding>>

\* exit, or the ssh connection ends: onExit.  The socket stays open.
ShellExits(s) ==
    /\ s \in shell
    /\ shell' = shell \ {s} /\ sessions' = sessions \ {s}
    /\ UNCHANGED <<account, terminal, open, finding, late>>

\* The backend is restarted: its ptys close, and the shells end.
Restart ==
    /\ open' = {} /\ finding' = {} /\ sessions' = {} /\ shell' = {} /\ late' = {}
    /\ UNCHANGED <<account, terminal>>

\* AdminService changes the role or deletes the user.
UserChanges ==
    /\ account' \in Account \ {account}
    /\ UNCHANGED <<terminal, open, finding, sessions, shell, late>>

TerminalTokenExpires(t) ==
    /\ terminal[t].token /\ terminal' = [terminal EXCEPT ![t].token = FALSE]
    /\ UNCHANGED <<account, open, finding, sessions, shell, late>>

Gone(s) == \A t \in Terminal : terminal[t].socket # s

TerminalNext ==
    \/ \E t \in Terminal :
        \/ Mount(t) \/ Unmount(t) \/ ConnectFails(t)
        \/ ClientLoses(t) \/ HandleConnection(t) \/ TerminalTokenExpires(t)
    \/ \E s \in Socket : \/ Refuse(s) \/ CreateTerminal(s) \/ ServerLoses(s)
                         \/ ShellExits(s)
    \/ Restart \/ UserChanges

TerminalSpec == TerminalInit /\ [][TerminalNext]_terminalVars

\* findById returns; the ping timeout finds out a dead connection.
TerminalFairness ==
    \A s \in Socket : /\ WF_terminalVars(Refuse(s) \/ CreateTerminal(s))
                      /\ WF_terminalVars(Gone(s) /\ ServerLoses(s))

-----------------------------------------------------------------------------
(* Properties *)

TerminalTypeOK ==
    /\ account \in Account
    /\ terminal \in [Terminal -> [phase : Phase, socket : Socket \cup {NoSocket},
                             attempts : 0 .. Attempts, token : BOOLEAN]]
    /\ {open, finding, sessions, shell, late} \subseteq SUBSET Socket

\* A shell that is not in sessions can never be killed, and a session without a
\* shell swallows what is typed.
SessionsAreShells == sessions = shell

\* A shell outlives its socket only if that closed while handleConnection waited
\* for findById: handleDisconnect found nothing to destroy then.
OrphansAreLate == \A s \in shell : s \in open \/ s \in late

\* When a browser has gone its shell ends, also if the backend has to find out
\* by itself; the late ones excepted, which nothing ends.
ShellEnds ==
    \A s \in Socket : (s \in shell /\ Gone(s)) ~> (s \notin shell \/ s \in late)
=============================================================================
