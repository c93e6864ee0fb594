------------------------------ MODULE GateSpec ------------------------------
(***************************************************************************)
(* What opening the gate promises, seen from the people who ask and from   *)
(* the gate: it opens only for a request id somebody asked for, not again  *)
(* for one of the last Memory ids it opened for since its controller was   *)
(* started, and a caller who is told "ok" was let in.  A caller who is     *)
(* told anything else learns nothing about the gate.                       *)
(***************************************************************************)
EXTENDS Naturals, Sequences, SequencesExt

CONSTANTS Call, Rid, NoRid, Verdict, Memory

VARIABLES
    rid,            \* what each call asked for
    answer,         \* what it was told
    opened,         \* the request ids the gate opened for, in order
    started         \* Len(opened) when the controller was last started

vars == <<rid, answer, opened, started>>

Init ==
    /\ rid = [c \in Call |-> NoRid] /\ answer = [c \in Call |-> "none"]
    /\ opened = <<>> /\ started = 0

Ask(c, r) ==
    /\ rid[c] = NoRid
    /\ rid' = [rid EXCEPT ![c] = r]
    /\ UNCHANGED <<answer, opened, started>>

\* One of the last Memory openings since the controller was started.
Remembered(r) ==
    \E i \in started + 1 .. Len(opened) :
        opened[i] = r /\ Len(opened) - i < Memory

Open(r) ==
    /\ \E c \in Call : rid[c] = r
    /\ ~Remembered(r)
    /\ opened' = Append(opened, r)
    /\ UNCHANGED <<rid, answer, started>>

Restart == started' = Len(opened) /\ UNCHANGED <<rid, answer, opened>>

Tell(c, a) ==
    /\ rid[c] # NoRid /\ answer[c] = "none"
    /\ a = "ok" => rid[c] \in ToSet(opened)
    /\ answer' = [answer EXCEPT ![c] = a]
    /\ UNCHANGED <<rid, opened, started>>

Next ==
    \/ \E c \in Call, r \in Rid : Ask(c, r)
    \/ \E r \in Rid : Open(r)
    \/ Restart
    \/ \E c \in Call, a \in Verdict : Tell(c, a)

Spec == Init /\ [][Next]_vars
=============================================================================
