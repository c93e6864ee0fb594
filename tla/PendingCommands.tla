--------------------------- MODULE PendingCommands ---------------------------
(***************************************************************************)
(* The out-of-band commands an administrator leaves for the device         *)
(* (src/backend/src/device): the collection of one device, in the order of *)
(* createdAt, and the handlers of the device's polls, each of which finds  *)
(* a document in one call to the database and marks it consumed in         *)
(* another; and the device's poll (pollOobCommandViaModem in main.ino).  A *)
(* device that stops waiting leaves its handler running, and may poll      *)
(* again before it ends.  Device authentication, the reason texts and the  *)
(* OTA manifest, which is configuration, are left out.                     *)
(***************************************************************************)
EXTENDS Naturals, Sequences, FiniteSets

CONSTANTS
    Poll,               \* handlers of getPendingCommand, used again when done
    None,               \* no handler
    MaxCommands,        \* bound: commands ever created
    MaxLost             \* bound: polls given up by the device

ASSUME PollAssumption ==
    /\ IsFiniteSet(Poll) /\ None \notin Poll
    /\ MaxCommands \in Nat /\ MaxLost \in Nat

VARIABLES
    commands,           \* DevicePendingCommand documents
    handler,            \* the handlers
    asked,              \* the handler the device waits for, or None
    (* history *)
    carried,            \* how often the device has carried out each command
    lost

vars == <<commands, handler, asked, carried, lost>>

Action == {"reboot", "rebuild_ppp"}
Status == {"pending", "expired", "consumed", "deleted"}
Idle == [phase |-> "idle", row |-> 0]

Init ==
    /\ commands = <<>> /\ carried = <<>>
    /\ handler = [h \in Poll |-> Idle]
    /\ asked = None /\ lost = 0

\* Mutant of SetPending: the action none is stored instead of clearing.
SetPendingNone(action) ==
    /\ Len(commands) < MaxCommands
    /\ commands' = Append(commands, [action |-> "none", status |-> "pending"])
    /\ carried' = Append(carried, 0)
    /\ UNCHANGED <<handler, asked, lost>>

\* setPending, with or without a time to live.
SetPending(action) ==
    /\ Len(commands) < MaxCommands
    /\ commands' = Append(commands, [action |-> action, status |-> "pending"])
    /\ carried' = Append(carried, 0)
    /\ UNCHANGED <<handler, asked, lost>>

\* setPending with action none, which is also the DELETE route: deleteMany.
ClearPending ==
    /\ commands # <<>>
    /\ commands' = [i \in DOMAIN commands |->
                        [commands[i] EXCEPT !.status = "deleted"]]
    /\ UNCHANGED <<handler, asked, carried, lost>>

\* expiresAt passes.
Expire(i) ==
    /\ commands[i].status = "pending"
    /\ commands' = [commands EXCEPT ![i].status = "expired"]
    /\ UNCHANGED <<handler, asked, carried, lost>>

\* The filter of consumePending and getLatestPending.
Pending == {i \in DOMAIN commands : commands[i].status = "pending"}

Newest == CHOOSE i \in Pending : \A j \in Pending : j =< i

\* The poll arrives in a handler of its own.
Ask(h) ==
    /\ asked = None /\ handler[h].phase = "idle"
    /\ handler' = [handler EXCEPT ![h].phase = "find"] /\ asked' = h
    /\ UNCHANGED <<commands, carried, lost>>

\* Mutant of Find: the newest document, if it is pending.
FindLast(h) ==
    /\ handler[h].phase = "find"
    /\ handler' = [handler EXCEPT ![h] =
                       IF Len(commands) \in Pending
                       THEN [phase |-> "save", row |-> Len(commands)]
                       ELSE [phase |-> "none", row |-> 0]]
    /\ UNCHANGED <<commands, asked, carried, lost>>

\* consumePending, findOne.
Find(h) ==
    /\ handler[h].phase = "find"
    /\ handler' = [handler EXCEPT ![h] =
                       IF Pending = {} THEN [phase |-> "none", row |-> 0]
                       ELSE [phase |-> "save", row |-> Newest]]
    /\ UNCHANGED <<commands, asked, carried, lost>>

\* Mutant of Save: the command is answered without being marked.
SaveNothing(h) ==
    /\ handler[h].phase = "save"
    /\ handler' = [handler EXCEPT ![h].phase = "command"]
    /\ UNCHANGED <<commands, asked, carried, lost>>

\* Mutant of Save: every pending document is marked, the newest is answered.
SaveAll(h) ==
    /\ handler[h].phase = "save"
    /\ handler' = [handler EXCEPT ![h].phase = "command"]
    /\ commands' = [i \in DOMAIN commands |->
                        IF i \in Pending THEN [commands[i] EXCEPT !.status = "consumed"]
                        ELSE commands[i]]
    /\ UNCHANGED <<asked, carried, lost>>

\* consumePending, doc.save(): sets consumedAt whatever has become of the
\* document, and fails when it is gone; the answer 500 is no command.
Save(h) ==
    LET gone == commands[handler[h].row].status = "deleted" IN
    /\ handler[h].phase = "save"
    /\ handler' = [handler EXCEPT ![h].phase = IF gone THEN "none" ELSE "command"]
    /\ commands' = IF gone THEN commands
                   ELSE [commands EXCEPT ![handler[h].row].status = "consumed"]
    /\ UNCHANGED <<asked, carried, lost>>

\* The handler answers, and the device carries out a command (205, 206) if it
\* still waits for this handler.
Answer(h) ==
    /\ handler[h].phase \in {"none", "command"}
    /\ handler' = [handler EXCEPT ![h] = Idle]
    /\ carried' = IF asked = h /\ handler[h].phase = "command"
                  THEN [carried EXCEPT ![handler[h].row] = @ + 1] ELSE carried
    /\ asked' = IF asked = h THEN None ELSE asked
    /\ UNCHANGED <<commands, lost>>

\* https_get fails, or the device is reset: it does not wait any longer.
GiveUp ==
    /\ asked # None /\ lost < MaxLost
    /\ asked' = None /\ lost' = lost + 1
    /\ UNCHANGED <<commands, handler, carried>>

Admin == \/ \E action \in Action : SetPending(action)
         \/ ClearPending

Handle == \E h \in Poll : Find(h) \/ Save(h) \/ Answer(h)

Next ==
    \/ Admin \/ Handle \/ GiveUp
    \/ \E i \in DOMAIN commands : Expire(i)
    \/ \E h \in Poll : Ask(h)

Spec == Init /\ [][Next]_vars

\* Handlers run to their end; the device polls whenever it does not wait
\* (OOB_POLL_INTERVAL_MS).
FairSpec ==
    /\ Spec /\ WF_vars(\E h \in Poll : Ask(h))
    /\ \A h \in Poll : WF_vars(Find(h) \/ Save(h) \/ Answer(h))

-----------------------------------------------------------------------------
(* Properties *)

TypeOK ==
    /\ commands \in Seq([action : Action, status : Status])
    /\ Len(commands) =< MaxCommands
    /\ handler \in [Poll -> [phase : {"idle", "find", "save", "none", "command"},
                             row : 0 .. MaxCommands]]
    /\ asked \in Poll \cup {None} /\ lost \in 0 .. MaxLost
    /\ carried \in [DOMAIN commands -> Nat]

\* A command is carried out once at most, although the device polls again after
\* the reboot it was told to do, and a poll it gave up may overlap the next one:
\* else one command reboots the device for ever (consumePending).
CarriedOutOnce == \A i \in DOMAIN carried : carried[i] =< 1

\* What is no longer pending and was neither expired, deleted nor carried out is
\* on its way, or was answered to a poll that the device had given up: a lost
\* answer is the only way to lose a command.
LostOnlyWithPoll ==
    Cardinality({i \in DOMAIN commands :
                     /\ commands[i].status = "consumed" /\ carried[i] = 0
                     /\ \A h \in Poll : ~(asked = h /\ handler[h].row = i)}) =< lost

\* The device comes for every command: none stays pending for ever, the ones
\* hidden behind a newer one included (consumePending takes the newest).
EveryCommandFetched == []<>(Pending = {})
=============================================================================
