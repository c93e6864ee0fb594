------------------------ MODULE PendingCommandsProofs ------------------------
(***************************************************************************)
(* Proofs about PendingCommands, for any number of handlers, commands and  *)
(* polls given up: a command is carried out once at most, and at most one  *)
(* command is lost for each poll that was given up.                        *)
(***************************************************************************)
EXTENDS PendingCommands, FiniteSetTheorems, WellFoundedInduction, TLAPS

-----------------------------------------------------------------------------
(* The newest pending document *)

\* A finite set of numbers has a largest one: among the sets of what is larger
\* than a member, a smallest is empty.
LEMMA LargestExists ==
    ASSUME NEW P, P \subseteq Nat, IsFiniteSet(P), P # {}
    PROVE  \E i \in P : \A j \in P : j =< i
<1> DEFINE Above(i) == {j \in P : j > i}
           T == {Above(i) : i \in P}
<1>1. T \subseteq FiniteSubsetsOf(P)
  BY FS_Subset DEF FiniteSubsetsOf
<1>2. T # {}
  OBVIOUS
<1>3. PICK i \in P : \A j \in P : <<Above(j), Above(i)>> \notin StrictSubsetOrdering(P)
  <2>1. PICK x \in T : \A y \in T : ~(<<y, x>> \in StrictSubsetOrdering(P))
    <3> HIDE DEF T
    <3>1. QED
      BY <1>1, <1>2, FS_StrictSubsetOrderingWellFounded, WFMin
  <2>2. PICK i \in P : x = Above(i)
    BY <2>1
  <2>3. QED
    BY <2>1, <2>2
<1>4. ASSUME NEW j \in P, j > i
      PROVE  FALSE
  <2>1. Above(j) \subseteq Above(i) /\ j \in Above(i) /\ j \notin Above(j)
    <3>1. /\ \A k \in P : k > j => k > i
          /\ ~(j > j)
      BY <1>4
    <3>2. QED
      BY <3>1, <1>4, Zenon
  <2>2. <<Above(j), Above(i)>> \in StrictSubsetOrdering(P)
    BY <2>1 DEF StrictSubsetOrdering
  <2>3. QED
    BY <1>3, <2>2
<1>5. QED
  BY <1>4

\* consumePending finds a pending document when there is one.
LEMMA NewestIsPending ==
    ASSUME TypeOK, Pending # {}
    PROVE  Newest \in Pending /\ Newest \in DOMAIN commands
<1>1. DOMAIN commands = 1 .. Len(commands) /\ Len(commands) \in Nat
  BY DEF TypeOK
<1>2. Pending \in SUBSET (1 .. Len(commands))
  BY <1>1 DEF Pending
<1>3. IsFiniteSet(Pending)
  <2>1. IsFiniteSet(1 .. Len(commands))
    BY <1>1, FS_Interval
  <2>2. QED
    BY <1>2, <2>1, FS_Subset
<1>4. \E i \in Pending : \A j \in Pending : j =< i
  <2>1. Pending \subseteq Nat
    BY <1>1, <1>2
  <2>2. QED
    BY <2>1, <1>3, LargestExists
<1>5. QED
  BY <1>1, <1>2, <1>4 DEF Newest
-----------------------------------------------------------------------------
(* Updates of sequences and counters *)

LEMMA SeqMember ==
    ASSUME NEW S, NEW s \in Seq(S), NEW i \in DOMAIN s
    PROVE  s[i] \in S
OBVIOUS

LEMMA SeqUpdate ==
    ASSUME NEW S, NEW s \in Seq(S), NEW i \in DOMAIN s, NEW c \in S
    PROVE  /\ [s EXCEPT ![i] = c] \in Seq(S)
           /\ Len([s EXCEPT ![i] = c]) = Len(s)
OBVIOUS

LEMMA NoUpdate ==
    ASSUME NEW S, NEW s \in Seq(S), NEW i, i \notin DOMAIN s, NEW c
    PROVE  [s EXCEPT ![i] = c] = s
OBVIOUS

LEMMA CounterUpdate ==
    ASSUME NEW D, NEW f \in [D -> Nat], NEW i
    PROVE  [f EXCEPT ![i] = @ + 1] \in [D -> Nat]
<1>1. CASE i \in D
  BY <1>1
<1>2. CASE i \notin D
  BY <1>2
<1>3. QED
  BY <1>1, <1>2

-----------------------------------------------------------------------------
(* Type correctness *)

LEMMA TypeInit == Init => TypeOK
BY PollAssumption DEF Init, TypeOK, Idle

LEMMA TypeStep == TypeOK /\ [Next]_vars => TypeOK'
<1> SUFFICES ASSUME TypeOK, [Next]_vars PROVE TypeOK'
  OBVIOUS
<1> DEFINE Command == [action : Action, status : Status]
           Handler == [phase : {"idle", "find", "save", "none", "command"},
                       row : 0 .. MaxCommands]
<1> USE PollAssumption
<1>0. /\ commands \in Seq(Command) /\ Len(commands) \in Nat
      /\ DOMAIN commands = 1 .. Len(commands) /\ Len(commands) =< MaxCommands
      /\ handler \in [Poll -> Handler] /\ carried \in [DOMAIN commands -> Nat]
  BY DEF TypeOK
<1>1. ASSUME NEW action \in Action, SetPending(action)
      PROVE  TypeOK'
  <2>1. [action |-> action, status |-> "pending"] \in Command
    BY DEF Status
  <2>2. /\ commands' \in Seq(Command) /\ Len(commands') = Len(commands) + 1
        /\ DOMAIN commands' = 1 .. Len(commands')
    BY <1>0, <1>1, <2>1 DEF SetPending
  <2>3. carried \in Seq(Nat) /\ Len(carried) = Len(commands)
    BY <1>0
  <2>4. carried' \in [DOMAIN commands' -> Nat]
    <3>1. carried' \in Seq(Nat) /\ Len(carried') = Len(commands) + 1
      BY <1>1, <2>3 DEF SetPending
    <3>2. QED
      BY <1>0, <2>2, <3>1
  <2>5. Len(commands') =< MaxCommands
    BY <1>0, <1>1, <2>2 DEF SetPending
  <2>6. QED
    BY <1>1, <2>2, <2>4, <2>5 DEF SetPending, TypeOK
<1>2. CASE ClearPending
  <2>1. /\ DOMAIN commands' = DOMAIN commands
        /\ \A i \in DOMAIN commands : commands'[i] \in Command
    <3>1. \A c \in Command : [c EXCEPT !.status = "deleted"] \in Command
      BY DEF Status
    <3>2. \A i \in DOMAIN commands : commands[i] \in Command
      <4> HIDE DEF Command
      <4>1. QED
        BY <1>0, SeqMember
    <3>3. QED
      BY <1>2, <3>1, <3>2 DEF ClearPending
  <2>2. commands' \in Seq(Command) /\ Len(commands') = Len(commands)
    BY <1>0, <1>2, <2>1 DEF ClearPending
  <2>3. QED
    BY <1>2, <2>1, <2>2 DEF ClearPending, TypeOK
<1>3. ASSUME NEW i \in DOMAIN commands, Expire(i)
      PROVE  TypeOK'
  <2>1. [commands[i] EXCEPT !.status = "expired"] \in Command
    <3>1. \A c \in Command : [c EXCEPT !.status = "expired"] \in Command
      BY DEF Status
    <3>2. commands[i] \in Command
      <4> HIDE DEF Command
      <4>1. QED
        BY <1>0, SeqMember
    <3>3. QED
      BY <3>1, <3>2
  <2>2. commands' \in Seq(Command) /\ Len(commands') = Len(commands)
    BY <1>0, <1>3, <2>1 DEF Expire
  <2>3. QED
    BY <1>3, <2>2, <1>0 DEF Expire, TypeOK
<1>4. ASSUME NEW h \in Poll, Ask(h)
      PROVE  TypeOK'
  BY <1>4 DEF Ask, TypeOK
<1>5. ASSUME NEW h \in Poll, Find(h)
      PROVE  TypeOK'
  <2>1. Pending # {} => Newest \in 0 .. MaxCommands
    BY <1>0, NewestIsPending
  <2>2. handler' \in [Poll -> Handler]
    BY <1>0, <1>5, <2>1 DEF Find
  <2>3. QED
    BY <1>5, <2>2 DEF Find, TypeOK
<1>6. ASSUME NEW h \in Poll, Save(h)
      PROVE  TypeOK'
  <2> DEFINE i == handler[h].row
  <2>1. handler' \in [Poll -> Handler]
    BY <1>0, <1>6 DEF Save
  <2>2. ASSUME i \in DOMAIN commands
        PROVE  [commands[i] EXCEPT !.status = "consumed"] \in Command
    <3>1. \A c \in Command : [c EXCEPT !.status = "consumed"] \in Command
      BY DEF Status
    <3>2. commands[i] \in Command
      <4> HIDE DEF Command
      <4>1. QED
        BY <1>0, <2>2, SeqMember
    <3>3. QED
      BY <3>1, <3>2
  <2>3. commands' \in Seq(Command) /\ Len(commands') = Len(commands)
    <3>1. CASE commands' = commands
      BY <1>0, <3>1
    <3>2. CASE commands' = [commands EXCEPT ![i].status = "consumed"]
      <4>1. CASE i \in DOMAIN commands
        <5> DEFINE c == [commands[i] EXCEPT !.status = "consumed"]
        <5>1. commands' = [commands EXCEPT ![i] = c]
          BY <3>2
        <5>2. c \in Command
          BY <2>2, <4>1
        <5> HIDE DEF Command, c
        <5>3. commands \in Seq(Command)
          BY <1>0
        <5> HIDE DEF i
        <5>4. /\ [commands EXCEPT ![i] = c] \in Seq(Command)
              /\ Len([commands EXCEPT ![i] = c]) = Len(commands)
          BY <4>1, <5>2, <5>3, SeqUpdate
        <5>5. QED
          BY <5>1, <5>4
      <4>2. CASE i \notin DOMAIN commands
        <5> DEFINE c == [commands[i] EXCEPT !.status = "consumed"]
        <5>1. commands' = [commands EXCEPT ![i] = c]
          BY <3>2
        <5>2. commands \in Seq(Command)
          BY <1>0
        <5> HIDE DEF Command, c, i
        <5>3. [commands EXCEPT ![i] = c] = commands
          BY <4>2, <5>2, NoUpdate
        <5>4. QED
          BY <5>1, <5>2, <5>3
      <4>3. QED
        BY <4>1, <4>2
    <3>3. QED
      BY <1>6, <3>1, <3>2 DEF Save
  <2>4. QED
    BY <1>0, <1>6, <2>1, <2>3 DEF Save, TypeOK
<1>7. ASSUME NEW h \in Poll, Answer(h)
      PROVE  TypeOK'
  <2>1. handler' \in [Poll -> Handler]
    BY <1>0, <1>7 DEF Answer, Idle
  <2>2. carried' \in [DOMAIN commands -> Nat]
    <3>1. CASE carried' = carried
      BY <1>0, <3>1
    <3>2. CASE carried' = [carried EXCEPT ![handler[h].row] = @ + 1]
      BY <1>0, <3>2, CounterUpdate
    <3>3. QED
      BY <1>7, <3>1, <3>2 DEF Answer
  <2>3. QED
    BY <1>7, <2>1, <2>2 DEF Answer, TypeOK
<1>8. CASE GiveUp
  BY <1>8 DEF GiveUp, TypeOK
<1>9. CASE UNCHANGED vars
  BY <1>9 DEF vars, TypeOK
<1>10. QED
  BY <1>1, <1>2, <1>3, <1>4, <1>5, <1>6, <1>7, <1>8, <1>9
     DEF Next, Admin, Handle

\* TypeOK for any number of handlers, commands and polls given up.
THEOREM TypeCorrect == Spec => []TypeOK
BY TypeInit, TypeStep, PTL DEF Spec

-----------------------------------------------------------------------------
(* A command is carried out once *)

Holds(h, i) == handler[h].phase \in {"save", "command"} /\ handler[h].row = i

\* What a handler has found exists, what it answers is no longer pending, and
\* what the device has carried out is neither pending nor held by the handler
\* the device waits for.
Progress ==
    /\ \A h \in Poll : \A i :
           Holds(h, i) => /\ i \in DOMAIN commands
                          /\ handler[h].phase = "command"
                                 => commands[i].status # "pending"
    /\ \A i \in DOMAIN commands :
           carried[i] # 0 => /\ carried[i] = 1
                             /\ commands[i].status # "pending"
                             /\ \A h \in Poll : asked = h => ~Holds(h, i)

LEMMA ProgressInit == Init => Progress
BY DEF Init, Progress, Holds, Idle

\* Steps that only take commands out of the pending ones.
LEMMA ProgressRetired ==
    ASSUME TypeOK, Progress, UNCHANGED <<handler, carried>>,
           asked' \in {asked, None},
           DOMAIN commands' = DOMAIN commands,
           \A i \in DOMAIN commands :
               commands[i].status # "pending" => commands'[i].status # "pending"
    PROVE  Progress'
BY PollAssumption DEF Progress, Holds

LEMMA ProgressSetPending ==
    ASSUME TypeOK, Progress, NEW action \in Action, SetPending(action)
    PROVE  Progress'
<1>1. /\ DOMAIN commands = 1 .. Len(commands) /\ Len(commands) \in Nat
      /\ DOMAIN carried = 1 .. Len(commands) /\ Len(carried) = Len(commands)
      /\ commands \in Seq([action : Action, status : Status]) /\ carried \in Seq(Nat)
  BY DEF TypeOK
<1>2. /\ DOMAIN commands' = 1 .. Len(commands) + 1
      /\ \A i \in DOMAIN commands :
             commands'[i] = commands[i] /\ carried'[i] = carried[i]
      /\ carried'[Len(commands) + 1] = 0
  BY <1>1 DEF SetPending
<1>3. DOMAIN commands' = DOMAIN commands \cup {Len(commands) + 1}
  BY <1>1, <1>2
<1>4. UNCHANGED <<handler, asked>>
  BY DEF SetPending
<1>5. \A h, i : Holds(h, i)' <=> Holds(h, i)
  BY <1>4 DEF Holds
<1>6. \A h \in Poll : \A i :
          Holds(h, i)' => /\ i \in DOMAIN commands'
                          /\ handler'[h].phase = "command"
                                 => commands'[i].status # "pending"
  BY <1>2, <1>3, <1>4, <1>5 DEF Progress
<1>7. ASSUME NEW i \in DOMAIN commands', carried'[i] # 0
      PROVE  /\ carried'[i] = 1
             /\ commands'[i].status # "pending"
             /\ \A h \in Poll : asked' = h => ~Holds(h, i)'
  <2>1. i \in DOMAIN commands
    BY <1>2, <1>3, <1>7
  <2>2. QED
    BY <1>2, <1>4, <1>5, <1>7, <2>1 DEF Progress
<1>8. QED
  BY <1>6, <1>7 DEF Progress

LEMMA ProgressHandler ==
    ASSUME TypeOK, Progress, NEW h \in Poll, Ask(h) \/ Find(h) \/ Save(h) \/ Answer(h)
    PROVE  Progress'
<1>0. /\ handler \in [Poll -> [phase : {"idle", "find", "save", "none", "command"},
                               row : 0 .. MaxCommands]]
      /\ carried \in [DOMAIN commands -> Nat]
      /\ \A g \in Poll \ {h} : handler'[g] = handler[g]
      /\ commands \in Seq([action : Action, status : Status])
  BY DEF TypeOK, Ask, Find, Save, Answer
<1>1. CASE Ask(h)
  BY <1>0, <1>1, PollAssumption DEF Ask, Progress, Holds
<1>2. CASE Find(h)
  <2>1. handler'[h].phase = "save"
            => /\ handler'[h].row \in DOMAIN commands
               /\ commands[handler'[h].row].status = "pending"
    BY <1>0, <1>2, NewestIsPending DEF Find, Pending
  <2>2. handler'[h].phase \in {"save", "none"}
    BY <1>0, <1>2 DEF Find
  <2>3. QED
    BY <1>0, <1>2, <2>1, <2>2 DEF Find, Progress, Holds
<1>3. CASE Save(h)
  <2> DEFINE i == handler[h].row
  <2>1. i \in DOMAIN commands /\ Holds(h, i)
    BY <1>3 DEF Save, Progress, Holds
  <2>2. /\ DOMAIN commands' = DOMAIN commands
        /\ \A j \in DOMAIN commands :
               commands[j].status # "pending" => commands'[j].status # "pending"
    BY <1>0, <1>3, <2>1 DEF Save
  <2>3. /\ handler'[h].phase \in {"none", "command"} /\ handler'[h].row = i
        /\ handler'[h].phase = "command" => commands'[i].status = "consumed"
    BY <1>0, <1>3, <2>1 DEF Save
  <2>4. UNCHANGED <<asked, carried>>
    BY <1>3 DEF Save
  <2>5. \A g \in Poll : \A j : Holds(g, j)' => Holds(g, j)
    BY <1>0, <2>1, <2>3 DEF Holds
  <2>6. ASSUME NEW g \in Poll, NEW j, Holds(g, j)'
        PROVE  /\ j \in DOMAIN commands'
               /\ handler'[g].phase = "command" => commands'[j].status # "pending"
    <3>1. CASE g = h
      BY <2>1, <2>2, <2>3, <2>6, <3>1 DEF Holds
    <3>2. CASE g # h
      BY <1>0, <2>2, <2>6, <3>2 DEF Holds, Progress
    <3>3. QED
      BY <3>1, <3>2
  <2>7. QED
    BY <2>2, <2>4, <2>5, <2>6 DEF Progress
<1>4. CASE Answer(h)
  <2>1. /\ ~Holds(h, 0)' /\ \A i : ~Holds(h, i)'
        /\ UNCHANGED commands
    BY <1>0, <1>4 DEF Answer, Holds, Idle
  <2>2. \A g \in Poll : \A i : Holds(g, i)' => Holds(g, i) /\ g # h /\ handler'[g] = handler[g]
    BY <1>0, <2>1 DEF Holds
  <2>3. CASE asked = h /\ handler[h].phase = "command"
    <3> DEFINE i == handler[h].row
    <3>1. Holds(h, i) /\ i \in DOMAIN commands /\ commands[i].status # "pending"
      BY <2>3 DEF Holds, Progress
    <3>2. carried[i] = 0
      BY <2>3, <3>1 DEF Progress
    <3>3. /\ carried'[i] = 1
          /\ \A j \in DOMAIN commands \ {i} : carried'[j] = carried[j]
      BY <1>0, <1>4, <2>3, <3>1, <3>2 DEF Answer
    <3>4. asked' = None /\ \A g \in Poll : asked' # g
      BY <1>4, <2>3, PollAssumption DEF Answer
    <3>5. QED
      BY <2>1, <2>2, <3>1, <3>3, <3>4 DEF Progress
  <2>4. CASE ~(asked = h /\ handler[h].phase = "command")
    <3>1. UNCHANGED carried /\ asked' \in {asked, None}
      BY <1>4, <2>4 DEF Answer
    <3>2. \A g \in Poll : asked' = g => asked = g
      BY <3>1, PollAssumption
    <3>3. QED
      BY <2>1, <2>2, <3>1, <3>2 DEF Progress
  <2>5. QED
    BY <2>3, <2>4
<1>5. QED
  BY <1>1, <1>2, <1>3, <1>4

LEMMA ProgressStep == TypeOK /\ Progress /\ [Next]_vars => Progress'
<1> SUFFICES ASSUME TypeOK, Progress, [Next]_vars PROVE Progress'
  OBVIOUS
<1>1. ASSUME NEW action \in Action, SetPending(action)
      PROVE  Progress'
  BY <1>1, ProgressSetPending
<1>2. CASE ClearPending
  <2>1. /\ DOMAIN commands' = DOMAIN commands
        /\ \A i \in DOMAIN commands : commands'[i].status = "deleted"
        /\ UNCHANGED <<handler, asked, carried>>
    <3>1. \A i \in DOMAIN commands : commands[i] \in [action : Action, status : Status]
      BY SeqMember DEF TypeOK
    <3>2. QED
      BY <1>2, <3>1 DEF ClearPending
  <2>2. QED
    BY <2>1, ProgressRetired
<1>3. ASSUME NEW i \in DOMAIN commands, Expire(i)
      PROVE  Progress'
  BY <1>3, ProgressRetired DEF Expire, TypeOK
<1>4. ASSUME NEW h \in Poll, Ask(h) \/ Find(h) \/ Save(h) \/ Answer(h)
      PROVE  Progress'
  BY <1>4, ProgressHandler
<1>5. CASE GiveUp \/ UNCHANGED vars
  BY <1>5, ProgressRetired DEF GiveUp, vars
<1>6. QED
  BY <1>1, <1>2, <1>3, <1>4, <1>5 DEF Next, Admin, Handle

\* consumePending finds and marks in two calls, so that two overlapping polls may
\* both find a command and be answered with it; the device, which has given up the
\* first of them, carries it out once at most, for any number of polls.
THEOREM CarriedOutOnceCorrect == Spec => []CarriedOutOnce
<1>1. TypeOK /\ Progress => CarriedOutOnce
  BY DEF TypeOK, Progress, CarriedOutOnce
<1>2. QED
  BY <1>1, TypeInit, TypeStep, ProgressInit, ProgressStep, PTL DEF Spec

-----------------------------------------------------------------------------
(* What is lost *)

\* Commands that nobody will carry out, and handlers that may still waste one.
Spent == {i \in DOMAIN commands :
              /\ commands[i].status = "consumed" /\ carried[i] = 0
              /\ ~(asked \in Poll /\ handler[asked].phase = "command"
                                  /\ handler[asked].row = i)}
Stray == {h \in Poll \ {asked} : handler[h].phase \in {"find", "save"}}

Budget == Cardinality(Spent) + Cardinality(Stray) =< lost

LEMMA SetsAreFinite == TypeOK => IsFiniteSet(Spent) /\ IsFiniteSet(Stray)
<1> SUFFICES ASSUME TypeOK PROVE IsFiniteSet(Spent) /\ IsFiniteSet(Stray)
  OBVIOUS
<1>1. DOMAIN commands = 1 .. Len(commands) /\ Len(commands) \in Nat
  BY DEF TypeOK
<1>2. IsFiniteSet(DOMAIN commands)
  BY <1>1, FS_Interval
<1>3. Spent \in SUBSET DOMAIN commands /\ Stray \in SUBSET Poll
  BY DEF Spent, Stray
<1>4. QED
  BY <1>2, <1>3, FS_Subset, PollAssumption

LEMMA NoLarger ==
    ASSUME NEW A, IsFiniteSet(A), NEW B, B \subseteq A
    PROVE  Cardinality(A) \in Nat /\ Cardinality(B) \in Nat
           /\ Cardinality(B) =< Cardinality(A)
BY FS_Subset, FS_CardinalityType

LEMMA OneLarger ==
    ASSUME NEW A, IsFiniteSet(A), NEW x, NEW B, B \subseteq A \cup {x}
    PROVE  Cardinality(A) \in Nat /\ Cardinality(B) \in Nat
           /\ Cardinality(B) =< Cardinality(A) + 1
<1>1. IsFiniteSet(A \cup {x}) /\ Cardinality(A) \in Nat
      /\ Cardinality(A \cup {x}) =< Cardinality(A) + 1
  <2>1. Cardinality(A) \in Nat
    BY FS_CardinalityType
  <2>2. /\ IsFiniteSet(A \cup {x})
        /\ Cardinality(A \cup {x}) =
               IF x \in A THEN Cardinality(A) ELSE Cardinality(A) + 1
    BY FS_AddElement
  <2>3. QED
    BY <2>1, <2>2
<1>2. QED
  BY <1>1, NoLarger

LEMMA OneSmaller ==
    ASSUME NEW A, IsFiniteSet(A), NEW x \in A, NEW B, B \subseteq A \ {x}
    PROVE  Cardinality(A) \in Nat /\ Cardinality(B) \in Nat
           /\ Cardinality(B) =< Cardinality(A) - 1
<1>1. IsFiniteSet(A \ {x}) /\ Cardinality(A) \in Nat
      /\ Cardinality(A \ {x}) = Cardinality(A) - 1
  BY FS_RemoveElement, FS_CardinalityType
<1>2. QED
  BY <1>1, NoLarger

LEMMA BudgetInit == Init => Budget
<1> SUFFICES ASSUME Init PROVE Budget
  OBVIOUS
<1>1. Spent = {} /\ Stray = {} /\ lost = 0
  BY DEF Init, Spent, Stray, Idle
<1>2. QED
  BY <1>1, FS_EmptySet DEF Budget

\* Most steps leave no new command behind and no new stray handler.
LEMMA BudgetKept ==
    ASSUME TypeOK, Budget, Spent' \subseteq Spent, Stray' \subseteq Stray, lost' = lost
    PROVE  Budget'
<1>1. /\ Cardinality(Spent) \in Nat /\ Cardinality(Spent') \in Nat
      /\ Cardinality(Spent') =< Cardinality(Spent)
  BY SetsAreFinite, NoLarger
<1>2. /\ Cardinality(Stray) \in Nat /\ Cardinality(Stray') \in Nat
      /\ Cardinality(Stray') =< Cardinality(Stray)
  BY SetsAreFinite, NoLarger
<1>3. lost \in Nat
  BY PollAssumption DEF TypeOK
<1>4. QED
  BY <1>1, <1>2, <1>3 DEF Budget

LEMMA BudgetAdmin ==
    ASSUME TypeOK, Budget,
           \/ \E action \in Action : SetPending(action)
           \/ ClearPending
           \/ \E i \in DOMAIN commands : Expire(i)
    PROVE  Budget'
<1>1. UNCHANGED <<handler, asked, lost>>
  BY DEF SetPending, ClearPending, Expire
<1>2. Stray' = Stray
  BY <1>1 DEF Stray
<1>3. /\ DOMAIN commands = 1 .. Len(commands) /\ Len(commands) \in Nat
      /\ commands \in Seq([action : Action, status : Status])
      /\ carried \in Seq(Nat) /\ Len(carried) = Len(commands)
  BY DEF TypeOK
<1>4. \A i \in DOMAIN commands' :
          commands'[i].status = "consumed"
              => i \in DOMAIN commands /\ commands'[i] = commands[i] /\ carried'[i] = carried[i]
  <2>1. ASSUME NEW action \in Action, SetPending(action), NEW i \in DOMAIN commands',
               commands'[i].status = "consumed"
        PROVE  i \in DOMAIN commands /\ commands'[i] = commands[i] /\ carried'[i] = carried[i]
    <3>1. DOMAIN commands' = 1 .. Len(commands) + 1
          /\ commands'[Len(commands) + 1].status = "pending"
      BY <1>3, <2>1 DEF SetPending
    <3>2. i \in 1 .. Len(commands)
      BY <1>3, <2>1, <3>1
    <3>3. QED
      BY <1>3, <2>1, <3>2 DEF SetPending
  <2>2. CASE ClearPending
    <3>1. \A i \in DOMAIN commands : commands[i] \in [action : Action, status : Status]
      BY <1>3, SeqMember
    <3>2. \A i \in DOMAIN commands' : commands'[i].status = "deleted"
      BY <2>2, <3>1 DEF ClearPending
    <3>3. QED
      BY <3>2
  <2>3. ASSUME NEW j \in DOMAIN commands, Expire(j), NEW i \in DOMAIN commands',
               commands'[i].status = "consumed"
        PROVE  i \in DOMAIN commands /\ commands'[i] = commands[i] /\ carried'[i] = carried[i]
    <3>1. commands[j] \in [action : Action, status : Status]
      BY <1>3, SeqMember
    <3>2. commands'[j].status = "expired" /\ DOMAIN commands' = DOMAIN commands
          /\ \A k \in DOMAIN commands \ {j} : commands'[k] = commands[k]
      BY <1>3, <2>3, <3>1 DEF Expire
    <3>3. UNCHANGED carried
      BY <2>3 DEF Expire
    <3>4. QED
      BY <2>3, <3>2, <3>3
  <2>4. QED
    BY <2>1, <2>2, <2>3
<1>5. Spent' \subseteq Spent
  BY <1>1, <1>4 DEF Spent
<1>6. QED
  BY <1>1, <1>2, <1>5, BudgetKept

LEMMA BudgetPoll ==
    ASSUME TypeOK, Budget, NEW h \in Poll, Ask(h) \/ Find(h) \/ Answer(h)
    PROVE  Budget'
<1>0. /\ handler \in [Poll -> [phase : {"idle", "find", "save", "none", "command"},
                               row : 0 .. MaxCommands]]
      /\ carried \in [DOMAIN commands -> Nat]
      /\ \A g \in Poll \ {h} : handler'[g] = handler[g]
      /\ UNCHANGED <<commands, lost>>
  BY DEF TypeOK, Ask, Find, Answer
<1>1. CASE Ask(h)
  <2>1. asked = None /\ asked' = h /\ asked \notin Poll /\ UNCHANGED carried
        /\ handler'[h].phase = "find" /\ handler'[h].row = handler[h].row
    BY <1>0, <1>1, PollAssumption DEF Ask
  <2>2. Spent' \subseteq Spent /\ Stray' \subseteq Stray
    BY <1>0, <2>1 DEF Spent, Stray
  <2>3. QED
    BY <1>0, <2>2, BudgetKept
<1>2. CASE Find(h)
  <2>1. handler[h].phase = "find" /\ handler'[h].phase \in {"save", "none"}
        /\ UNCHANGED <<asked, carried>>
    BY <1>0, <1>2 DEF Find
  <2>2. Spent' \subseteq Spent /\ Stray' \subseteq Stray
    BY <1>0, <2>1 DEF Spent, Stray
  <2>3. QED
    BY <1>0, <2>2, BudgetKept
<1>3. CASE Answer(h)
  <2>1. handler'[h].phase = "idle" /\ handler[h].phase \in {"none", "command"}
    BY <1>0, <1>3 DEF Answer, Idle
  <2>2. CASE asked = h /\ handler[h].phase = "command"
    <3>1. asked' = None /\ None \notin Poll
      BY <1>3, <2>2, PollAssumption DEF Answer
    <3>2. \A i \in DOMAIN commands : carried'[i] = 0 => carried[i] = 0 /\ i # handler[h].row
      BY <1>0, <1>3, <2>2 DEF Answer
    <3>3. Spent' \subseteq Spent /\ Stray' \subseteq Stray
      BY <1>0, <2>1, <2>2, <3>1, <3>2 DEF Spent, Stray
    <3>4. QED
      BY <1>0, <3>3, BudgetKept
  <2>3. CASE ~(asked = h /\ handler[h].phase = "command")
    <3>1. UNCHANGED carried /\ asked' = (IF asked = h THEN None ELSE asked)
          /\ None \notin Poll
      BY <1>3, <2>3, PollAssumption DEF Answer
    <3>2. Spent' \subseteq Spent /\ Stray' \subseteq Stray
      BY <1>0, <2>1, <2>3, <3>1 DEF Spent, Stray
    <3>3. QED
      BY <1>0, <3>2, BudgetKept
  <2>4. QED
    BY <2>2, <2>3
<1>4. QED
  BY <1>1, <1>2, <1>3

\* A stray handler that marks its command is stray no longer; the one the device
\* waits for takes its command along.
LEMMA BudgetSave ==
    ASSUME TypeOK, Progress, Budget, NEW h \in Poll, Save(h)
    PROVE  Budget'
<1> DEFINE i == handler[h].row
<1>0. /\ handler \in [Poll -> [phase : {"idle", "find", "save", "none", "command"},
                               row : 0 .. MaxCommands]]
      /\ \A g \in Poll \ {h} : handler'[g] = handler[g]
      /\ handler[h].phase = "save" /\ handler'[h].row = i
      /\ UNCHANGED <<asked, carried, lost>>
  BY DEF TypeOK, Save
<1>1. i \in DOMAIN commands /\ DOMAIN commands' = DOMAIN commands
      /\ \A j \in DOMAIN commands \ {i} : commands'[j] = commands[j]
  BY <1>0 DEF Save, Progress, Holds, TypeOK
<1>2. \/ handler'[h].phase = "none" /\ commands'[i].status = "deleted"
      \/ handler'[h].phase = "command"
  BY <1>0, <1>1 DEF Save
<1>3. CASE asked = h
  <2>1. Spent' \subseteq Spent /\ Stray' \subseteq Stray
    BY <1>0, <1>1, <1>2, <1>3 DEF Spent, Stray
  <2>2. QED
    BY <1>0, <2>1, BudgetKept
<1>4. CASE asked # h
  <2>1. Spent' \subseteq Spent \cup {i} /\ h \in Stray /\ Stray' \subseteq Stray \ {h}
    BY <1>0, <1>1, <1>2, <1>4 DEF Spent, Stray
  <2>2. /\ Cardinality(Spent) \in Nat /\ Cardinality(Spent') \in Nat
        /\ Cardinality(Spent') =< Cardinality(Spent) + 1
    BY <2>1, SetsAreFinite, OneLarger
  <2>3. /\ Cardinality(Stray) \in Nat /\ Cardinality(Stray') \in Nat
        /\ Cardinality(Stray') =< Cardinality(Stray) - 1
    BY <2>1, SetsAreFinite, OneSmaller
  <2>4. lost \in Nat
    BY PollAssumption DEF TypeOK
  <2>5. QED
    BY <1>0, <2>2, <2>3, <2>4 DEF Budget
<1>5. QED
  BY <1>3, <1>4

\* A poll that is given up leaves a stray handler or an answer nobody reads.
LEMMA BudgetGiveUp ==
    ASSUME TypeOK, Budget, GiveUp
    PROVE  Budget'
<1>1. /\ asked \in Poll /\ asked' = None /\ None \notin Poll
      /\ lost \in Nat /\ lost' = lost + 1
      /\ UNCHANGED <<commands, handler, carried>>
  BY PollAssumption DEF TypeOK, GiveUp
<1>2. CASE handler[asked].phase = "command"
  <2>1. Spent' \subseteq Spent \cup {handler[asked].row} /\ Stray' \subseteq Stray
    BY <1>1, <1>2 DEF Spent, Stray
  <2>2. /\ Cardinality(Spent) \in Nat /\ Cardinality(Spent') \in Nat
        /\ Cardinality(Spent') =< Cardinality(Spent) + 1
    BY <2>1, SetsAreFinite, OneLarger
  <2>3. /\ Cardinality(Stray) \in Nat /\ Cardinality(Stray') \in Nat
        /\ Cardinality(Stray') =< Cardinality(Stray)
    BY <2>1, SetsAreFinite, NoLarger
  <2>4. QED
    BY <1>1, <2>2, <2>3 DEF Budget
<1>3. CASE handler[asked].phase # "command"
  <2>1. Spent' \subseteq Spent /\ Stray' \subseteq Stray \cup {asked}
    BY <1>1, <1>3 DEF Spent, Stray
  <2>2. /\ Cardinality(Spent) \in Nat /\ Cardinality(Spent') \in Nat
        /\ Cardinality(Spent') =< Cardinality(Spent)
    BY <2>1, SetsAreFinite, NoLarger
  <2>3. /\ Cardinality(Stray) \in Nat /\ Cardinality(Stray') \in Nat
        /\ Cardinality(Stray') =< Cardinality(Stray) + 1
    BY <2>1, SetsAreFinite, OneLarger
  <2>4. QED
    BY <1>1, <2>2, <2>3 DEF Budget
<1>4. QED
  BY <1>2, <1>3

LEMMA BudgetStep == TypeOK /\ Progress /\ Budget /\ [Next]_vars => Budget'
<1> SUFFICES ASSUME TypeOK, Progress, Budget, [Next]_vars PROVE Budget'
  OBVIOUS
<1>1. CASE Admin \/ \E i \in DOMAIN commands : Expire(i)
  BY <1>1, BudgetAdmin DEF Admin
<1>2. ASSUME NEW h \in Poll, Ask(h) \/ Find(h) \/ Answer(h)
      PROVE  Budget'
  BY <1>2, BudgetPoll
<1>3. ASSUME NEW h \in Poll, Save(h)
      PROVE  Budget'
  BY <1>3, BudgetSave
<1>4. CASE GiveUp
  BY <1>4, BudgetGiveUp
<1>5. CASE UNCHANGED vars
  <2>1. Spent' = Spent /\ Stray' = Stray /\ lost' = lost
    BY <1>5 DEF vars, Spent, Stray
  <2>2. QED
    BY <2>1, BudgetKept
<1>6. QED
  BY <1>1, <1>2, <1>3, <1>4, <1>5 DEF Next, Handle

LEMMA BudgetMeans == TypeOK /\ Budget => LostOnlyWithPoll
<1> SUFFICES ASSUME TypeOK, Budget PROVE LostOnlyWithPoll
  OBVIOUS
<1> DEFINE Lost == {i \in DOMAIN commands :
                        /\ commands[i].status = "consumed" /\ carried[i] = 0
                        /\ \A h \in Poll : ~(asked = h /\ handler[h].row = i)}
<1>1. Lost \subseteq Spent
  BY DEF Spent
<1>2. /\ Cardinality(Spent) \in Nat /\ Cardinality(Lost) \in Nat
      /\ Cardinality(Lost) =< Cardinality(Spent)
  <2> HIDE DEF Lost
  <2>1. QED
    BY <1>1, SetsAreFinite, NoLarger
<1>3. Cardinality(Stray) \in Nat
  BY SetsAreFinite, FS_CardinalityType
<1>4. lost \in Nat
  BY PollAssumption DEF TypeOK
<1>5. Cardinality(Lost) =< lost
  <2> HIDE DEF Lost
  <2>1. QED
    BY <1>2, <1>3, <1>4 DEF Budget
<1>6. QED
  BY <1>5 DEF LostOnlyWithPoll

\* A command is lost only with a poll the device gave up, one for each at most,
\* although the mark comes before the answer (consumePending).
THEOREM LostOnlyWithPollCorrect == Spec => []LostOnlyWithPoll
BY TypeInit, TypeStep, ProgressInit, ProgressStep, BudgetInit, BudgetStep,
   BudgetMeans, PTL DEF Spec
=============================================================================
