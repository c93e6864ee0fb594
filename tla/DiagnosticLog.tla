---------------------------- MODULE DiagnosticLog ----------------------------
(***************************************************************************)
(* The controller's diagnostic log (src/firmware/src/util/DiagnosticLog):  *)
(* a ring of entries in RAM which every change copies to flash, as a count *)
(* and, in a second write, the entries; the upload after a reconnect in    *)
(* main.ino, which removes a batch once it is published; the backend, which*)
(* stores a document per batch (handleDiagnosticsMessage); and resets of   *)
(* the controller between any two of these steps.  publish() names no QoS, *)
(* and the modem's library takes that for 0: a message arrives once or not *)
(* at all.                                                                 *)
(*                                                                         *)
(* The entries are numbered in the order of append().  Junk stands for     *)
(* the contents of memory that was never written.  What an entry says is   *)
(* left out.  bootSessionId, which is drawn once per boot, is the number   *)
(* of the boot: two boots are taken never to draw the same.                *)
(***************************************************************************)
EXTENDS Integers, Sequences

CONSTANTS
    MaxEntries,         \* DIAGNOSTIC_LOG_MAX_ENTRIES
    BatchSize,          \* batchSize of the upload
    MaxLogged,          \* bound: entries ever appended
    MaxBoots            \* bound: resets

ASSUME LogAssumption ==
    /\ MaxEntries \in Nat \ {0} /\ BatchSize \in Nat \ {0}
    /\ MaxLogged \in Nat /\ MaxBoots \in Nat

VARIABLES
    entries, head, count,       \* entries_, head_, count_
    nvsCount, nvsData,          \* the two keys in flash
    saving,             \* save() is between its two writes
    uploading,          \* the while loop of STATE_MQTT_CONNECTING
    sent,               \* batches with the broker, or awaiting the database; two
                        \* equal ones, of an upload tried again, count as one
    stored,             \* <<session, entry>> in DeviceDiagnosticLog documents
    (* history *)
    logged,             \* entries appended
    published,          \* entries in batches that publish() accepted
    unsure,             \* <<session, entry>> sent although publish() said FALSE
    overrun,            \* append() has written behind the array
    boots

ramVars == <<entries, head, count>>
flashVars == <<nvsCount, nvsData>>
intakeVars == <<sent, stored>>
historyVars == <<logged, published, unsure, overrun, boots>>
vars == <<ramVars, flashVars, saving, uploading, intakeVars, historyVars>>

Junk == 0
Slot == 0 .. MaxEntries - 1
Entry == Junk .. MaxLogged
Blank == [s \in Slot |-> Junk]

\* Mutant of Position: the ring is taken to start at the first slot.
PositionFromZero(h, c, i) == i - 1

\* Where getEntry() and save() find the i-th oldest of c entries before h.
Position(h, c, i) == (h + MaxEntries - c + (i - 1)) % MaxEntries

\* All of getEntry(), oldest first.
Window(e, h, c) == [i \in 1 .. c |-> e[Position(h, c, i)]]
Contents == Window(entries, head, count)

Members(s) == {s[i] : i \in DOMAIN s} \ {Junk}

\* The buffer that load() fills, when the flash holds n and data.  getBytes()
\* copies nothing if the data do not fit into n entries.
Loaded(n, data) ==
    [i \in 1 .. n |-> IF Len(data) =< n /\ i =< Len(data) THEN data[i] ELSE Junk]

-----------------------------------------------------------------------------
(* save() *)

\* Of a log of c entries: the count is written, or prefs.begin() fails.
SaveCount(c) ==
    \/ nvsCount' = c /\ saving' = (c > 0) /\ UNCHANGED nvsData
    \/ saving' = FALSE /\ UNCHANGED flashVars

\* Mutant of SaveData: the slots are written as they are.
SaveSlots ==
    /\ saving /\ saving' = FALSE
    /\ nvsData' = [i \in 1 .. count |-> entries[i - 1]] \/ UNCHANGED nvsData
    /\ UNCHANGED <<ramVars, nvsCount, uploading, intakeVars, historyVars>>

\* The entries are written, or putBytes() fails.
SaveData ==
    /\ saving /\ saving' = FALSE
    /\ nvsData' = Contents \/ UNCHANGED nvsData
    /\ UNCHANGED <<ramVars, nvsCount, uploading, intakeVars, historyVars>>

-----------------------------------------------------------------------------
(* append() *)

\* Mutant of Grown: the count does not stop at the size of the ring.
GrownFurther == count + 1

Grown == IF count < MaxEntries THEN count + 1 ELSE count

Write ==
    /\ head < MaxEntries
    /\ entries' = [entries EXCEPT ![head] = logged + 1]
    /\ head' = (head + 1) % MaxEntries
    /\ UNCHANGED overrun

\* load() has left head_ = MaxEntries: the entry goes behind the array, over head_
\* itself among others, and the next head_ is whatever the build makes of it.
WriteBehind ==
    /\ head = MaxEntries
    /\ head' \in Slot
    /\ overrun' = TRUE
    /\ UNCHANGED entries

AppendEntry ==
    /\ ~saving /\ logged < MaxLogged
    /\ Write \/ WriteBehind
    /\ count' = Grown
    /\ logged' = logged + 1
    /\ SaveCount(Grown)
    /\ UNCHANGED <<published, unsure, intakeVars, boots>>

\* Any event of loop() and of applyOobAction().
LogEvent == ~uploading /\ AppendEntry /\ UNCHANGED uploading

\* connect() succeeds: connection_restored is logged, and the upload begins.
Reconnect == ~uploading /\ AppendEntry /\ uploading' = TRUE

-----------------------------------------------------------------------------
(* The upload *)

Smaller(a, b) == IF a =< b THEN a ELSE b
BatchLength == Smaller(BatchSize, count)

\* Mutant of RemoveFirst: head_ is moved back, over the newest entries.
RemoveLast(n) ==
    /\ count' = count - n /\ head' = (head + MaxEntries - n) % MaxEntries
    /\ UNCHANGED entries
    /\ SaveCount(count - n)

\* Mutant of RemoveFirst: one entry of the batch stays.
RemoveFewer(n) ==
    /\ count' = count - n + 1 /\ UNCHANGED <<entries, head>>
    /\ SaveCount(count - n + 1)

\* removeFirst(n), which is clear() when nothing is left.
RemoveFirst(n) ==
    /\ IF n >= count
       THEN count' = 0 /\ head' = 0 /\ entries' = Blank
       ELSE count' = count - n /\ UNCHANGED <<entries, head>>
    /\ SaveCount(IF n >= count THEN 0 ELSE count - n)

\* The entries of the next message, and the message: with the session of this boot.
NextBatch == SubSeq(Contents, 1, BatchLength)
Message == [session |-> boots, entries |-> Members(NextBatch)]

\* publish() returns TRUE.
PublishBatch ==
    /\ uploading /\ ~saving /\ count > 0
    /\ published' = published \cup Members(NextBatch)
    /\ sent' = sent \cup {Message}
    /\ RemoveFirst(BatchLength)
    /\ UNCHANGED <<uploading, stored, logged, unsure, overrun, boots>>

\* publish() returns FALSE, although the message may have got out: the entries stay
\* for the next upload.
PublishFails ==
    /\ uploading /\ ~saving /\ count > 0
    /\ uploading' = FALSE
    /\ \/ UNCHANGED <<sent, unsure>>
       \/ /\ sent' = sent \cup {Message}
          /\ unsure' = unsure \cup {<<boots, e>> : e \in Members(NextBatch)}
    /\ UNCHANGED <<ramVars, flashVars, saving, stored, logged, published, overrun,
                   boots>>

\* Nothing is left.
EndUpload ==
    /\ uploading /\ ~saving /\ count = 0
    /\ uploading' = FALSE
    /\ UNCHANGED <<ramVars, flashVars, saving, intakeVars, historyVars>>

-----------------------------------------------------------------------------
(* handleDiagnosticsMessage *)

\* The handlers of two batches may overlap, and end in either order.
StoreBatch(b) ==
    /\ sent' = sent \ {b}
    /\ stored' = stored \cup {<<b.session, e>> : e \in b.entries}
    /\ UNCHANGED <<ramVars, flashVars, saving, uploading, historyVars>>

\* The message is lost, or create() fails, which is only logged.
LoseBatch(b) ==
    /\ sent' = sent \ {b}
    /\ UNCHANGED <<ramVars, flashVars, saving, uploading, stored, historyVars>>

-----------------------------------------------------------------------------
(* The constructor *)

\* load(): the ring is zeroed and filled from the flash, unless prefs.begin() fails.
\* The log is a global: where its constructor runs before the flash is initialised
\* (it does on the ESP32), begin() always fails and the log starts empty.
Load ==
    \/ /\ count' = Smaller(nvsCount, MaxEntries)
       /\ entries' = [s \in Slot |-> IF s < count'
                                     THEN Loaded(count', nvsData)[s + 1] ELSE Junk]
       /\ head' = count'
    \/ count' = 0 /\ head' = 0 /\ entries' = Blank

Boot ==
    /\ boots < MaxBoots /\ boots' = boots + 1
    /\ Load
    /\ saving' = FALSE /\ uploading' = FALSE
    /\ UNCHANGED <<flashVars, intakeVars, logged, published, unsure, overrun>>

\* An empty flash has no key: the count reads as its default, 0.
Init ==
    /\ entries = Blank /\ head = 0 /\ count = 0
    /\ nvsCount = 0 /\ nvsData = <<>>
    /\ saving = FALSE /\ uploading = FALSE
    /\ logged = 0 /\ published = {} /\ unsure = {}
    /\ overrun = FALSE /\ boots = 0 /\ sent = {} /\ stored = {}

Next ==
    \/ SaveData \/ LogEvent \/ Reconnect
    \/ PublishBatch \/ PublishFails \/ EndUpload \/ Boot
    \/ \E b \in sent : StoreBatch(b) \/ LoseBatch(b)

Spec == Init /\ [][Next]_vars

-----------------------------------------------------------------------------
(* Properties *)

TypeOK ==
    /\ entries \in [Slot -> Entry]
    /\ head \in 0 .. MaxEntries /\ count \in 0 .. MaxEntries
    /\ nvsCount \in 0 .. MaxEntries /\ nvsData \in Seq(Entry)
    /\ {saving, uploading, overrun} \subseteq BOOLEAN
    /\ logged \in 0 .. MaxLogged /\ boots \in 0 .. MaxBoots
    /\ sent \subseteq [session : 0 .. MaxBoots, entries : SUBSET (1 .. MaxLogged)]
    /\ stored \cup unsure \subseteq (0 .. MaxBoots) \X (1 .. MaxLogged)
    /\ published \subseteq 1 .. MaxLogged

\* getEntry() shows the entries in the order of their appends, whatever has been
\* overwritten, uploaded, saved and loaded: only a write behind the array, after
\* which head_ is anything, breaks the order.
OldestFirst ==
    ~overrun =>
        \A i, j \in 1 .. count :
            i < j /\ Contents[i] # Junk /\ Contents[j] # Junk
                => Contents[i] < Contents[j]

\* The new entry is added behind the others; in a full log the oldest one goes.
AppendedTo(log, new) == Append(IF count = MaxEntries THEN Tail(log) ELSE log, new)

\* The n oldest entries have been published, and are gone.
RemovedFrom(log, n) ==
    /\ Contents' = SubSeq(log, n + 1, count)
    /\ Members(SubSeq(log, 1, n)) \subseteq published'

\* Within one boot the log is the queue that DiagnosticLog.h describes ("overwrites
\* oldest when full", "remove the first n entries, e.g. after uploading a batch"),
\* wherever the ring starts: each step leaves getEntry()'s view alone, appends the
\* event that is logged, or removes entries that publish() has accepted, the oldest
\* first.  The one exception is the write behind the array, which a full log that
\* was reloaded leads to, and what follows it.
LogIsAQueue ==
    [][~overrun' =>
          \/ boots' # boots
          \/ logged' = logged /\ Contents' = Contents
          \/ logged' = logged + 1 /\ Contents' = AppendedTo(Contents, logged')
          \/ logged' = logged /\ \E n \in 1 .. count : RemovedFrom(Contents, n)]_vars

\* What is stored twice, because a reset came between the publication of a batch
\* and its removal from the flash, is stored under two sessions ("boot id for
\* correlating batches", mqtt-protocol.md): within one, a batch on its way has no
\* entry that is stored already, or that another batch has.  The one exception is
\* an entry that was sent although publish() said FALSE: it is uploaded again in
\* the same session, and may be stored twice.
StoredOncePerSession ==
    ~overrun =>
        \A b \in sent : \A e \in b.entries :
            <<b.session, e>> \notin unsure =>
                /\ <<b.session, e>> \notin stored
                /\ \A c \in sent : c.session = b.session /\ e \in c.entries => c = b
=============================================================================
