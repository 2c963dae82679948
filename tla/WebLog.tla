------------------------------- MODULE WebLog -------------------------------
(***************************************************************************)
(* The web server's log: log() queues an entry for the printing thread or  *)
(* prints it, a file that is too large or whose time has come is moved to  *)
(* the backups, by whichever thread finds out.  A rename may fail and the  *)
(* program may be killed between two of them.                              *)
(***************************************************************************)
EXTENDS Naturals, Sequences, SequencesExt

CONSTANTS
  WlCallers,      \* threads that call log()
  WlConfigs,      \* records: see WlConfig
  WlMaxEntries,   \* bound: entries
  WlMaxFaults     \* bound: failing renames and kills

ASSUME WlAssumption ==
  /\ WlMaxEntries \in Nat /\ WlMaxFaults \in Nat /\ WlCallers \cap {"printer", "rotator"} = {}
  /\ WlConfigs \subseteq [threaded: BOOLEAN, onSize: BOOLEAN, onSchedule: BOOLEAN, atStart: BOOLEAN,
                          maxFile: Nat, backups: 0..3, queue: Nat]

VARIABLES
  wlConfig,       \* [threaded, onSize, onSchedule, atStart, maxFile, backups, queue], <<>> before
  wlRunning,      \* start() was called, nothing ended the program
  wlOpen,         \* m_logFileHandle.is_open()
  wlSize,         \* m_logCurrentSize
  wlFiles,        \* the files by number: 0 is the current one; NoLog or its entries
  wlQueue,        \* m_logQueue
  wlThread,       \* callers, the printing and the rotation thread: [at, entry, next]; start()
                  \* itself is the rotation thread with entry 1
  wlEntries,      \* entries so far
  wlWritten, wlSegments, wlAccepted, wlFaults  \* history: see the properties

wlVars == <<wlConfig, wlRunning, wlOpen, wlSize, wlFiles, wlQueue, wlThread, wlEntries,
            wlWritten, wlSegments, wlAccepted, wlFaults>>

NoLog == <<0>>   \* no entry is 0
WlThreads == WlCallers \cup {"printer", "rotator"}
WlIdle == [at |-> "idle", entry |-> 0, next |-> 0]

\* The backups a configuration may leave behind; one is made even when it asks for none.
WlLast == IF wlConfig.backups = 0 THEN 1 ELSE wlConfig.backups
WlContents(f) == IF f = NoLog THEN <<>> ELSE f

WlInit ==
  /\ wlConfig = <<>> /\ wlRunning = FALSE /\ wlOpen = FALSE /\ wlSize = 0
  /\ wlFiles = [n \in 0..3 |-> NoLog] /\ wlQueue = <<>>
  /\ wlThread = [t \in WlThreads |-> WlIdle] /\ wlEntries = 0
  /\ wlWritten = <<>> /\ wlSegments = <<>> /\ wlAccepted = <<>> /\ wlFaults = 0

WlAt(t, where) == wlThread[t].at = where
WlGoes(t, where) == wlThread' = [wlThread EXCEPT ![t].at = where]
\* m_logPrintMutex: printing is one step, a rotation has several.
WlLocked == \E t \in WlThreads : wlThread[t].at \in {"rename", "reopen"}

WlStarted == wlRunning /\ wlThread["rotator"].entry = 0

(***************************************************************************)
(* createWebLog and start().                                               *)
(***************************************************************************)
WlCreated(c) ==
  /\ wlConfig = <<>> /\ wlConfig' = c
  /\ UNCHANGED <<wlRunning, wlOpen, wlSize, wlFiles, wlQueue, wlThread, wlEntries, wlWritten,
                 wlSegments, wlAccepted, wlFaults>>

\* The file is opened to append; its size so far is not counted.  With the queue, the
\* rotation is checked at start; the size never asks for one here.
WlStart(matches) ==
  /\ wlConfig # <<>> /\ ~wlRunning
  /\ wlRunning' = TRUE /\ wlOpen' = TRUE /\ wlSize' = 0
  /\ wlFiles' = [wlFiles EXCEPT ![0] = WlContents(@)]
  /\ wlThread' = IF wlConfig.threaded /\ wlConfig.atStart /\ matches
                 THEN [wlThread EXCEPT !["rotator"] = [at |-> "rotate", entry |-> 1, next |-> 0]]
                 ELSE wlThread
  /\ wlAccepted' = wlWritten
  /\ UNCHANGED <<wlConfig, wlQueue, wlEntries, wlWritten, wlSegments, wlFaults>>

(***************************************************************************)
(* log().                                                                  *)
(***************************************************************************)
\* With the queue: push, which gives up when the queue stays full.
WlLogQueued ==
  /\ WlStarted /\ wlConfig.threaded /\ wlEntries < WlMaxEntries
  /\ wlEntries' = wlEntries + 1
  /\ \/ /\ Len(wlQueue) < wlConfig.queue
        /\ wlQueue' = Append(wlQueue, wlEntries + 1)
        /\ wlAccepted' = Append(wlAccepted, wlEntries + 1)
     \/ /\ Len(wlQueue) >= wlConfig.queue
        /\ UNCHANGED <<wlQueue, wlAccepted>>
  /\ UNCHANGED <<wlConfig, wlRunning, wlOpen, wlSize, wlFiles, wlThread, wlWritten, wlSegments,
                 wlFaults>>

WlLogDirect(t) ==
  /\ WlStarted /\ ~wlConfig.threaded /\ WlAt(t, "idle") /\ wlEntries < WlMaxEntries
  /\ wlEntries' = wlEntries + 1
  /\ wlThread' = [wlThread EXCEPT ![t] = [WlIdle EXCEPT !.at = "print", !.entry = wlEntries + 1]]
  /\ UNCHANGED <<wlConfig, wlRunning, wlOpen, wlSize, wlFiles, wlQueue, wlWritten, wlSegments,
                 wlAccepted, wlFaults>>

\* The printing thread.
WlPop ==
  /\ WlStarted /\ WlAt("printer", "idle") /\ wlQueue # <<>>
  /\ wlQueue' = Tail(wlQueue)
  /\ wlThread' = [wlThread EXCEPT !["printer"] = [WlIdle EXCEPT !.at = "print", !.entry = Head(wlQueue)]]
  /\ UNCHANGED <<wlConfig, wlRunning, wlOpen, wlSize, wlFiles, wlEntries, wlWritten, wlSegments,
                 wlAccepted, wlFaults>>

MayPrintUnlocked(t) == WlAt(t, "print")
MayPrint(t) == WlAt(t, "print") /\ ~WlLocked

\* printLogToFile: what is written to a closed stream is lost.
PrintLogToFile(t) ==
  /\ wlRunning /\ MayPrint(t)
  /\ wlFiles' = [wlFiles EXCEPT ![0] = IF wlOpen THEN Append(@, wlThread[t].entry) ELSE @]
  /\ wlWritten' = IF wlOpen THEN Append(wlWritten, wlThread[t].entry) ELSE wlWritten
  /\ wlSize' = wlSize + 1
  /\ WlGoes(t, "check")
  /\ UNCHANGED <<wlConfig, wlRunning, wlOpen, wlQueue, wlEntries, wlSegments, wlAccepted, wlFaults>>

\* checkAndExecuteSizeLogRotation, after the lock was released.
SizeAsksForRotation == wlConfig.onSize /\ wlConfig.maxFile > 0 /\ wlSize > wlConfig.maxFile /\ wlOpen

WlCheckSize(t) ==
  /\ wlRunning /\ WlAt(t, "check")
  /\ wlThread' = [wlThread EXCEPT ![t] = [WlIdle EXCEPT !.at = IF SizeAsksForRotation THEN "rotate" ELSE "idle"]]
  /\ UNCHANGED <<wlConfig, wlRunning, wlOpen, wlSize, wlFiles, wlQueue, wlEntries, wlWritten,
                 wlSegments, wlAccepted, wlFaults>>

\* The rotation thread, at a minute that matches the schedule.
WlScheduled ==
  /\ wlRunning /\ wlConfig.threaded /\ wlConfig.onSchedule /\ WlAt("rotator", "idle")
  /\ Len(wlSegments) < WlMaxEntries
  /\ WlGoes("rotator", "rotate")
  /\ UNCHANGED <<wlConfig, wlRunning, wlOpen, wlSize, wlFiles, wlQueue, wlEntries, wlWritten,
                 wlSegments, wlAccepted, wlFaults>>

(***************************************************************************)
(* forceLogRotation.                                                       *)
(***************************************************************************)
\* The lock is taken and the file closed.
RotateLock(t) ==
  /\ wlRunning /\ WlAt(t, "rotate") /\ ~WlLocked
  /\ wlOpen' = FALSE
  /\ wlThread' = [wlThread EXCEPT ![t].at = "rename", ![t].next = wlConfig.backups]
  /\ UNCHANGED <<wlConfig, wlRunning, wlSize, wlFiles, wlQueue, wlEntries, wlWritten, wlSegments,
                 wlAccepted, wlFaults>>

\* The file that is moved: the oldest backup first, the current file last.
Renamed(n) == IF n = 0 THEN 0 ELSE n - 1

\* One rename.  The backup .0 does not exist: the current file has no number.
RotateRename(t) ==
  LET n == wlThread[t].next
      from == Renamed(n)
      to == from + 1
      moves == ~(n > 0 /\ from = 0) /\ wlFiles[from] # NoLog
  IN /\ WlAt(t, "rename")
     /\ wlFiles' = IF moves THEN [wlFiles EXCEPT ![to] = wlFiles[from], ![from] = NoLog] ELSE wlFiles
     /\ wlSegments' = IF moves /\ from = 0 THEN Append(wlSegments, wlFiles[0]) ELSE wlSegments
     /\ wlThread' = [wlThread EXCEPT ![t].next = IF n = 0 THEN 0 ELSE n - 1,
                                     ![t].at = IF n = 0 THEN "reopen" ELSE "rename"]
     /\ UNCHANGED <<wlConfig, wlRunning, wlOpen, wlSize, wlQueue, wlEntries, wlWritten, wlAccepted,
                    wlFaults>>

RotateReopen(t) ==
  /\ WlAt(t, "reopen")
  /\ wlFiles' = [wlFiles EXCEPT ![0] = WlContents(@)]
  /\ wlOpen' = TRUE /\ wlSize' = 0
  /\ wlThread' = [wlThread EXCEPT ![t] = WlIdle]
  /\ UNCHANGED <<wlConfig, wlRunning, wlQueue, wlEntries, wlWritten, wlSegments, wlAccepted, wlFaults>>

\* A rename that fails, or the file that cannot be opened, throws: out of the thread's function
\* it ends the program, out of log() it leaves the file closed.
RotateThrows(t) ==
  /\ wlThread[t].at \in {"rename", "reopen"} /\ wlFaults < WlMaxFaults
  /\ wlFaults' = wlFaults + 1
  /\ wlThread' = IF t \in WlCallers THEN [wlThread EXCEPT ![t] = WlIdle] ELSE [u \in WlThreads |-> WlIdle]
  /\ wlRunning' = (t \in WlCallers)
  /\ wlQueue' = IF t \in WlCallers THEN wlQueue ELSE <<>>
  /\ wlSize' = IF WlAt(t, "reopen") THEN 0 ELSE wlSize
  /\ UNCHANGED <<wlConfig, wlOpen, wlFiles, wlEntries, wlWritten, wlSegments, wlAccepted>>

WlKilled ==
  /\ wlRunning /\ wlFaults < WlMaxFaults
  /\ wlFaults' = wlFaults + 1
  /\ wlRunning' = FALSE /\ wlOpen' = FALSE /\ wlQueue' = <<>>
  /\ wlThread' = [t \in WlThreads |-> WlIdle]
  /\ UNCHANGED <<wlConfig, wlSize, wlFiles, wlEntries, wlWritten, wlSegments, wlAccepted>>

WlNext ==
  \/ \E c \in WlConfigs : WlCreated(c)
  \/ \E matches \in BOOLEAN : WlStart(matches)
  \/ \E t \in WlCallers : WlLogDirect(t)
  \/ WlLogQueued \/ WlPop \/ WlScheduled \/ WlKilled
  \/ \E t \in WlThreads : \/ PrintLogToFile(t) \/ WlCheckSize(t) \/ RotateLock(t)
                          \/ RotateRename(t) \/ RotateReopen(t) \/ RotateThrows(t)

WlSpec == WlInit /\ [][WlNext]_wlVars

(***************************************************************************)
(* Properties.                                                             *)
(***************************************************************************)
\* Whatever was rotated, by whom, and wherever a rename failed or the program was killed:
\* the files from the oldest backup to the current one are the end of what was written, in
\* order and without a gap.
NothingInBetweenLost ==
  LET kept == WlContents(wlFiles[3]) \o WlContents(wlFiles[2]) \o WlContents(wlFiles[1])
                \o WlContents(wlFiles[0])
  IN IsSuffix(kept, wlWritten)

\* Without a fault, the backups are the last files that were rotated away: only the oldest is
\* ever overwritten.
BackupsAreTheLast ==
  wlConfig # <<>> /\ wlFaults = 0 /\ ~WlLocked =>
    \A n \in 1..WlLast :
      wlFiles[n] = IF n > Len(wlSegments) THEN NoLog ELSE wlSegments[Len(wlSegments) - n + 1]

\* An entry that the queue accepted is in the file, with the printing thread or still queued,
\* in the order of acceptance: a rotation never swallows one.
AcceptedIsWritten ==
  wlRunning /\ wlConfig.threaded =>
    wlAccepted = wlWritten \o (IF WlAt("printer", "print") THEN <<wlThread["printer"].entry>> ELSE <<>>)
                   \o wlQueue

\* A file that is too large is about to be rotated.
TooLargeIsRotated ==
  wlRunning /\ SizeAsksForRotation =>
    \E t \in WlThreads : wlThread[t].at \in {"check", "rotate"}

(* The web log: entries in order and complete through rotations, failures and kills; the last
   backups kept; no file left too large. *)
WebLogSound == NothingInBetweenLost /\ BackupsAreTheLast /\ AcceptedIsWritten /\ TooLargeIsRotated
=============================================================================
