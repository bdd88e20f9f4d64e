------------------------------ MODULE LogTail ------------------------------
(***************************************************************************)
(* internal/device/parser.go: the goroutine that tails Xray's access log,  *)
(* against an Xray that writes lines, sometimes in two pieces, and is told *)
(* to open its log again, and a log rotation that renames the file and     *)
(* creates another, or copies and truncates it.                            *)
(*                                                                         *)
(* Files are numbered as they are created: a number is an inode, which is  *)
(* not used again while the tail has the file open.  Lines are numbered as *)
(* they are written, and offsets count pieces of lines.  The first piece   *)
(* of a line holds the date and the address, the last one the uuid and the *)
(* newline; logEntryRe is anchored at the date.                            *)
(*                                                                         *)
(* MaxLines, MaxFiles, MaxTruncations and MaxCrashes bound the runs.       *)
(***************************************************************************)
EXTENDS Integers, Sequences, FiniteSets

CONSTANTS
  Capacity,    \* of the channel of events
  Faults,      \* subset of {"io", "rerotated"}, see below
  MaxLines,
  MaxFiles,
  MaxTruncations,
  MaxCrashes

(* What may go wrong: a read fails ("io"); the log is rotated once more
   between the Stat and the Open of the tail ("rerotated"). *)
ASSUME TailAssumption ==
  /\ Capacity \in Nat \ {0}
  /\ Faults \subseteq {"io", "rerotated"}
  /\ MaxLines \in Nat
  /\ MaxFiles \in Nat \ {0}
  /\ MaxTruncations \in Nat
  /\ MaxCrashes \in Nat

VARIABLES
  path,      \* the file at AccessLogPath, NoFile between a rename and a create
  created,   \* the number of the newest file
  content,   \* the pieces in each file
  xray,      \* the file Xray has open
  written,   \* the number of the newest line
  torn,      \* whether only the first piece of that line is written
  pc,        \* the tail: where it is
  file,      \* the tail: f, NoFile when closed
  inode,     \* the tail: the variable inode
  pos,       \* the tail: the offset of f
  buffer,    \* the tail: pieces that r has read and not returned
  event,     \* the tail: the event it is sending
  queued,    \* events in the channel
  emitted,   \* history: the events sent
  start,     \* history: the offset at which f was opened or rewound
  shrunk,    \* history: f was truncated below pos, and the tail has not noticed
  joints,    \* history: the places in buffer at which f was truncated
  cuts,      \* history: how often f was truncated while buffer held pieces of it
  truncations, \* how many so far
  crashes      \* how many so far

logVars == <<path, created, content, xray, written, torn>>
tailVars == <<pc, file, inode, pos, buffer, event>>
historyVars == <<emitted, start, shrunk, joints, cuts>>
bounds == <<truncations, crashes>>
vars == <<logVars, tailVars, queued, historyVars, bounds>>

NoFile == 0
File == 1 .. MaxFiles

Piece == [line : 1 .. MaxLines, part : {"whole", "first", "last"}]

(* A connection, by the lines its address and its uuid were taken from. *)
Event == [ip : 1 .. MaxLines, uuid : 1 .. MaxLines]

NoEvent == [ip |-> 0, uuid |-> 0]

Size(f) == Len(content[f])

Init ==
  /\ path = 1
  /\ created = 1
  /\ content = [f \in File |-> <<>>]
  /\ xray = 1
  /\ written = 0
  /\ torn = FALSE
  /\ pc = "closed"
  /\ file = NoFile
  /\ inode = NoFile
  /\ pos = 0
  /\ buffer = <<>>
  /\ event = NoEvent
  /\ queued = 0
  /\ emitted = <<>>
  /\ start = 0
  /\ shrunk = FALSE
  /\ joints = {}
  /\ cuts = 0
  /\ truncations = 0
  /\ crashes = 0

-----------------------------------------------------------------------------
(* Xray and the log rotation *)

Put(line, part) ==
  /\ content' = [content EXCEPT ![xray] = Append(@, [line |-> line, part |-> part])]
  /\ UNCHANGED <<path, created, xray, tailVars, queued, historyVars, bounds>>

WriteLine ==
  /\ ~torn
  /\ written < MaxLines
  /\ written' = written + 1
  /\ \/ Put(written', "whole") /\ UNCHANGED torn
     \/ Put(written', "first") /\ torn' = TRUE

FinishLine ==
  /\ torn
  /\ torn' = FALSE
  /\ Put(written, "last")
  /\ UNCHANGED written

(* A new file appears at the path. *)
Create ==
  /\ path = NoFile
  /\ created < MaxFiles
  /\ pc = "reopen" => "rerotated" \in Faults
  /\ created' = created + 1
  /\ path' = created'

(* Xray is restarted, or told to open its log again. *)
ReopenLog ==
  /\ ~torn
  /\ \/ path # NoFile /\ xray # path /\ xray' = path /\ UNCHANGED <<path, created>>
     \/ Create /\ xray' = path'
  /\ UNCHANGED <<content, written, torn, tailVars, queued, historyVars, bounds>>

(* The bound on files: one is renamed only if another can be created. *)
RenameLog ==
  /\ path # NoFile
  /\ created < MaxFiles
  /\ path' = NoFile
  /\ UNCHANGED <<created, content, xray, written, torn, tailVars, queued,
                 historyVars, bounds>>

CreateLog ==
  /\ Create
  /\ UNCHANGED <<content, xray, written, torn, tailVars, queued, historyVars, bounds>>

CopyTruncate ==
  /\ path # NoFile
  /\ Size(path) > 0
  /\ truncations < MaxTruncations
  /\ truncations' = truncations + 1
  /\ content' = [content EXCEPT ![path] = <<>>]
  /\ shrunk' = (shrunk \/ (path = file /\ pos > 0))
  /\ IF path = file /\ buffer # <<>>
     THEN joints' = joints \cup {Len(buffer)} /\ cuts' = cuts + 1
     ELSE UNCHANGED <<joints, cuts>>
  /\ UNCHANGED <<path, created, xray, written, torn, tailVars, queued, emitted,
                 start, crashes>>

LogStep == WriteLine \/ FinishLine \/ ReopenLog \/ RenameLog \/ CreateLog \/ CopyTruncate

-----------------------------------------------------------------------------
(* runOnce *)

(* A newline has been read. *)
HasLine == \E i \in DOMAIN buffer : buffer[i].part # "first"

(* The next line ends with the n-th piece in the buffer. *)
EndsLine(n) ==
  /\ buffer[n].part # "first"
  /\ \A i \in 1 .. n - 1 : buffer[i].part = "first"

(* Deliberately wrong: a restarted tail begins with what is there already. *)
OpenAtEnd_FromStart ==
  /\ pc = "closed"
  /\ path # NoFile
  /\ file' = path
  /\ inode' = path
  /\ pos' = 0
  /\ start' = pos'
  /\ pc' = "read"
  /\ UNCHANGED <<logVars, buffer, event, queued, emitted, shrunk, joints, cuts, bounds>>

(* Open, Stat and Seek to the end; without a file runOnce returns the error
   and is called again a second later. *)
OpenAtEnd ==
  /\ pc = "closed"
  /\ path # NoFile
  /\ file' = path
  /\ inode' = path
  /\ pos' = Size(path)
  /\ start' = pos'
  /\ pc' = "read"
  /\ UNCHANGED <<logVars, buffer, event, queued, emitted, shrunk, joints, cuts, bounds>>

(* runOnce returns: to be called again, or by an exit of the process. *)
Close ==
  /\ pc' = "closed"
  /\ file' = NoFile
  /\ inode' = NoFile
  /\ pos' = 0
  /\ buffer' = <<>>
  /\ event' = NoEvent
  /\ start' = 0
  /\ shrunk' = FALSE
  /\ joints' = {}
  /\ cuts' = cuts

(* ReadString finds a newline: the pieces up to it are parsed, and dropped
   unless they begin with a date. *)
ReturnLine ==
  /\ pc = "read"
  /\ \E n \in DOMAIN buffer :
       /\ EndsLine(n)
       /\ buffer' = SubSeq(buffer, n + 1, Len(buffer))
       /\ joints' = {j - n : j \in {k \in joints : k > n}}
       /\ IF buffer[1].part = "last"
          THEN UNCHANGED <<pc, event>>
          ELSE /\ event' = [ip |-> buffer[1].line, uuid |-> buffer[n].line]
               /\ pc' = "send"
  /\ UNCHANGED <<logVars, file, inode, pos, queued, emitted, start, shrunk, cuts, bounds>>

(* ReadString finds none and reads on, at most a buffer at a time. *)
FillBuffer ==
  /\ pc = "read"
  /\ ~HasLine
  /\ \E n \in pos + 1 .. Size(file) :
       /\ buffer' = buffer \o SubSeq(content[file], pos + 1, n)
       /\ pos' = n
  /\ UNCHANGED <<logVars, pc, file, inode, event, queued, historyVars, bounds>>

(* Deliberately wrong: the beginning of a line is kept for the next read. *)
ReachEnd_KeepsPiece ==
  /\ pc = "read"
  /\ ~HasLine
  /\ pos >= Size(file)
  /\ pc' = "eof"
  /\ UNCHANGED <<logVars, file, inode, pos, buffer, event, queued, historyVars, bounds>>

(* io.EOF: the beginning of a line that ReadString returns with it is lost. *)
ReachEnd ==
  /\ pc = "read"
  /\ ~HasLine
  /\ pos >= Size(file)
  /\ buffer' = <<>>
  /\ joints' = {}
  /\ pc' = "eof"
  /\ UNCHANGED <<logVars, file, inode, pos, event, queued, emitted, start, shrunk, cuts, bounds>>

ReadFails ==
  /\ "io" \in Faults
  /\ pc = "read"
  /\ ~HasLine
  /\ Close
  /\ UNCHANGED <<logVars, queued, emitted, bounds>>

(* Deliberately wrong: only a new file is looked for. *)
CheckSize_RotationOnly ==
  /\ pc = "eof"
  /\ pc' = "stat"
  /\ UNCHANGED <<logVars, file, inode, pos, buffer, event, queued, historyVars, bounds>>

(* f.Stat: a file that is shorter than the offset is read from its beginning;
   one that was truncated and has grown past it by now is not noticed.  The
   buffer is empty, so a new reader is the same as the old one. *)
CheckSize ==
  /\ pc = "eof"
  /\ IF Size(file) < pos
     THEN pos' = 0 /\ start' = 0 /\ pc' = "read" /\ shrunk' = FALSE
     ELSE pc' = "stat" /\ UNCHANGED <<pos, start, shrunk>>
  /\ UNCHANGED <<logVars, file, inode, buffer, event, queued, emitted, joints, cuts, bounds>>

(* checkRotation: os.Stat of the path; an error counts as no rotation. *)
CheckRotation ==
  /\ pc = "stat"
  /\ IF path \in {NoFile, inode}
     THEN pc' = "read" /\ UNCHANGED inode
     ELSE pc' = "reopen" /\ inode' = path
  /\ UNCHANGED <<logVars, file, pos, buffer, event, queued, historyVars, bounds>>

(* Deliberately wrong: begins at the end of the new file, as runOnce does. *)
Reopen_AtEnd ==
  /\ pc = "reopen"
  /\ \/ /\ path # NoFile
        /\ file' = path
        /\ pos' = Size(path)
        /\ start' = 0
        /\ shrunk' = FALSE
        /\ pc' = "read"
        /\ UNCHANGED <<inode, buffer, event, joints, cuts>>
     \/ path = NoFile /\ Close
  /\ UNCHANGED <<logVars, queued, emitted, bounds>>

(* Deliberately wrong: the offset in the old file is kept. *)
Reopen_KeepsOffset ==
  /\ pc = "reopen"
  /\ \/ /\ path # NoFile
        /\ file' = path
        /\ start' = 0
        /\ shrunk' = FALSE
        /\ pc' = "read"
        /\ UNCHANGED <<inode, pos, buffer, event, joints, cuts>>
     \/ path = NoFile /\ Close
  /\ UNCHANGED <<logVars, queued, emitted, bounds>>

(* The file that is at the path by now is read from its beginning; if there
   is none, runOnce returns. *)
Reopen ==
  /\ pc = "reopen"
  /\ \/ /\ path # NoFile
        /\ file' = path
        /\ pos' = 0
        /\ start' = 0
        /\ shrunk' = FALSE
        /\ pc' = "read"
        /\ UNCHANGED <<inode, buffer, event, joints, cuts>>
     \/ path = NoFile /\ Close
  /\ UNCHANGED <<logVars, queued, emitted, bounds>>

(* A full channel makes the tail wait. *)
Send ==
  /\ pc = "send"
  /\ queued < Capacity
  /\ queued' = queued + 1
  /\ emitted' = Append(emitted, event)
  /\ event' = NoEvent
  /\ pc' = "read"
  /\ UNCHANGED <<logVars, file, inode, pos, buffer, start, shrunk, joints, cuts, bounds>>

TailStep ==
  \/ OpenAtEnd \/ ReturnLine \/ FillBuffer \/ ReachEnd \/ ReadFails
  \/ CheckSize \/ CheckRotation \/ Reopen \/ Send

-----------------------------------------------------------------------------

(* runProcessor *)
TakeEvent ==
  /\ queued > 0
  /\ queued' = queued - 1
  /\ UNCHANGED <<logVars, tailVars, historyVars, bounds>>

(* Crash and restart of the process: the channel is lost. *)
Crash ==
  /\ crashes < MaxCrashes
  /\ crashes' = crashes + 1
  /\ Close
  /\ queued' = 0
  /\ UNCHANGED <<logVars, emitted, truncations>>

Next == LogStep \/ TailStep \/ TakeEvent \/ Crash

Spec == Init /\ [][Next]_vars

(* The tail runs, its reads return and do not fail for ever, and the events
   are taken.  Xray and the log rotation owe nothing. *)
Fairness ==
  /\ WF_vars(TailStep)
  /\ SF_vars(ReachEnd)
  /\ WF_vars(TakeEvent)

FairSpec == Spec /\ Fairness

-----------------------------------------------------------------------------

(* The tail is at the end of what it has read, or before it; only a file that
   was truncated is shorter than that. *)
TypeOK ==
  /\ path \in File \cup {NoFile}
  /\ created \in File
  /\ content \in [File -> Seq(Piece)]
  /\ xray \in File
  /\ written \in 0 .. MaxLines
  /\ torn \in BOOLEAN
  /\ torn => written > 0
  /\ pc \in {"closed", "read", "eof", "stat", "reopen", "send"}
  /\ file \in File \cup {NoFile}
  /\ inode \in File \cup {NoFile}
  /\ pc = "closed" <=> file = NoFile
  /\ pos \in Nat
  /\ file # NoFile /\ ~shrunk => pos <= Size(file)
  /\ buffer \in Seq(Piece)
  /\ event \in Event \cup {NoEvent}
  /\ event = NoEvent <=> pc # "send"
  /\ queued \in 0 .. Capacity
  /\ emitted \in Seq(Event)
  /\ start \in Nat
  /\ shrunk \in BOOLEAN
  /\ joints \subseteq 1 .. Len(buffer)
  /\ cuts \in Nat
  /\ truncations \in Nat
  /\ crashes \in Nat

(***************************************************************************)
(* Through rotations, truncations, failed reads and restarts, no line of   *)
(* the log is emitted twice, and none after a later one: runOnce begins at *)
(* the end of the file when it cannot know what was read, and only at the  *)
(* start of one it has never read from.  A log that is rotated once more   *)
(* between the Stat and the Open of the tail is left out: the newer file   *)
(* is then read under the older inode, and once more from its beginning.   *)
(***************************************************************************)
EmittedInOrder ==
  \A i, j \in DOMAIN emitted : i < j => emitted[i].uuid < emitted[j].uuid

Joined(e) == e.ip # e.uuid

(***************************************************************************)
(* An event is one line of the log: a line that is only partly written, or *)
(* partly read, does not give its address to the uuid of another.  Nothing *)
(* in the code notices that a file was truncated and has grown past the    *)
(* offset again, so a line whose beginning the reader held meanwhile does; *)
(* each truncation at such a moment spoils one event at most, and nothing  *)
(* else spoils any.                                                        *)
(***************************************************************************)
EmittedAreLines ==
  Cardinality({i \in DOMAIN emitted : Joined(emitted[i])})
    + (IF Joined(event) THEN 1 ELSE 0) <= cuts

Emitted(line) == \E i \in DOMAIN emitted : emitted[i].uuid = line

(***************************************************************************)
(* Every line that was written in one piece and that the tail has consumed *)
(* from the open file, since it opened or rewound it, is emitted or about  *)
(* to be: a half-written line beside it does not take it along, and a new  *)
(* or rewound file is consumed from its first line.  The lines of a file   *)
(* that the tail leaves are not meant: what is appended to a renamed file  *)
(* after the last read, or truncated before it, and what is there before   *)
(* runOnce begins again at the end, is never read.                         *)
(***************************************************************************)
PassedIsEmitted ==
  file # NoFile /\ ~shrunk =>
    \A i \in start + 1 .. pos - Len(buffer) :
      content[file][i].part = "whole" =>
        Emitted(content[file][i].line) \/ event.uuid = content[file][i].line

AtEnd == file = path /\ pos = Size(path) /\ ~HasLine

(***************************************************************************)
(* When Xray writes no more, the tail comes to the end of the file at the  *)
(* path, again and again if reads fail: no rotation, truncation, missing   *)
(* file or full channel leaves it behind, or in a file nobody writes.      *)
(***************************************************************************)
CatchesUp == []<>(path # NoFile => AtEnd)
=============================================================================
