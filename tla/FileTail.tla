------------------------------- MODULE FileTail -------------------------------
(***************************************************************************)
(* The tail of src/source/file.rs on a file that is appended to, truncated,*)
(* renamed, removed, created again and touched while it is read.           *)
(*                                                                         *)
(* A file is a sequence of pieces of lines.  Pieces are numbered in the    *)
(* order in which they are written, two to a line: an even one ends its    *)
(* line.  Files are numbered as they are created, so a number is an inode. *)
(* A step of the reader is what it does between two of its awaits.         *)
(***************************************************************************)
EXTENDS Naturals, Sequences

CONSTANTS
  MaxWritten,   \* bound: pieces written
  MaxChanges,   \* bound: changes of the file other than appending
  Changes       \* the changes that happen, and "read_error"

ASSUME FileTailAssumption ==
  /\ MaxWritten \in Nat
  /\ MaxChanges \in Nat
  /\ Changes \subseteq
       {"truncate", "rename", "unlink", "create", "touch", "read_error"}

VARIABLES
  files,     \* inode -> its content
  path,      \* the inode the path leads to, or NoFile
  writer,    \* the inode the logging process has open
  written,   \* the pieces written so far are 1..written
  changes,   \* changes so far
  reader,    \* the reader and where it is in the loop of stream
  inotify,   \* the inode it watches and the kinds of events pending
  seen,      \* history: pieces delivered
  again,     \* history: pieces delivered more than once
  misled,    \* history: rewound because of the length of another file
  start      \* history: position from which every piece is delivered

vars == <<files, path, writer, written, changes, reader, inotify, seen,
          again, misled, start>>
world == <<files, path, writer, written, changes>>
history == <<seen, again, misled, start>>

NoFile == 0
Nowhere == MaxWritten + 1     \* no position: truncated under the reader

Log == INSTANCE LogTail
  WITH written <- written, seen <- seen, again <- again, misled <- misled

NoReader == [pc |-> "open", inode |-> NoFile, pos |-> 0, buf |-> <<>>]
NoWatch == [inode |-> NoFile, events |-> {}]

Init ==
  /\ files = << <<>> >>
  /\ path = 1
  /\ writer = 1
  /\ changes = 0
  /\ reader = NoReader
  /\ inotify = NoWatch
  /\ start = Nowhere
  /\ Log!Init

-----------------------------------------------------------------------------
(* The world: the logging process, and whoever rotates its log.            *)

(* An event on an inode reaches whoever watches it.  Only the kind of a    *)
(* pending event matters: all are read at once.                            *)
Notify(inode, kind) ==
  inotify' = IF inotify.inode = inode
             THEN [inotify EXCEPT !.events = @ \cup {kind}]
             ELSE inotify

(* Part of a line, a line, or the rest of one and the start of the next.   *)
Write ==
  /\ \E n \in {1, 2} :
       /\ written + n <= MaxWritten
       /\ written' = written + n
       /\ files' = [files EXCEPT ![writer] =
                      @ \o [k \in 1..n |-> written + k]]
  /\ Notify(writer, "modify")
  /\ UNCHANGED <<path, writer, changes, reader, history>>

(* One more change of the file at the path, of a kind that happens here.   *)
Change(kind) ==
  /\ kind \in Changes
  /\ changes < MaxChanges
  /\ changes' = changes + 1
  /\ kind # "create" => path # NoFile
  /\ UNCHANGED <<writer, written, reader, seen, again, misled>>

(* copytruncate, or a shell redirection.                                   *)
Truncate ==
  /\ Change("truncate")
  /\ files' = [files EXCEPT ![path] = <<>>]
  /\ start' = IF reader.inode = path THEN Nowhere ELSE start
  /\ Notify(path, "modify")
  /\ UNCHANGED path

Rename ==
  /\ Change("rename")
  /\ path' = NoFile
  /\ Notify(path, "moved")
  /\ UNCHANGED <<files, start>>

(* The reader's descriptor keeps the inode: what it is told is that the    *)
(* number of links changed.                                                *)
Unlink ==
  /\ Change("unlink")
  /\ path' = NoFile
  /\ Notify(path, "attrib")
  /\ UNCHANGED <<files, start>>

Create ==
  /\ Change("create")
  /\ path = NoFile
  /\ files' = Append(files, <<>>)
  /\ path' = Len(files')
  /\ UNCHANGED <<inotify, start>>

Touch ==
  /\ Change("touch")
  /\ Notify(path, "attrib")
  /\ UNCHANGED <<files, path, start>>

(* The logging process moves on to the file that is at the path now.       *)
ReopenLog ==
  /\ path \notin {NoFile, writer}
  /\ writer' = path
  /\ UNCHANGED <<files, path, written, changes, reader, inotify, history>>

World ==
  \/ Write \/ Truncate \/ Rename \/ Unlink \/ Create \/ Touch \/ ReopenLog

-----------------------------------------------------------------------------
(* The reader: stream, wait_for_reader, maybe_rewind, wait_for_reset_event.*)

Goto(label) == reader' = [reader EXCEPT !.pc = label]

(* Waiting for the file with a poll is waiting until it exists.            *)
Open ==
  /\ reader.pc = "open"
  /\ path # NoFile
  /\ reader' = [pc |-> "watch", inode |-> path, pos |-> Len(files[path]),
                buf |-> <<>>]
  /\ start' = Len(files[path])
  /\ UNCHANGED <<world, inotify, seen, again, misled>>

(* Mutant of Reset: the watch is kept. *)
ResetKeepsWatch ==
  /\ reader' = NoReader
  /\ start' = Nowhere
  /\ UNCHANGED inotify

(* reset: the descriptors are closed, pending events are gone.             *)
Reset ==
  /\ reader' = NoReader
  /\ inotify' = NoWatch
  /\ start' = Nowhere

(* Mutant of AddWatch: waits for an event before it reads.                 *)
AddWatchThenWait ==
  /\ reader.pc = "watch"
  /\ IF path = NoFile
     THEN Reset
     ELSE /\ inotify' = [inode |-> path, events |-> {}]
          /\ Goto("wait")
          /\ UNCHANGED start
  /\ UNCHANGED <<world, seen, again, misled>>

(* The watch is on what is at the path now; if nothing is, start again.    *)
AddWatch ==
  /\ reader.pc = "watch"
  /\ IF path = NoFile
     THEN Reset
     ELSE /\ inotify' = [inode |-> path, events |-> {}]
          /\ Goto("read")
          /\ UNCHANGED start
  /\ UNCHANGED <<world, seen, again, misled>>

Unread ==
  SubSeq(files[reader.inode], reader.pos + 1, Len(files[reader.inode]))

EndsLine(piece) == piece % 2 = 0

HasLine(s) == \E k \in DOMAIN s : EndsLine(s[k])

(* The first n pieces of s are its first line.                             *)
IsFirstLine(s, n) ==
  /\ \A k \in 1..(n - 1) : ~EndsLine(s[k])
  /\ EndsLine(s[n])

(* Mutant of ReadLine: the file is read although a line is buffered, and   *)
(* what was buffered is dropped.                                           *)
ReadLinePastBuffer ==
  /\ reader.pc = "read"
  /\ \E filled \in 0..Len(Unread) :
       LET s == SubSeq(Unread, 1, filled) IN
       \E n \in 1..Len(s) :
         /\ IsFirstLine(s, n) \/ (n = Len(s) /\ filled = Len(Unread))
         /\ LET entry == {s[k] : k \in 1..n} IN
              /\ seen' = seen \cup entry
              /\ again' = again \cup (entry \cap seen)
         /\ reader' = [reader EXCEPT !.pos = @ + filled,
                                     !.buf = SubSeq(s, n + 1, Len(s))]
  /\ UNCHANGED <<world, inotify, misled, start>>

(* read_line: the buffer is filled from the file, as far as one read goes, *)
(* only while it holds no whole line.  At the end of the file whatever is  *)
(* there is an entry.                                                      *)
ReadLine ==
  /\ reader.pc = "read"
  /\ \E filled \in 0..Len(Unread) :
       LET s == reader.buf \o SubSeq(Unread, 1, filled) IN
       /\ HasLine(reader.buf) => filled = 0
       /\ \E n \in 1..Len(s) :
            /\ \/ IsFirstLine(s, n)
               \/ ~HasLine(s) /\ n = Len(s) /\ filled = Len(Unread)
            /\ LET entry == {s[k] : k \in 1..n} IN
                 /\ seen' = seen \cup entry
                 /\ again' = again \cup (entry \cap seen)
            /\ reader' = [reader EXCEPT !.pos = @ + filled,
                                        !.buf = SubSeq(s, n + 1, Len(s))]
  /\ UNCHANGED <<world, inotify, misled, start>>

EndOfFile ==
  /\ reader.pc = "read"
  /\ reader.buf = <<>> /\ Unread = <<>>
  /\ Goto("eof")
  /\ UNCHANGED <<world, inotify, history>>

(* The read fails, at the end of the file perhaps, or the line is not      *)
(* UTF-8: the reader is reset.                                             *)
ReadError ==
  /\ "read_error" \in Changes
  /\ reader.pc = "read"
  /\ Reset
  /\ UNCHANGED <<world, seen, again, misled>>

(* Mutant of Shrunk: no shorter than what has been read is short enough.   *)
NotGrown == path # NoFile /\ Len(files[path]) <= reader.pos

(* What is at the path now is shorter than what has been read.             *)
Shrunk == path # NoFile /\ Len(files[path]) < reader.pos

(* maybe_rewind: the path is looked up again, the open file is rewound.    *)
MaybeRewind ==
  /\ reader.pc = "eof"
  /\ IF Shrunk
     THEN /\ reader' = [reader EXCEPT !.pc = "read", !.pos = 0]
          /\ start' = 0
          /\ misled' = (misled \/ path # reader.inode)
     ELSE Goto("wait") /\ UNCHANGED <<start, misled>>
  /\ UNCHANGED <<world, inotify, seen, again>>

(* All pending events are read.  One that says the watched file is gone    *)
(* resets the reader; one about its attributes makes it look at the path.  *)
ReadEvents ==
  /\ reader.pc = "wait"
  /\ inotify.events # {}
  /\ IF "moved" \in inotify.events
     THEN Reset
     ELSE /\ inotify' = [inotify EXCEPT !.events = {}]
          /\ Goto(IF "attrib" \in inotify.events THEN "identity" ELSE "read")
          /\ UNCHANGED start
  /\ UNCHANGED <<world, seen, again, misled>>

(* Mutant of SameFile: any file at the path will do.                       *)
AnyFile == path # NoFile

SameFile == path = reader.inode

CheckIdentity ==
  /\ reader.pc = "identity"
  /\ IF SameFile THEN Goto("read") /\ UNCHANGED <<inotify, start>> ELSE Reset
  /\ UNCHANGED <<world, seen, again, misled>>

ReaderStep ==
  \/ Open \/ AddWatch \/ ReadLine \/ EndOfFile \/ MaybeRewind
  \/ ReadEvents \/ CheckIdentity

Next == World \/ ReaderStep \/ ReadError

Spec == Init /\ [][Next]_vars

(* The task is polled, and comes back for the next entry.  Nothing is      *)
(* assumed of the world.                                                   *)
FairSpec == Spec /\ WF_vars(ReaderStep)

-----------------------------------------------------------------------------
Inodes == DOMAIN files

ReaderType ==
  [pc : {"open", "watch", "read", "eof", "wait", "identity"},
   inode : Inodes \cup {NoFile}, pos : Nat, buf : Seq(1..written)]

WatchType ==
  [inode : Inodes \cup {NoFile}, events : SUBSET {"modify", "moved", "attrib"}]

TypeOK ==
  /\ files \in Seq(Seq(1..written))
  /\ path \in Inodes \cup {NoFile}
  /\ writer \in Inodes
  /\ written \in 0..MaxWritten
  /\ changes \in 0..MaxChanges
  /\ reader \in ReaderType
  /\ reader.pc = "open" <=> reader.inode = NoFile
  /\ inotify \in WatchType
  /\ inotify.inode = NoFile <=> reader.pc \in {"open", "watch"}
  /\ start \in 0..Nowhere
  /\ seen \subseteq 1..written /\ again \subseteq seen
  /\ misled \in BOOLEAN

(* Nothing is skipped between the place where the file was opened, or      *)
(* rewound to, and the place the reader has come to: whatever the order of *)
(* appending, filling the buffer and taking lines from it (file.rs,        *)
(* wait_for_reader and the loop of stream).                                *)
NoGap ==
  start # Nowhere =>
    /\ reader.pos <= Len(files[reader.inode])
    /\ \A k \in (start + 1)..(reader.pos - Len(reader.buf)) :
         files[reader.inode][k] \in seen

(* The tail keeps the promise of LogTail: in order and once, across        *)
(* truncations, resets and rotations, unless a rewind was decided on the   *)
(* length of another file (file.rs, maybe_rewind).                         *)
ImplementsLogTail == Log!Spec

Behind ==
  /\ reader.inode = inotify.inode /\ reader.inode # NoFile
  /\ reader.buf # <<>> \/ Unread # <<>>

(* No wake-up is lost: a reader that watches the file it reads does not    *)
(* sleep on unread lines, whatever is written between its look at the end  *)
(* of the file, its look at the path and its wait for events (file.rs, the *)
(* loop of stream).                                                        *)
NoLostWakeup == Behind ~> ~Behind

(* The file that is read and watched is no longer at the path.             *)
Left ==
  /\ reader.inode = inotify.inode /\ reader.inode # NoFile
  /\ path # reader.inode

(* "If the file is moved or renamed, monitoring stops", to start again on  *)
(* the file that takes its place (config.example.yaml): a rename, a        *)
(* removal or a replacement is noticed, unless the reader was misled.      *)
RotationNoticed == Left ~> ~Left \/ misled

(* The same as config.example.yaml says it, without exception.             *)
MoveStopsMonitoring == Left ~> ~Left
=============================================================================
