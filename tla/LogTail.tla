------------------------------ MODULE LogTail ------------------------------
(***************************************************************************)
(* One log source, from the logging daemon's append to the committed rows: *)
(* the files behind the path and their rotation (logrotate, external), and *)
(* the ingestor's cycle over it (tailer.read_new_lines, _process_source    *)
(* and the source's part of run_once's write transaction).                 *)
(*                                                                         *)
(* The cycle is split where another process can run: stat of the path,     *)
(* drain of <path>.1, read of the path, commit.  Every worker of Workers   *)
(* is a process that runs cycles (the API's thread, `ingest --once`).      *)
(*                                                                         *)
(* A line is a number, in writing order.  All lines are equally long, so   *)
(* an offset counts whole lines; a half-written line makes the file longer *)
(* without being a whole line.                                             *)
(*                                                                         *)
(* Assumed of the environment throughout: <path>.1 is there, readable and   *)
(* not compressed, until the next rotation.  Otherwise the tailer gives its *)
(* tail up and advances (tailer.py:87-90, and a test says so): the lines    *)
(* that a drain would have found are lost, and no property speaks of them.  *)
(***************************************************************************)
EXTENDS Integers, Sequences, FiniteSets, Ordered

CONSTANTS
    Inodes,         \* the inode numbers the file system can give to a log file
    NoFile,         \* "no such file", and the NULL inode of tail_state
    Workers,        \* the processes that run ingest cycles
    MaxLines,       \* bound: lines the daemon writes
    MaxRotations,   \* bound: rotations
    MaxCrashes,     \* bound: cycles that die before their commit
    Noise,          \* the lines that no parser matches
    Env             \* what the environment may do, a subset of EnvFeatures

EnvFeatures == {
    "rename",           \* rotation renames path to path.1 and creates path anew
    "copytruncate",     \* rotation copies path to path.1 and truncates path
    "mid_read",         \* a rotation may fall between a cycle's stat and its commit
    "late_write",       \* the daemon may still write to path.1 until it reopens path
    "fast_rotation",    \* two rotations may follow each other without a commit between
    "inode_reuse" }     \* a deleted file's inode may be given to a new one

ASSUME LogTailAssumption ==
    /\ NoFile \notin Inodes
    /\ MaxLines \in Nat /\ MaxRotations \in Nat /\ MaxCrashes \in Nat
    /\ Noise \subseteq 1 .. MaxLines
    /\ Env \subseteq EnvFeatures

VARIABLES
    content,    \* inode -> the lines of the file
    path,       \* the inode the log's path names
    rotated,    \* the inode <path>.1 names
    fd,         \* the inode the daemon holds open
    torn,       \* the last line of the daemon's file still lacks its newline
    next,       \* the number of the next line
    unused,     \* the inodes never given to a file
    rotations,  \* rotations so far
    crashes,    \* crashes so far
    pos,        \* tail_state: inode, byte_offset, last_error set or not
    rows,       \* the event table in insertion order
    rd          \* worker -> its cycle

diskVars == <<content, path, rotated, fd, torn, next, unused, rotations>>
vars == <<diskVars, crashes, pos, rows, rd>>

Line == 1 .. MaxLines
Row  == [inode : Inodes, offset : Nat, line : Line]

CycleState == [pc    : {"idle", "drain", "read", "commit"},
               prev  : [inode : Inodes \cup {NoFile}, offset : Nat],
               inode : Inodes \cup {NoFile}, start : Nat,    \* what stat found
               lines : Seq(Row), off : Nat]                 \* what was read

IdleCycle == [pc |-> "idle", prev |-> [inode |-> NoFile, offset |-> 0],
              inode |-> NoFile, start |-> 0, lines |-> <<>>, off |-> 0]

Init ==
    /\ \E i \in Inodes :
        /\ path = i /\ fd = i
        /\ unused = Inodes \ {i}
    /\ content = [i \in Inodes |-> <<>>]
    /\ rotated = NoFile
    /\ torn = FALSE
    /\ next = 1
    /\ rotations = 0
    /\ crashes = 0
    /\ pos = [inode |-> NoFile, offset |-> 0, error |-> FALSE]
    /\ rows = <<>>
    /\ rd = [w \in Workers |-> IdleCycle]

-----------------------------------------------------------------------------
(* The daemon and logrotate (external). *)

May(feature) == feature \in Env

(* The daemon writes the first bytes of a line... *)
StartLine ==
    /\ ~torn /\ next <= MaxLines
    /\ fd = path \/ May("late_write")
    /\ content' = [content EXCEPT ![fd] = Append(@, next)]
    /\ torn' = TRUE
    /\ next' = next + 1
    /\ UNCHANGED <<path, rotated, fd, unused, rotations, crashes, pos, rows, rd>>

(* ... and its newline. *)
EndLine ==
    /\ torn
    /\ torn' = FALSE
    /\ UNCHANGED <<content, path, rotated, fd, next, unused, rotations, crashes,
                   pos, rows, rd>>

NewInodes == (IF May("inode_reuse") THEN Inodes ELSE unused)
                \ {path, rotated, fd}

(* Rotation is due at any time, short of what Env rules out. *)
MayRotate ==
    /\ rotations < MaxRotations
    /\ path # NoFile
    /\ fd = path
    /\ May("late_write") \/ ~torn
    /\ May("mid_read") \/ \A w \in Workers : rd[w].pc = "idle"
    /\ May("fast_rotation") \/ pos.inode = path

Rename ==
    /\ May("rename") /\ MayRotate
    /\ rotated' = path
    /\ path' = NoFile
    /\ rotations' = rotations + 1
    /\ UNCHANGED <<content, fd, torn, next, unused, crashes, pos, rows, rd>>

Create ==
    /\ path = NoFile
    /\ \E i \in NewInodes :
        /\ path' = i
        /\ content' = [content EXCEPT ![i] = <<>>]
        /\ unused' = unused \ {i}
    /\ UNCHANGED <<rotated, fd, torn, next, rotations, crashes, pos, rows, rd>>

(* The postrotate signal makes the daemon reopen the path. *)
Reopen ==
    /\ fd # path /\ path # NoFile /\ ~torn
    /\ fd' = path
    /\ UNCHANGED <<content, path, rotated, torn, next, unused, rotations, crashes,
                   pos, rows, rd>>

CopyTruncate ==
    /\ May("copytruncate") /\ MayRotate /\ ~torn
    /\ \E i \in NewInodes :
        /\ rotated' = i
        /\ content' = [content EXCEPT ![i] = content[path], ![path] = <<>>]
        /\ unused' = unused \ {i}
    /\ rotations' = rotations + 1
    /\ UNCHANGED <<path, fd, torn, next, crashes, pos, rows, rd>>

-----------------------------------------------------------------------------
(* The ingestor. *)

Whole(i) == IF torn /\ fd = i THEN Len(content[i]) - 1 ELSE Len(content[i])

(* Mutant: offsets counted from where the read began. *)
ReadFromRelative(i, label, start) ==
    IF Whole(i) <= start THEN <<>>
    ELSE [k \in 1 .. Whole(i) - start |->
            [inode |-> label, offset |-> k - 1, line |-> content[i][start + k]]]

(* _read_from: the whole lines of file i from start on, labelled with an inode. *)
ReadFrom(i, label, start) ==
    IF Whole(i) <= start THEN <<>>
    ELSE [k \in 1 .. Whole(i) - start |->
            [inode |-> label, offset |-> start + k - 1, line |-> content[i][start + k]]]

(* Mutants: the offset of the last line, not the one after it; an offset    *)
(* past a line that is still being written.                                 *)
OffsetOfLast(i, start) == IF Whole(i) < start THEN start ELSE Whole(i) - 1
OffsetOfEnd(i, start)  == IF Len(content[i]) <= start THEN start ELSE Len(content[i])

NewOffset(i, start) == IF Whole(i) <= start THEN start ELSE Whole(i)

(* _process_source reads tail_state, read_new_lines stats the path and      *)
(* chooses between rename (drain first), copytruncate and append.           *)
Stat(w) ==
    /\ rd[w].pc = "idle" /\ path # NoFile
    /\ LET renamed   == pos.inode # NoFile /\ pos.inode # path
           truncated == pos.inode = path /\ Len(content[path]) < pos.offset
       IN rd' = [rd EXCEPT ![w] =
                   [@ EXCEPT !.pc    = IF renamed THEN "drain" ELSE "read",
                             !.prev  = [inode |-> pos.inode, offset |-> pos.offset],
                             !.inode = path,
                             !.start = IF renamed \/ truncated THEN 0 ELSE pos.offset]]
    /\ UNCHANGED <<diskVars, crashes, pos, rows>>

(* Mutants: the rotated file is not drained; it is read like a new one. *)
DrainNothing(w) ==
    /\ rd[w].pc = "drain"
    /\ rd' = [rd EXCEPT ![w].pc = "read"]
    /\ UNCHANGED <<diskVars, crashes, pos, rows>>

DrainAsNew(w) ==
    /\ rd[w].pc = "drain"
    /\ rd' = [rd EXCEPT ![w].pc = "read",
                        ![w].lines = IF rotated = rd[w].prev.inode
                                     THEN ReadFrom(rotated, rd[w].inode, 0) ELSE <<>>]
    /\ UNCHANGED <<diskVars, crashes, pos, rows>>

(* The unread tail of <path>.1, if that is the file the position is about.  *)
(* It can be read: see the assumption above.                               *)
DrainRotated(w) ==
    /\ rd[w].pc = "drain"
    /\ rd' = [rd EXCEPT ![w].pc = "read",
                        ![w].lines = IF rotated = rd[w].prev.inode
                                     THEN ReadFrom(rotated, rotated, rd[w].prev.offset)
                                     ELSE <<>>]
    /\ UNCHANGED <<diskVars, crashes, pos, rows>>

(* The path is opened by name: it may no longer be the file that was stat'ed. *)
ReadPath(w) ==
    /\ rd[w].pc = "read" /\ path # NoFile
    /\ rd' = [rd EXCEPT ![w].pc = "commit",
                        ![w].lines = @ \o ReadFrom(path, rd[w].inode, rd[w].start),
                        ![w].off = NewOffset(path, rd[w].start)]
    /\ UNCHANGED <<diskVars, crashes, pos, rows>>

(* stat or open finds no file: record_tail_error, the offset stays. *)
ReadFails(w) ==
    /\ rd[w].pc \in {"idle", "read"} /\ path = NoFile
    /\ pos' = [pos EXCEPT !.error = TRUE]
    /\ rd' = [rd EXCEPT ![w] = IdleCycle]
    /\ UNCHANGED <<diskVars, crashes, rows>>

SameKey(r, s) == r.inode = s.inode /\ r.offset = s.offset

(* INSERT OR IGNORE on UNIQUE (inode, byte_offset), of the lines a parser matched. *)
Inserted(batch) ==
    Picked(batch, {n \in DOMAIN batch : /\ batch[n].line \notin Noise
                                        /\ \A k \in DOMAIN rows : ~SameKey(rows[k], batch[n])})

(* The write transaction: rows and position together. *)
Commit(w) ==
    /\ rd[w].pc = "commit"
    /\ rows' = rows \o Inserted(rd[w].lines)
    /\ pos' = [inode |-> rd[w].inode, offset |-> rd[w].off, error |-> FALSE]
    /\ rd' = [rd EXCEPT ![w] = IdleCycle]
    /\ UNCHANGED <<diskVars, crashes>>

(* The process dies, or its transaction rolls back: the cycle leaves nothing. *)
Crash(w) ==
    /\ rd[w].pc # "idle" /\ crashes < MaxCrashes
    /\ crashes' = crashes + 1
    /\ rd' = [rd EXCEPT ![w] = IdleCycle]
    /\ UNCHANGED <<diskVars, pos, rows>>

Cycle(w) == Stat(w) \/ DrainRotated(w) \/ ReadPath(w) \/ ReadFails(w) \/ Commit(w)

Next == \/ StartLine \/ EndLine \/ Rename \/ Create \/ Reopen \/ CopyTruncate
        \/ \E w \in Workers : Cycle(w) \/ Crash(w)

Spec == Init /\ [][Next]_vars

(* run_forever never stops cycling; logrotate and the daemon finish what    *)
(* they began.  Nothing obliges the daemon to log, or a rotation to be due. *)
FairSpec == /\ Spec
            /\ WF_vars(EndLine) /\ WF_vars(Create) /\ WF_vars(Reopen)
            /\ \A w \in Workers : WF_vars(Cycle(w))

-----------------------------------------------------------------------------
(* Properties. *)

TypeOK ==
    /\ content \in [Inodes -> Seq(Line)]
    /\ path \in Inodes \cup {NoFile}
    /\ rotated \in Inodes \cup {NoFile}
    /\ fd \in Inodes
    /\ torn \in BOOLEAN
    /\ next \in 1 .. MaxLines + 1
    /\ unused \subseteq Inodes
    /\ rotations \in 0 .. MaxRotations
    /\ crashes \in 0 .. MaxCrashes
    /\ pos \in [inode : Inodes \cup {NoFile}, offset : Nat, error : BOOLEAN]
    /\ rows \in Seq(Row)
    /\ rd \in [Workers -> CycleState]

(* The whole lines the daemon has written, and those the store has. *)
Written == 1 .. IF torn THEN next - 2 ELSE next - 1
Stored  == {rows[k].line : k \in DOMAIN rows}

LinesOf(batch) == {batch[k].line : k \in DOMAIN batch}

(* The lines the next undisturbed cycle would read. *)
WithinReach ==
    LET current == IF path = NoFile THEN {}
                   ELSE LinesOf(ReadFrom(path, path,
                            IF pos.inode = path /\ Len(content[path]) >= pos.offset
                            THEN pos.offset ELSE 0))
        drained == IF rotated = NoFile \/ rotated # pos.inode THEN {}
                   ELSE LinesOf(ReadFrom(rotated, rotated, pos.offset))
    IN current \cup drained

(* "re-reading a region can never double-count" (db.py:10): no line of the  *)
(* log is two rows, whatever crashed, rotated or was read twice.            *)
NoDoubleCount ==
    \A j, k \in DOMAIN rows : rows[j].line = rows[k].line => j = k

(* The key of a row names the line it was read from for as long as that     *)
(* file holds a line there: the assumption INSERT OR IGNORE rests on.       *)
KeyNamesItsLine ==
    \A k \in DOMAIN rows :
        LET file == content[rows[k].inode]
            at   == rows[k].offset + 1
        IN at <= Len(file) => file[at] = rows[k].line

(* The position never passes a line that is not in the store: each whole    *)
(* line is a row, is noise, or is where the next cycle will look, in the    *)
(* path or in the unread tail of <path>.1.                                  *)
UnreadIsReachable == Written \subseteq Stored \cup Noise \cup WithinReach

(* A cycle that commits stores what it read: a line read past the saved     *)
(* offset for the first time is never taken for a duplicate.                *)
ReadLinesAreStored ==
    [][\A w \in Workers :
          Commit(w) => LinesOf(rd[w].lines) \ Noise \subseteq Stored']_vars

(* The position moves backwards only over a file that was truncated, so an  *)
(* older cycle never overwrites the position a newer one committed.         *)
PositionNeverRewinds ==
    [][pos'.inode = pos.inode /\ pos'.offset < pos.offset
         => Len(content[pos.inode]) < pos.offset]_vars

(* Without parser noise in between, the rows are the written lines in order *)
(* and in the end all of them: LogDelivery.                                 *)
Delivery == INSTANCE LogDelivery WITH
    Lines     <- Line \ Noise,
    written   <- Ascending(Written \ Noise),
    delivered <- [k \in DOMAIN rows |-> rows[k].line]

DeliverySpec == Delivery!Spec

=============================================================================
