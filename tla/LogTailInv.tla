----------------------------- MODULE LogTailInv -----------------------------
(***************************************************************************)
(* The inductive invariants of LogTail, each under the environment that    *)
(* keeps it: KeyInv while no rotation falls into a cycle, FilesOnlyGrow    *)
(* while files stay as they were written, DeliveryInv under rename alone.  *)
(***************************************************************************)
EXTENDS LogTail

(* Whatever the environment does: a cycle under way has a label for what it *)
(* reads.                                                                  *)
LabelsTyped ==
    \A w \in Workers : /\ rd[w].pc # "idle" => rd[w].inode \in Inodes
                       /\ rd[w].pc = "drain" => rd[w].prev.inode \in Inodes

(* Without "mid_read" a cycle's label is the path's inode, and the line of  *)
(* a file, a batch or a row has one key.                                   *)
Undisturbed == "mid_read" \notin Env

Batch(w) == {rd[w].lines[n] : n \in DOMAIN rd[w].lines}
Known    == {rows[k] : k \in DOMAIN rows} \cup UNION {Batch(w) : w \in Workers}

(* The files that a cycle may still read lines from: <path>.1 is a copy     *)
(* that nobody reads unless a position is about it.                        *)
Live == {i \in Inodes : \/ i = path
                        \/ i = rotated /\ (pos.inode = i \/ \E w \in Workers : rd[w].prev.inode = i)}

(* The row that line m of file i is or would be. *)
RowAt(i, m) == [inode |-> i, offset |-> m - 1, line |-> content[i][m]]

Shown == UNION {{RowAt(i, m) : m \in DOMAIN content[i]} : i \in Live}

CycleInv ==
    /\ fd \in {path, rotated}
    /\ path # NoFile => path # rotated
    /\ \A w \in Workers :
        /\ rd[w].pc = "idle" => rd[w] = IdleCycle
        /\ rd[w].pc # "idle" => rd[w].inode = path
        /\ rd[w].pc = "drain" => rd[w].prev.inode # path
        /\ rd[w].pc = "read" => \A r \in Batch(w) : r.inode # path

LinesArePast ==
    /\ \A i \in Inodes : \A m \in DOMAIN content[i] : content[i][m] < next
    /\ \A r \in Known : r.line < next

OneKey == \A r, s \in Known \cup Shown : r.line = s.line => r = s

NoRepeats ==
    /\ \A j, k \in DOMAIN rows : rows[j] = rows[k] => j = k
    /\ \A w \in Workers : \A j, k \in DOMAIN rd[w].lines :
          rd[w].lines[j] = rd[w].lines[k] => j = k

(* What is stored of the path's file was stored by a cycle that left the    *)
(* position there.                                                         *)
ForeignIsUnread ==
    path # NoFile /\ pos.inode # path =>
        \A k \in DOMAIN rows, m \in DOMAIN content[path] : rows[k].line # content[path][m]

KeyInv ==
    /\ TypeOK /\ LabelsTyped /\ CycleInv
    /\ LinesArePast /\ OneKey /\ NoRepeats /\ ForeignIsUnread

(* If files are neither truncated nor their inodes reused, what was read is *)
(* still there.                                                            *)
FilesStay == Env \cap {"mid_read", "copytruncate", "inode_reuse"} = {}

FilesOnlyGrow ==
    /\ {path, rotated, fd} \cap unused = {}
    /\ \A i \in unused : content[i] = <<>>
    /\ \A r \in Known : r.offset < Len(content[r.inode]) /\ content[r.inode][r.offset + 1] = r.line

(* Under rename alone the rows are what was written, up to some line.       *)
OnlyRenames == Env \subseteq {"rename"}

Accounted == Stored \cup Noise

(* How far a file is known to be accounted for. *)
Behind(i) == IF i = pos.inode THEN pos.offset
             ELSE IF i = path THEN 0 ELSE Len(content[i])

WriterInv ==
    /\ torn => /\ fd = path /\ content[path] # <<>>
               /\ content[path][Len(content[path])] = next - 1
    /\ \A l \in 1 .. next - 1 : \E i \in Inodes : \E m \in DOMAIN content[i] : content[i][m] = l
    /\ \A i, j \in Inodes : \A m \in DOMAIN content[i], n \in DOMAIN content[j] :
          /\ content[i][m] = content[j][n] => i = j /\ m = n
          /\ i = j /\ m < n => content[i][m] < content[i][n]
          /\ i = rotated /\ j = path => content[i][m] < content[j][n]

PositionInv ==
    /\ pos.inode \in {NoFile, path, rotated}
    /\ pos.inode = NoFile => rotated = NoFile /\ pos.offset = 0
    /\ pos.inode # NoFile => pos.offset <= Whole(pos.inode)
    /\ path = NoFile => pos.inode = rotated
    /\ \A i \in Inodes : \A m \in DOMAIN content[i] :
          m <= Behind(i) => content[i][m] \in Accounted

RowsInv ==
    /\ Stored \subseteq Written \ Noise
    /\ \A l \in Stored : \A k \in 1 .. l : k \in Accounted
    /\ \A j, k \in DOMAIN rows : j < k => rows[j].line < rows[k].line

(* What a cycle has accounted for when it commits. *)
Covered(w) == Accounted \cup LinesOf(rd[w].lines)

BatchInv(w) ==
    /\ LinesOf(rd[w].lines) \subseteq Written
    /\ \A l \in LinesOf(rd[w].lines) : \A k \in 1 .. l : k \in Covered(w)
    /\ \A j, k \in DOMAIN rd[w].lines : j < k => rd[w].lines[j].line < rd[w].lines[k].line
    /\ rd[w].pc = "drain" =>
          /\ rd[w].lines = <<>> /\ rd[w].prev.inode = rotated /\ rd[w].start = 0
          /\ \A m \in DOMAIN content[rotated] :
                m <= rd[w].prev.offset => content[rotated][m] \in Accounted
    /\ rd[w].pc \in {"read", "commit"} /\ rotated # NoFile =>
          \A m \in DOMAIN content[rotated] : content[rotated][m] \in Covered(w)
    /\ rd[w].pc = "read" =>
          /\ rd[w].start <= Whole(path)
          /\ \A m \in DOMAIN content[path] : m <= rd[w].start => content[path][m] \in Accounted
          /\ \A r \in Batch(w) : r.inode = rotated
    /\ rd[w].pc = "commit" =>
          /\ rd[w].off <= Whole(path)
          /\ \A m \in DOMAIN content[path] : m <= rd[w].off => content[path][m] \in Covered(w)

DeliveryInv ==
    /\ KeyInv /\ FilesOnlyGrow
    /\ WriterInv /\ PositionInv /\ RowsInv
    /\ \A w \in Workers : BatchInv(w)

=============================================================================
