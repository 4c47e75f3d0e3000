---------------------------- MODULE LogTailProofs ----------------------------
(***************************************************************************)
(* Theorems about LogTail, for any number of inodes, workers, lines,       *)
(* rotations and crashes, each under the environment it needs.             *)
(***************************************************************************)
EXTENDS LogTailInv, OrderedProofs

(* What _read_from returns: the whole lines after start, in file order.     *)
LEMMA ReadFromReads ==
    ASSUME TypeOK, NEW i \in Inodes, NEW label \in Inodes, NEW start \in Nat
    PROVE  LET R == ReadFrom(i, label, start)
           IN /\ Whole(i) \in Int /\ Whole(i) <= Len(content[i])
              /\ R \in Seq(Row)
              /\ \A n \in 1 .. Len(R) :
                    /\ start + n \in 1 .. Whole(i) /\ start + n \in DOMAIN content[i]
                    /\ R[n] = [inode |-> label, offset |-> start + n - 1,
                               line |-> content[i][start + n]]
              /\ \A m \in start + 1 .. Whole(i) : m - start \in 1 .. Len(R)
              /\ NewOffset(i, start) \in Nat
<1> DEFINE R == ReadFrom(i, label, start)
           W == Whole(i)
           row(n) == [inode |-> label, offset |-> start + n - 1, line |-> content[i][start + n]]
<1>1. content[i] \in Seq(Line)
  BY DEF TypeOK
<1>2. Len(content[i]) \in Nat /\ DOMAIN content[i] = 1 .. Len(content[i])
  BY <1>1
<1>3. W \in Int /\ W <= Len(content[i])
  BY <1>2 DEF Whole
<1>4. NewOffset(i, start) \in Nat
  BY <1>3 DEF NewOffset
<1>5. CASE W <= start
  <2>1. R = <<>>
    BY <1>5 DEF ReadFrom
  <2>2. \A m \in start + 1 .. W : FALSE
    BY <1>3, <1>5
  <2> QED
    BY <1>3, <1>4, <2>1, <2>2
<1>6. CASE ~ (W <= start)
  <2>1. R = [n \in 1 .. W - start |-> row(n)] /\ W - start \in Nat
    BY <1>3, <1>6 DEF ReadFrom
  <2>2. ASSUME NEW n \in 1 .. W - start
        PROVE  /\ start + n \in 1 .. W /\ start + n \in DOMAIN content[i]
               /\ row(n) \in Row
    <3>1. start + n \in 1 .. W /\ start + n \in DOMAIN content[i] /\ start + n - 1 \in Nat
      BY <1>2, <1>3, <2>1
    <3>2. content[i][start + n] \in Line
      BY <1>1, <1>2, <3>1, ElementOfSeq
    <3> QED
      BY <3>1, <3>2 DEF Row
  <2>3. R \in [1 .. W - start -> Row]
    BY <2>1, <2>2
  <2>5. \A m \in start + 1 .. W : m - start \in 1 .. W - start
    BY <1>3, <2>1
  <2> HIDE DEF W, R
  <2>4. R \in Seq(Row) /\ Len(R) = W - start
    BY <2>1, <2>3, FunctionsAreSequences
  <2>6. \A n \in 1 .. Len(R) : R[n] = row(n)
    BY <2>1, <2>4
  <2> QED
    BY <1>3, <1>4, <2>2, <2>4, <2>5, <2>6 DEF W, R
<1> QED
  BY <1>5, <1>6

(* The positions of a batch whose lines INSERT OR IGNORE stores. *)
Fresh(batch) == {n \in DOMAIN batch : /\ batch[n].line \notin Noise
                                      /\ \A k \in DOMAIN rows : ~ SameKey(rows[k], batch[n])}

(* INSERT OR IGNORE: the batch without the rows whose keys are taken, in   *)
(* its order.                                                              *)
LEMMA InsertedInserts ==
    ASSUME NEW batch \in Seq(Row)
    PROVE  LET I == Inserted(batch)
               f == Ascending(Fresh(batch))
           IN /\ I \in Seq(Row)
              /\ f \in [1 .. Len(I) -> Fresh(batch)]
              /\ \A n \in 1 .. Len(I) : I[n] = batch[f[n]]
              /\ \A m, n \in 1 .. Len(I) : m < n => f[m] < f[n]
              /\ \A k \in Fresh(batch) : \E n \in 1 .. Len(I) : f[n] = k
<1>1. Fresh(batch) \in SUBSET (1 .. Len(batch))
  BY DEF Fresh
<1>2. Inserted(batch) = Picked(batch, Fresh(batch))
  BY DEF Inserted, Fresh
<1> QED
  BY <1>1, <1>2, PickedKeepsOrder

TypeInv == TypeOK /\ LabelsTyped

(* The daemon's and logrotate's steps, and those of a worker.               *)
Rotating == StartLine \/ EndLine \/ Rename \/ Create \/ Reopen \/ CopyTruncate

(* A created file never takes the inode of a file that is there.           *)
LEMMA NewInodesAreInodes ==
    ASSUME TypeOK
    PROVE  \A i \in NewInodes : i \in Inodes /\ i \notin {path, rotated, fd}
BY DEF NewInodes, TypeOK

(* Each step of the daemon and of logrotate keeps the types.               *)
LEMMA RotatingKeepsTypes ==
    ASSUME TypeInv, Rotating
    PROVE  TypeInv'
<1> USE LogTailAssumption
<1>1. rd' = rd /\ pos' = pos /\ rows' = rows /\ crashes' = crashes
  BY DEF Rotating, StartLine, EndLine, Rename, Create, Reopen, CopyTruncate
<1>2. LabelsTyped'
  BY <1>1 DEF TypeInv, LabelsTyped
<1>3. CASE StartLine
  <2>1. next \in Line
    BY <1>3 DEF StartLine, Line, TypeInv, TypeOK
  <2>2. content' \in [Inodes -> Seq(Line)]
    <3>1. Append(content[fd], next) \in Seq(Line)
      BY <2>1 DEF TypeInv, TypeOK
    <3> QED
      BY <1>3, <3>1 DEF StartLine, TypeInv, TypeOK
  <2> QED
    BY <1>1, <1>2, <1>3, <2>2 DEF StartLine, TypeInv, TypeOK
<1>4. CASE EndLine
  BY <1>1, <1>2, <1>4 DEF EndLine, TypeInv, TypeOK
<1>5. CASE Rename
  BY <1>1, <1>2, <1>5 DEF Rename, MayRotate, TypeInv, TypeOK
<1>6. CASE Create
  <2>1. content' \in [Inodes -> Seq(Line)] /\ path' \in Inodes /\ unused' \subseteq Inodes
    BY <1>6, NewInodesAreInodes DEF Create, TypeInv, TypeOK
  <2> QED
    BY <1>1, <1>2, <1>6, <2>1 DEF Create, TypeInv, TypeOK
<1>7. CASE Reopen
  BY <1>1, <1>2, <1>7 DEF Reopen, TypeInv, TypeOK
<1>8. CASE CopyTruncate
  <2>1. content' \in [Inodes -> Seq(Line)] /\ rotated' \in Inodes /\ unused' \subseteq Inodes
    <3>1. PICK i \in Inodes : /\ rotated' = i /\ unused' = unused \ {i}
                              /\ content' = [content EXCEPT ![i] = content[path], ![path] = <<>>]
      BY <1>8, NewInodesAreInodes DEF CopyTruncate, TypeInv
    <3>2. path \in Inodes
      BY <1>8 DEF CopyTruncate, MayRotate, TypeInv, TypeOK
    <3>3. content[path] \in Seq(Line) /\ <<>> \in Seq(Line)
      BY <3>2 DEF TypeInv, TypeOK
    <3> QED
      BY <3>1, <3>2, <3>3 DEF TypeInv, TypeOK
  <2>2. rotations' \in 0 .. MaxRotations
    BY <1>8 DEF CopyTruncate, MayRotate, TypeInv, TypeOK
  <2> QED
    BY <1>1, <1>2, <1>8, <2>1, <2>2 DEF CopyTruncate, TypeInv, TypeOK
<1> QED
  BY <1>3, <1>4, <1>5, <1>6, <1>7, <1>8 DEF Rotating

(* A worker's step leaves the files alone and gives its cycle a new state. *)
LEMMA CycleKeepsTypes ==
    ASSUME TypeInv, NEW w \in Workers, Cycle(w) \/ Crash(w)
    PROVE  TypeInv'
<1> USE LogTailAssumption
<1> DEFINE Fits(c) == /\ c \in CycleState
                      /\ c.pc # "idle" => c.inode \in Inodes
                      /\ c.pc = "drain" => c.prev.inode \in Inodes
<1>1. UNCHANGED diskVars
  BY DEF Cycle, Stat, DrainRotated, ReadPath, ReadFails, Commit, Crash
<1>2. Fits(IdleCycle)
  BY DEF IdleCycle, CycleState
<1>3. rd \in [Workers -> CycleState] /\ \A u \in Workers : Fits(rd[u])
  BY DEF TypeInv, TypeOK, LabelsTyped
<1>4. ASSUME NEW c, Fits(c), rd' = [rd EXCEPT ![w] = c]
      PROVE  rd' \in [Workers -> CycleState] /\ LabelsTyped'
  BY <1>3, <1>4 DEF LabelsTyped
<1> HIDE DEF Fits
<1>5. CASE Stat(w)
  <2> DEFINE renamed   == pos.inode # NoFile /\ pos.inode # path
             truncated == pos.inode = path /\ Len(content[path]) < pos.offset
             c == [rd[w] EXCEPT !.pc    = IF renamed THEN "drain" ELSE "read",
                                !.prev  = [inode |-> pos.inode, offset |-> pos.offset],
                                !.inode = path,
                                !.start = IF renamed \/ truncated THEN 0 ELSE pos.offset]
  <2>1. rd' = [rd EXCEPT ![w] = c] /\ path # NoFile /\ pos' = pos /\ rows' = rows
        /\ crashes' = crashes
    BY <1>3, <1>5 DEF Stat
  <2>2. Fits(c)
    <3>1. path \in Inodes /\ pos.inode \in Inodes \cup {NoFile} /\ pos.offset \in Nat
      BY <2>1 DEF TypeInv, TypeOK
    <3>2. rd[w] \in CycleState
      BY <1>3
    <3>3. /\ c.pc = (IF renamed THEN "drain" ELSE "read")
          /\ c.prev = [inode |-> pos.inode, offset |-> pos.offset]
          /\ c.inode = path
          /\ c.start = (IF renamed \/ truncated THEN 0 ELSE pos.offset)
      BY <3>2 DEF CycleState
    <3>4. c \in CycleState
      BY <3>1, <3>2 DEF CycleState
    <3> HIDE DEF c
    <3> QED
      BY <3>1, <3>3, <3>4 DEF Fits
  <2> HIDE DEF c
  <2> QED
    BY <1>1, <1>4, <2>1, <2>2 DEF TypeInv, TypeOK, diskVars
<1>6. CASE DrainRotated(w)
  <2> DEFINE lines == IF rotated = rd[w].prev.inode
                      THEN ReadFrom(rotated, rotated, rd[w].prev.offset) ELSE <<>>
             c == [rd[w] EXCEPT !.pc = "read", !.lines = lines]
  <2>1. rd' = [rd EXCEPT ![w] = c] /\ pos' = pos /\ rows' = rows /\ crashes' = crashes
        /\ rd[w].pc = "drain"
    BY <1>3, <1>6 DEF DrainRotated
  <2>2. lines \in Seq(Row)
    <3>1. rd[w].prev.inode \in Inodes /\ rd[w].prev.offset \in Nat
      BY <1>3, <2>1 DEF Fits, CycleState
    <3> QED
      BY <3>1, ReadFromReads DEF TypeInv
  <2> HIDE DEF lines
  <2>3. Fits(c)
    BY <1>3, <2>1, <2>2 DEF Fits, CycleState
  <2> HIDE DEF c
  <2> QED
    BY <1>1, <1>4, <2>1, <2>3 DEF TypeInv, TypeOK, diskVars
<1>7. CASE ReadPath(w)
  <2> DEFINE lines == rd[w].lines \o ReadFrom(path, rd[w].inode, rd[w].start)
             off == NewOffset(path, rd[w].start)
             c == [rd[w] EXCEPT !.pc = "commit", !.lines = lines, !.off = off]
  <2>1. rd' = [rd EXCEPT ![w] = c] /\ pos' = pos /\ rows' = rows /\ crashes' = crashes
        /\ rd[w].pc = "read" /\ path # NoFile
    BY <1>3, <1>7 DEF ReadPath
  <2>2. lines \in Seq(Row) /\ off \in Nat
    <3>1. rd[w].inode \in Inodes /\ rd[w].start \in Nat /\ rd[w].lines \in Seq(Row)
      BY <1>3, <2>1 DEF Fits, CycleState
    <3>2. path \in Inodes
      BY <2>1 DEF TypeInv, TypeOK
    <3>3. ReadFrom(path, rd[w].inode, rd[w].start) \in Seq(Row) /\ off \in Nat
      BY <3>1, <3>2, ReadFromReads DEF TypeInv
    <3> QED
      BY <3>1, <3>3, ConcatProperties
  <2> HIDE DEF lines, off
  <2>3. Fits(c)
    BY <1>3, <2>1, <2>2 DEF Fits, CycleState
  <2> HIDE DEF c
  <2> QED
    BY <1>1, <1>4, <2>1, <2>3 DEF TypeInv, TypeOK, diskVars
<1>8. CASE ReadFails(w)
  BY <1>1, <1>2, <1>4, <1>8 DEF ReadFails, TypeInv, TypeOK, diskVars
<1>9. CASE Commit(w)
  <2>1. rd[w].lines \in Seq(Row) /\ rd[w].off \in Nat /\ rd[w].inode \in Inodes
    BY <1>3, <1>9 DEF Fits, CycleState, Commit
  <2>2. Inserted(rd[w].lines) \in Seq(Row)
    BY <2>1, InsertedInserts
  <2>3. rows' \in Seq(Row)
    BY <1>9, <2>2, ConcatProperties DEF Commit, TypeInv, TypeOK
  <2>4. pos' \in [inode : Inodes \cup {NoFile}, offset : Nat, error : BOOLEAN]
    BY <1>9, <2>1 DEF Commit
  <2>5. rd' = [rd EXCEPT ![w] = IdleCycle] /\ crashes' = crashes
    BY <1>9 DEF Commit
  <2> QED
    BY <1>1, <1>2, <1>4, <2>3, <2>4, <2>5 DEF TypeInv, TypeOK, diskVars
<1>10. CASE Crash(w)
  <2>1. crashes' \in 0 .. MaxCrashes
    BY <1>10 DEF Crash, TypeInv, TypeOK
  <2> QED
    BY <1>1, <1>2, <1>4, <1>10, <2>1 DEF Crash, TypeInv, TypeOK, diskVars
<1> QED
  BY <1>5, <1>6, <1>7, <1>8, <1>9, <1>10 DEF Cycle

(* They hold at the start.                                                 *)
LEMMA InitTypes ==
    ASSUME Init
    PROVE  TypeInv
<1> USE LogTailAssumption
<1>1. IdleCycle \in CycleState /\ IdleCycle.pc = "idle"
  BY DEF IdleCycle, CycleState
<1>2. rd \in [Workers -> CycleState] /\ LabelsTyped
  BY <1>1 DEF Init, LabelsTyped
<1>3. /\ content \in [Inodes -> Seq(Line)] /\ rows \in Seq(Row)
      /\ pos \in [inode : Inodes \cup {NoFile}, offset : Nat, error : BOOLEAN]
  BY DEF Init
<1>4. next \in 1 .. MaxLines + 1 /\ rotations \in 0 .. MaxRotations /\ crashes \in 0 .. MaxCrashes
  BY DEF Init
<1> QED
  BY <1>2, <1>3, <1>4 DEF Init, TypeInv, TypeOK

(* Every variable stays in its type, and a cycle under way has a label for  *)
(* what it reads, whatever rotations, late writes and crashes there are.    *)
THEOREM TypeCorrect == Spec => []TypeInv
<1>1. Init => TypeInv
  BY InitTypes
<1>2. TypeInv /\ [Next]_vars => TypeInv'
  <2> SUFFICES ASSUME TypeInv, [Next]_vars PROVE TypeInv'
    OBVIOUS
  <2>1. CASE UNCHANGED vars
    BY <2>1 DEF vars, diskVars, TypeInv, TypeOK, LabelsTyped
  <2>2. CASE Next
    BY <2>2, RotatingKeepsTypes, CycleKeepsTypes DEF Next, Rotating
  <2> QED
    BY <2>1, <2>2
<1> QED
  BY <1>1, <1>2, PTL DEF Spec

-----------------------------------------------------------------------------
(* What each step of a worker makes. *)

LEMMA WorkerStep ==
    ASSUME TypeInv, NEW w \in Workers, Cycle(w) \/ Crash(w)
    PROVE  /\ content' = content /\ path' = path /\ rotated' = rotated /\ fd' = fd
           /\ torn' = torn /\ next' = next /\ unused' = unused
           /\ \A u \in Workers \ {w} : rd'[u] = rd[u]
           /\ TypeInv'
<1>1. UNCHANGED diskVars
  BY DEF Cycle, Stat, DrainRotated, ReadPath, ReadFails, Commit, Crash
<1>2. \A u \in Workers \ {w} : rd'[u] = rd[u]
  BY DEF Cycle, Stat, DrainRotated, ReadPath, ReadFails, Commit, Crash, TypeInv, TypeOK
<1> QED
  BY <1>1, <1>2, CycleKeepsTypes DEF diskVars

(* What Stat does to a cycle.                                              *)
LEMMA StatStep ==
    ASSUME TypeInv, NEW w \in Workers, Stat(w)
    PROVE  /\ rd[w].pc = "idle" /\ path \in Inodes /\ pos' = pos /\ rows' = rows
           /\ rd'[w].pc = IF pos.inode # NoFile /\ pos.inode # path THEN "drain" ELSE "read"
           /\ rd'[w].prev = [inode |-> pos.inode, offset |-> pos.offset]
           /\ rd'[w].inode = path /\ rd'[w].lines = rd[w].lines
           /\ rd'[w].start = IF \/ pos.inode # NoFile /\ pos.inode # path
                                \/ pos.inode = path /\ Len(content[path]) < pos.offset
                             THEN 0 ELSE pos.offset
<1>1. rd \in [Workers -> CycleState] /\ rd[w] \in CycleState
  BY DEF TypeInv, TypeOK
<1>2. path \in Inodes
  BY DEF Stat, TypeInv, TypeOK
<1> QED
  BY <1>1, <1>2 DEF Stat, CycleState

(* What DrainRotated does to it.                                           *)
LEMMA DrainStep ==
    ASSUME TypeInv, NEW w \in Workers, DrainRotated(w)
    PROVE  /\ rd[w].pc = "drain" /\ pos' = pos /\ rows' = rows
           /\ rd'[w].pc = "read" /\ rd'[w].prev = rd[w].prev
           /\ rd'[w].inode = rd[w].inode /\ rd'[w].start = rd[w].start
           /\ rd'[w].lines = IF rotated = rd[w].prev.inode
                             THEN ReadFrom(rotated, rotated, rd[w].prev.offset) ELSE <<>>
<1>1. rd \in [Workers -> CycleState] /\ rd[w] \in CycleState
  BY DEF TypeInv, TypeOK
<1> QED
  BY <1>1 DEF DrainRotated, CycleState

(* What ReadPath does to it.                                               *)
LEMMA ReadStep ==
    ASSUME TypeInv, NEW w \in Workers, ReadPath(w)
    PROVE  /\ rd[w].pc = "read" /\ path \in Inodes /\ pos' = pos /\ rows' = rows
           /\ rd'[w].pc = "commit" /\ rd'[w].prev = rd[w].prev /\ rd'[w].inode = rd[w].inode
           /\ rd'[w].lines = rd[w].lines \o ReadFrom(path, rd[w].inode, rd[w].start)
           /\ rd'[w].off = NewOffset(path, rd[w].start)
<1>1. rd \in [Workers -> CycleState] /\ rd[w] \in CycleState
  BY DEF TypeInv, TypeOK
<1>2. path \in Inodes
  BY DEF ReadPath, TypeInv, TypeOK
<1> QED
  BY <1>1, <1>2 DEF ReadPath, CycleState

(* A cycle that fails or dies leaves rows and position.                    *)
LEMMA AbandonStep ==
    ASSUME TypeInv, NEW w \in Workers, ReadFails(w) \/ Crash(w)
    PROVE  /\ rd'[w] = IdleCycle /\ rows' = rows
           /\ pos'.inode = pos.inode /\ pos'.offset = pos.offset
  BY DEF ReadFails, Crash, TypeInv, TypeOK

(* What Commit does to a cycle, the rows and the position.                 *)
LEMMA CommitStep ==
    ASSUME TypeInv, NEW w \in Workers, Commit(w)
    PROVE  /\ rd[w].pc = "commit" /\ rd'[w] = IdleCycle
           /\ rows' = rows \o Inserted(rd[w].lines)
           /\ pos'.inode = rd[w].inode /\ pos'.offset = rd[w].off
           /\ rd[w].lines \in Seq(Row)
  BY DEF Commit, TypeInv, TypeOK, CycleState

-----------------------------------------------------------------------------
(* The keys, while no rotation falls into a cycle. *)

LEMMA ShownIs ==
    \A r : r \in Shown <=> \E i \in Live : \E m \in DOMAIN content[i] : r = RowAt(i, m)
BY DEF Shown

(* A known row is stored or in a batch.                                    *)
LEMMA KnownIs ==
    \A r : r \in Known <=> \/ \E k \in DOMAIN rows : r = rows[k]
                          \/ \E w \in Workers : \E n \in DOMAIN rd[w].lines : r = rd[w].lines[n]
BY DEF Known, Batch

(* Known rows have the type of rows, and their lines are integers.         *)
LEMMA KnownAreRows ==
    ASSUME TypeOK
    PROVE  \A r \in Known : r \in Row /\ r.line \in Int
<1>1. ASSUME NEW k \in DOMAIN rows PROVE rows[k] \in Row
  <2>1. rows \in Seq(Row) /\ k \in 1 .. Len(rows)
    BY DEF TypeOK
  <2> QED
    BY <2>1, ElementOfSeq
<1>2. ASSUME NEW w \in Workers, NEW n \in DOMAIN rd[w].lines PROVE rd[w].lines[n] \in Row
  <2>1. rd[w].lines \in Seq(Row)
    BY DEF TypeOK, CycleState
  <2>2. n \in 1 .. Len(rd[w].lines)
    BY <2>1
  <2> QED
    BY <2>1, <2>2, ElementOfSeq
<1>3. \A r \in Row : r.line \in Int
  BY LogTailAssumption DEF Row, Line
<1> QED
  BY <1>1, <1>2, <1>3, KnownIs

(* What is read of a file under its own label are rows of that file, each   *)
(* once.                                                                   *)
LEMMA ReadsAreRows ==
    ASSUME TypeInv, NEW i \in Inodes, NEW start \in Nat
    PROVE  LET R == ReadFrom(i, i, start)
           IN /\ R \in Seq(Row)
              /\ \A n \in DOMAIN R :
                    /\ start + n \in DOMAIN content[i] /\ start + n <= Whole(i)
                    /\ R[n] = RowAt(i, start + n)
              /\ \A j, k \in DOMAIN R : R[j] = R[k] => j = k
<1> DEFINE R == ReadFrom(i, i, start)
<1>1. /\ R \in Seq(Row) /\ Whole(i) \in Int
      /\ \A n \in 1 .. Len(R) : /\ start + n \in 1 .. Whole(i) /\ start + n \in DOMAIN content[i]
                               /\ R[n] = RowAt(i, start + n)
  BY ReadFromReads DEF TypeInv, RowAt
<1> HIDE DEF R
<1>2. DOMAIN R = 1 .. Len(R) /\ Len(R) \in Nat
  BY <1>1
<1>3. \A j, k \in 1 .. Len(R) : R[j] = R[k] => j = k
  <2> SUFFICES ASSUME NEW j \in 1 .. Len(R), NEW k \in 1 .. Len(R), R[j] = R[k] PROVE j = k
    OBVIOUS
  <2>1. RowAt(i, start + j) = RowAt(i, start + k)
    BY <1>1
  <2>2. start + j - 1 = start + k - 1
    BY <2>1 DEF RowAt
  <2> QED
    BY <1>2, <2>2
<1>4. \A n \in 1 .. Len(R) : start + n <= Whole(i)
  BY <1>1, <1>2
<1> QED
  BY <1>1, <1>2, <1>3, <1>4 DEF R

(* A step that brings no row that was not known or shown keeps the keys.    *)
LEMMA NoNewKeys ==
    ASSUME OneKey, LinesArePast, next' = next,
           \A r : r \in Known' \/ r \in Shown' => r \in Known \/ r \in Shown,
           \A i \in Live : i \in Inodes
    PROVE  OneKey' /\ \A r \in Known' : r.line < next'
<1>1. \A r \in Shown : r.line < next
  BY ShownIs DEF LinesArePast, RowAt
<1> QED
  BY <1>1 DEF OneKey, LinesArePast

(* Batches stay free of repetition in a step that leaves them alone or      *)
(* empties them.                                                           *)
LEMMA IdleHasNoLines ==
    IdleCycle.lines = <<>> /\ IdleCycle.pc = "idle" /\ DOMAIN IdleCycle.lines = {}
    /\ IdleCycle.prev.inode = NoFile
BY DEF IdleCycle

(* No step of theirs that falls outside of cycles gives a line a second    *)
(* key.                                                                    *)
LEMMA RotatingKeepsKeys ==
    ASSUME Undisturbed, KeyInv, Rotating
    PROVE  KeyInv'
<1> USE LogTailAssumption
<1>1. rd' = rd /\ pos' = pos /\ rows' = rows
  BY DEF Rotating, StartLine, EndLine, Rename, Create, Reopen, CopyTruncate
<1>2. TypeInv /\ TypeInv'
  BY RotatingKeepsTypes DEF KeyInv, TypeInv
<1>3. Known' = Known /\ NoRepeats' /\ \A w \in Workers : Batch(w)' = Batch(w)
  BY <1>1 DEF Known, Batch, KeyInv, NoRepeats
<1>4. \A i \in Live : i \in Inodes
  BY DEF Live
<1>5. path = NoFile => \A w \in Workers : rd[w].pc = "idle"
  BY DEF KeyInv, CycleInv, LabelsTyped
<1>6. MayRotate => \A w \in Workers : rd[w].pc = "idle" /\ rd[w] = IdleCycle
  BY DEF MayRotate, May, Undisturbed, KeyInv, CycleInv
<1>7. next \in Int /\ path \in Inodes \cup {NoFile} /\ rotated \in Inodes \cup {NoFile} /\ fd \in Inodes
  BY <1>2 DEF TypeInv, TypeOK
<1>8. \A i \in Inodes : content[i] \in Seq(Line)
  BY <1>2 DEF TypeInv, TypeOK
<1>9. CASE StartLine
  <2>1. /\ path' = path /\ rotated' = rotated /\ fd' = fd /\ next' = next + 1
        /\ content' = [content EXCEPT ![fd] = Append(content[fd], next)]
    BY <1>9 DEF StartLine
  <2>2. CycleInv'
    BY <1>1, <1>3, <2>1 DEF KeyInv, CycleInv
  <2>3. \A i \in Inodes : \A m \in DOMAIN content'[i] :
            \/ m \in DOMAIN content[i] /\ content'[i][m] = content[i][m]
            \/ i = fd /\ content'[i][m] = next /\ m = Len(content[fd]) + 1
    <3>1. Append(content[fd], next) \in Seq(Line \cup {next})
      BY <1>7, <1>8
    <3>2. \A m \in DOMAIN Append(content[fd], next) :
            \/ m \in DOMAIN content[fd] /\ Append(content[fd], next)[m] = content[fd][m]
            \/ Append(content[fd], next)[m] = next /\ m = Len(content[fd]) + 1
      BY <1>7, <1>8, AppendProperties
    <3>3. DOMAIN content = Inodes
      BY <1>2 DEF TypeInv, TypeOK
    <3> QED
      BY <1>7, <2>1, <3>2, <3>3
  <2>4. LinesArePast'
    <3>1. \A r \in Known : r.line < next
      BY DEF KeyInv, LinesArePast
    <3>2. \A r \in Known : r.line \in Int
      BY KnownAreRows DEF KeyInv
    <3>3. \A i \in Inodes : \A m \in DOMAIN content[i] : content[i][m] \in Int /\ content[i][m] < next
      BY <1>8 DEF KeyInv, LinesArePast, Line
    <3> QED
      BY <1>3, <1>7, <2>1, <2>3, <3>1, <3>2, <3>3 DEF LinesArePast
  <2>5. Live' = Live
    BY <1>1, <2>1 DEF Live
  <2>6. \A r \in Shown' : r \in Shown \/ r = [inode |-> fd, offset |-> Len(content[fd]), line |-> next]
    <3> SUFFICES ASSUME NEW i \in Live, NEW m \in DOMAIN content'[i]
                 PROVE  \/ RowAt(i, m)' \in Shown
                        \/ RowAt(i, m)' = [inode |-> fd, offset |-> Len(content[fd]), line |-> next]
      BY <2>5 DEF Shown
    <3>1. CASE m \in DOMAIN content[i] /\ content'[i][m] = content[i][m]
      BY <3>1, ShownIs DEF RowAt
    <3>2. CASE i = fd /\ content'[i][m] = next /\ m = Len(content[fd]) + 1
      BY <1>7, <1>8, <3>2 DEF RowAt
    <3> QED
      BY <1>4, <2>3, <3>1, <3>2
  <2>7. OneKey'
    <3>1. \A r : r \in Known \/ r \in Shown => r.line < next
      BY <1>4, ShownIs DEF KeyInv, LinesArePast, RowAt
    <3>2. ~ (next < next)
      BY <1>7
    <3> QED
      BY <1>3, <2>6, <3>1, <3>2 DEF KeyInv, OneKey
  <2>8. ForeignIsUnread'
    <3>1. \A k \in DOMAIN rows : rows[k].line < next
      BY KnownIs DEF KeyInv, LinesArePast
    <3>2. ~ (next < next)
      BY <1>7
    <3> QED
      BY <1>1, <1>7, <2>1, <2>3, <3>1, <3>2 DEF KeyInv, ForeignIsUnread
  <2> QED
    BY <1>2, <1>3, <2>2, <2>4, <2>7, <2>8 DEF KeyInv, TypeInv
<1>10. CASE EndLine
  <2>1. /\ path' = path /\ rotated' = rotated /\ fd' = fd /\ next' = next /\ content' = content
    BY <1>10 DEF EndLine
  <2>2. Live' = Live /\ Shown' = Shown
    BY <1>1, <2>1 DEF Live, Shown, RowAt
  <2> QED
    BY <1>1, <1>2, <1>3, <2>1, <2>2
    DEF KeyInv, TypeInv, CycleInv, LinesArePast, OneKey, ForeignIsUnread
<1>11. CASE Rename
  <2>1. /\ path' = NoFile /\ rotated' = path /\ fd' = fd /\ next' = next /\ content' = content
        /\ fd = path /\ path # NoFile /\ MayRotate
    BY <1>11 DEF Rename, MayRotate
  <2>2. CycleInv'
    BY <1>1, <1>6, <2>1, IdleHasNoLines DEF KeyInv, CycleInv
  <2>3. \A i \in Live' : i \in Live
    BY <1>1, <2>1 DEF Live
  <2>4. \A r \in Shown' : r \in Shown
    BY <2>1, <2>3 DEF Shown, RowAt
  <2>5. OneKey' /\ LinesArePast'
    BY <1>3, <1>4, <2>1, <2>4, NoNewKeys DEF KeyInv, LinesArePast
  <2> QED
    BY <1>2, <1>3, <2>1, <2>2, <2>5 DEF KeyInv, TypeInv, ForeignIsUnread
<1>12. CASE Create
  <2>1. PICK i \in Inodes : /\ i \notin {path, rotated, fd} /\ path' = i
                            /\ content' = [content EXCEPT ![i] = <<>>]
    BY <1>2, <1>12, NewInodesAreInodes DEF Create, TypeInv
  <2>2. rotated' = rotated /\ fd' = fd /\ next' = next /\ path = NoFile
    BY <1>12 DEF Create
  <2>3. CycleInv'
    BY <1>1, <1>3, <1>5, <1>7, <2>1, <2>2 DEF KeyInv, CycleInv
  <2>4. content'[i] = <<>> /\ \A j \in Inodes \ {i} : content'[j] = content[j]
    BY <1>2, <2>1 DEF TypeInv, TypeOK
  <2>5. \A j \in Live' : j = i \/ j \in Live
    BY <1>1, <2>1, <2>2 DEF Live
  <2>6. \A r \in Shown' : r \in Shown
    BY <1>4, <2>4, <2>5 DEF Shown, RowAt
  <2>7. OneKey' /\ LinesArePast'
    <3>1. \A j \in Inodes : \A m \in DOMAIN content'[j] : content'[j][m] < next'
      BY <2>2, <2>4 DEF KeyInv, LinesArePast
    <3> QED
      BY <1>3, <1>4, <2>2, <2>6, <3>1, NoNewKeys DEF KeyInv, LinesArePast
  <2>8. ForeignIsUnread'
    BY <2>1, <2>4 DEF ForeignIsUnread
  <2> QED
    BY <1>2, <1>3, <2>3, <2>7, <2>8 DEF KeyInv, TypeInv
<1>13. CASE Reopen
  <2>1. /\ path' = path /\ rotated' = rotated /\ fd' = path /\ next' = next /\ content' = content
    BY <1>13 DEF Reopen
  <2>2. Live' = Live /\ Shown' = Shown
    BY <1>1, <2>1 DEF Live, Shown, RowAt
  <2> QED
    BY <1>1, <1>2, <1>3, <2>1, <2>2
    DEF KeyInv, TypeInv, CycleInv, LinesArePast, OneKey, ForeignIsUnread
<1>14. CASE CopyTruncate
  <2>1. PICK i \in Inodes : /\ i \notin {path, rotated, fd} /\ rotated' = i
                            /\ content' = [content EXCEPT ![i] = content[path], ![path] = <<>>]
    BY <1>2, <1>14, NewInodesAreInodes DEF CopyTruncate, TypeInv
  <2>2. path' = path /\ fd' = fd /\ next' = next /\ path \in Inodes /\ fd = path /\ MayRotate
    BY <1>2, <1>14 DEF CopyTruncate, MayRotate, TypeInv, TypeOK
  <2>3. CycleInv'
    BY <1>1, <1>3, <1>6, <2>1, <2>2, IdleHasNoLines DEF KeyInv, CycleInv
  <2>4. /\ content'[i] = content[path] /\ content'[path] = <<>>
        /\ \A j \in Inodes \ {i, path} : content'[j] = content[j]
    BY <1>2, <2>1, <2>2 DEF TypeInv, TypeOK
  <2>5. LinesArePast'
    <3>1. \A j \in Inodes : \A m \in DOMAIN content'[j] : content'[j][m] < next
      BY <2>2, <2>4 DEF KeyInv, LinesArePast
    <3> QED
      BY <1>3, <2>2, <3>1 DEF KeyInv, LinesArePast
  <2>6. \A r \in Shown' : /\ pos.inode = i
                         /\ \E m \in DOMAIN content[path] :
                               /\ r = [inode |-> i, offset |-> m - 1, line |-> content[path][m]]
    <3>1. \A w \in Workers : rd'[w].prev.inode = NoFile
      BY <1>1, <1>6, <2>2, IdleHasNoLines
    <3>2. \A j \in Live' : j = path \/ (j = i /\ pos.inode = i)
      BY <1>1, <2>1, <2>2, <3>1 DEF Live
    <3> QED
      BY <2>4, <3>2 DEF Shown, RowAt
  <2>7. \A m, n \in DOMAIN content[path] : content[path][m] = content[path][n] => m = n
    <3> SUFFICES ASSUME NEW m \in DOMAIN content[path], NEW n \in DOMAIN content[path],
                        content[path][m] = content[path][n]
                 PROVE  m = n
      OBVIOUS
    <3>1. RowAt(path, m) \in Shown /\ RowAt(path, n) \in Shown
      BY <2>2, ShownIs DEF Live
    <3>2. RowAt(path, m).offset = RowAt(path, n).offset
      BY <3>1 DEF KeyInv, OneKey, RowAt
    <3>3. m \in Int /\ n \in Int
      BY <1>8, <2>2
    <3> QED
      BY <3>2, <3>3 DEF RowAt
  <2>8. pos.inode = i =>
            \A r \in Known, m \in DOMAIN content[path] : r.line # content[path][m]
    <3>1. \A r \in Known : \E k \in DOMAIN rows : r = rows[k]
      BY <1>6, <2>2, IdleHasNoLines, KnownIs
    <3> QED
      BY <1>7, <2>1, <2>2, <3>1, LogTailAssumption DEF KeyInv, ForeignIsUnread
  <2>9. OneKey'
    BY <1>3, <2>6, <2>7, <2>8 DEF KeyInv, OneKey
  <2>10. ForeignIsUnread'
    BY <2>2, <2>4 DEF ForeignIsUnread
  <2> QED
    BY <1>2, <1>3, <2>3, <2>5, <2>9, <2>10 DEF KeyInv, TypeInv
<1> QED
  BY <1>9, <1>10, <1>11, <1>12, <1>13, <1>14 DEF Rotating

(* A worker reads files under their own labels, so what it adds to a batch  *)
(* or to the rows has been known or shown before.                           *)
LEMMA CycleKeepsKeys ==
    ASSUME KeyInv, NEW w \in Workers, Cycle(w) \/ Crash(w)
    PROVE  KeyInv' /\ \A r \in Known' : r \in Known \cup Shown
<1> USE LogTailAssumption
<1>1. TypeInv
  BY DEF KeyInv, TypeInv
<1>2. /\ content' = content /\ path' = path /\ rotated' = rotated /\ fd' = fd
      /\ torn' = torn /\ next' = next /\ unused' = unused
      /\ \A u \in Workers \ {w} : rd'[u] = rd[u]
      /\ TypeInv'
  BY <1>1, WorkerStep
<1>3. \A u \in Workers \ {w} : Batch(u)' = Batch(u)
  BY <1>2 DEF Batch
<1>4. \A i \in Live : i \in Inodes
  BY DEF Live
<1> DEFINE Keeps ==
        /\ \A i \in Live' : i \in Live
        /\ \A k \in DOMAIN rows' : rows'[k] \in Known
        /\ \A n \in DOMAIN rd'[w].lines : rd'[w].lines[n] \in Known \cup Shown
<1>5. ASSUME Keeps
      PROVE  OneKey' /\ LinesArePast' /\ \A r \in Known' : r \in Known \cup Shown
  <2>1. \A r \in Shown' : r \in Shown
    BY <1>2, <1>5 DEF Shown, RowAt
  <2>2. ASSUME NEW r \in Known' PROVE r \in Known \/ r \in Shown
    <3>1. CASE \E k \in DOMAIN rows' : r = rows'[k]
      BY <1>5, <3>1
    <3>2. CASE \E u \in Workers : \E n \in DOMAIN rd'[u].lines : r = rd'[u].lines[n]
      BY <1>2, <1>5, <3>2, KnownIs
    <3> QED
      BY <3>1, <3>2 DEF Known, Batch
  <2> QED
    BY <1>2, <1>4, <2>1, <2>2, NoNewKeys DEF KeyInv, LinesArePast
<1>6. /\ fd \in {path, rotated}
      /\ path # NoFile => path # rotated
      /\ \A u \in Workers :
          /\ rd[u].pc = "idle" => rd[u] = IdleCycle
          /\ rd[u].pc # "idle" => rd[u].inode = path
          /\ rd[u].pc = "drain" => rd[u].prev.inode # path
          /\ rd[u].pc = "read" => \A r \in Batch(u) : r.inode # path
  BY DEF KeyInv, CycleInv
<1> DEFINE Fits ==
        /\ rd'[w].pc = "idle" => rd'[w] = IdleCycle
        /\ rd'[w].pc # "idle" => rd'[w].inode = path
        /\ rd'[w].pc = "drain" => rd'[w].prev.inode # path
        /\ rd'[w].pc = "read" => \A n \in DOMAIN rd'[w].lines : rd'[w].lines[n].inode # path
<1>7. ASSUME Fits PROVE CycleInv'
  <2>1. \A u \in Workers \ {w} :
          /\ rd'[u].pc = "idle" => rd'[u] = IdleCycle
          /\ rd'[u].pc # "idle" => rd'[u].inode = path
          /\ rd'[u].pc = "drain" => rd'[u].prev.inode # path
          /\ rd'[u].pc = "read" => \A r \in Batch(u)' : r.inode # path
    BY <1>2, <1>3, <1>6
  <2>2. rd'[w].pc = "read" => \A r \in Batch(w)' : r.inode # path
    BY <1>7 DEF Batch
  <2> QED
    BY <1>2, <1>6, <1>7, <2>1, <2>2 DEF CycleInv
<1>8. ASSUME rows' = rows,
             \A j, k \in DOMAIN rd'[w].lines : rd'[w].lines[j] = rd'[w].lines[k] => j = k
      PROVE  NoRepeats'
  <2>1. \A u \in Workers : \A j, k \in DOMAIN rd'[u].lines :
            rd'[u].lines[j] = rd'[u].lines[k] => j = k
    BY <1>2, <1>8 DEF KeyInv, NoRepeats
  <2> QED
    BY <1>8, <2>1 DEF KeyInv, NoRepeats
<1>9. ASSUME rows' = rows, pos'.inode = pos.inode PROVE ForeignIsUnread'
  BY <1>2, <1>9 DEF KeyInv, ForeignIsUnread
<1>10. rows' = rows => \A k \in DOMAIN rows' : rows'[k] \in Known
  BY KnownIs
<1> HIDE DEF Keeps, Fits
<1>11. CASE Stat(w)
  <2>1. /\ rd[w].pc = "idle" /\ path \in Inodes /\ pos' = pos /\ rows' = rows
        /\ rd'[w].pc = IF pos.inode # NoFile /\ pos.inode # path THEN "drain" ELSE "read"
        /\ rd'[w].prev.inode = pos.inode
        /\ rd'[w].inode = path /\ rd'[w].lines = rd[w].lines
    BY <1>1, <1>11, StatStep
  <2>2. DOMAIN rd'[w].lines = {}
    BY <1>6, <2>1, IdleHasNoLines
  <2>3. Keeps
    <3>1. \A i \in Live' : i \in Live
      BY <1>2, <2>1 DEF Live
    <3> QED
      BY <1>10, <2>1, <2>2, <3>1 DEF Keeps
  <2>4. Fits
    BY <2>1, <2>2 DEF Fits
  <2> QED
    BY <1>2, <1>5, <1>7, <1>8, <1>9, <2>1, <2>2, <2>3, <2>4 DEF KeyInv, TypeInv
<1>12. CASE DrainRotated(w)
  <2>1. /\ rd[w].pc = "drain" /\ pos' = pos /\ rows' = rows
        /\ rd'[w].pc = "read" /\ rd'[w].prev = rd[w].prev /\ rd'[w].inode = rd[w].inode
        /\ rd'[w].lines = IF rotated = rd[w].prev.inode
                          THEN ReadFrom(rotated, rotated, rd[w].prev.offset) ELSE <<>>
    BY <1>1, <1>12, DrainStep
  <2>2. \A i \in Live' : i \in Live
    BY <1>2, <2>1 DEF Live
  <2>3. CASE rotated # rd[w].prev.inode
    <3>1. DOMAIN rd'[w].lines = {}
      BY <2>1, <2>3
    <3>2. Keeps /\ Fits
      BY <1>6, <1>10, <2>1, <2>2, <3>1 DEF Keeps, Fits
    <3> QED
      BY <1>2, <1>5, <1>7, <1>8, <1>9, <2>1, <3>1, <3>2 DEF KeyInv, TypeInv
  <2>4. CASE rotated = rd[w].prev.inode
    <3> DEFINE R == ReadFrom(rotated, rotated, rd[w].prev.offset)
    <3>1. rotated \in Inodes /\ rd[w].prev.offset \in Nat
      BY <1>1, <2>1, <2>4 DEF TypeInv, TypeOK, CycleState, LabelsTyped
    <3>2. rotated \in Live /\ rotated # path
      BY <1>6, <2>1, <2>4, <3>1 DEF Live
    <3>3. /\ \A n \in DOMAIN R : /\ rd[w].prev.offset + n \in DOMAIN content[rotated]
                                 /\ R[n] = RowAt(rotated, rd[w].prev.offset + n)
          /\ \A j, k \in DOMAIN R : R[j] = R[k] => j = k
      BY <1>1, <3>1, ReadsAreRows
    <3> HIDE DEF R
    <3>4. rd'[w].lines = R
      BY <2>1, <2>4 DEF R
    <3>5. \A n \in DOMAIN R : R[n] \in Shown /\ R[n].inode # path
      BY <3>2, <3>3, ShownIs DEF RowAt
    <3>6. Keeps /\ Fits
      BY <1>6, <1>10, <2>1, <2>2, <3>4, <3>5 DEF Keeps, Fits
    <3> QED
      BY <1>2, <1>5, <1>7, <1>8, <1>9, <2>1, <3>3, <3>4, <3>6 DEF KeyInv, TypeInv
  <2> QED
    BY <2>3, <2>4
<1>13. CASE ReadPath(w)
  <2> DEFINE R == ReadFrom(path, path, rd[w].start)
             L == rd[w].lines
  <2>1. /\ rd[w].pc = "read" /\ path \in Inodes /\ pos' = pos /\ rows' = rows
        /\ rd'[w].pc = "commit" /\ rd'[w].prev = rd[w].prev /\ rd'[w].inode = path
        /\ rd'[w].lines = L \o R
    BY <1>1, <1>6, <1>13, ReadStep
  <2>2. \A i \in Live' : i \in Live
    BY <1>2, <2>1 DEF Live
  <2>3. rd[w].start \in Nat /\ L \in Seq(Row)
    BY <1>1 DEF TypeInv, TypeOK, CycleState
  <2>4. /\ R \in Seq(Row)
        /\ \A n \in DOMAIN R : /\ rd[w].start + n \in DOMAIN content[path]
                             /\ R[n] = RowAt(path, rd[w].start + n)
        /\ \A j, k \in DOMAIN R : R[j] = R[k] => j = k
    BY <1>1, <2>1, <2>3, ReadsAreRows
  <2> HIDE DEF R
  <2>5. \A n \in DOMAIN R : R[n] \in Shown /\ R[n].inode = path
    BY <2>1, <2>4, ShownIs DEF RowAt, Live
  <2>6. \A n \in DOMAIN L : L[n] \in Known /\ L[n].inode # path
    BY <1>6, <2>1, KnownIs DEF Batch
  <2>7. \A j, k \in DOMAIN L : L[j] = L[k] => j = k
    BY DEF KeyInv, NoRepeats
  <2> HIDE DEF L
  <2>8. \A k \in DOMAIN (L \o R) :
          \/ k \in DOMAIN L /\ (L \o R)[k] = L[k]
          \/ k > Len(L) /\ k - Len(L) \in DOMAIN R /\ (L \o R)[k] = R[k - Len(L)]
    BY <2>3, <2>4, ConcatElements
  <2>9. \A j, k \in DOMAIN (L \o R) : (L \o R)[j] = (L \o R)[k] => j = k
    <3>1. Len(L) \in Int /\ \A k \in DOMAIN (L \o R) : k \in Int
      BY <2>3, <2>4
    <3> QED
      BY <2>4, <2>5, <2>6, <2>7, <2>8, <3>1
  <2>10. Keeps /\ Fits
    <3>1. \A n \in DOMAIN (L \o R) : (L \o R)[n] \in Known \cup Shown
      BY <2>5, <2>6, <2>8
    <3> QED
      BY <1>10, <2>1, <2>2, <3>1 DEF Keeps, Fits
  <2> QED
    BY <1>2, <1>5, <1>7, <1>8, <1>9, <2>1, <2>9, <2>10 DEF KeyInv, TypeInv
<1>14. CASE ReadFails(w) \/ Crash(w)
  <2>1. /\ rd'[w] = IdleCycle /\ rows' = rows
        /\ pos'.inode = pos.inode /\ pos'.offset = pos.offset
    BY <1>1, <1>14, AbandonStep
  <2>2. \A i \in Live' : i \in Live
    BY <1>2, <2>1, IdleHasNoLines DEF Live
  <2>3. Keeps /\ Fits
    BY <1>10, <2>1, <2>2, IdleHasNoLines DEF Keeps, Fits
  <2> QED
    BY <1>2, <1>5, <1>7, <1>8, <1>9, <2>1, <2>3, IdleHasNoLines DEF KeyInv, TypeInv
<1>15. CASE Commit(w)
  <2> DEFINE L == rd[w].lines
             I == Inserted(L)
             f == Ascending(Fresh(L))
  <2>1. /\ rd[w].pc = "commit" /\ rd'[w] = IdleCycle /\ rows' = rows \o I
        /\ pos'.inode = path /\ L \in Seq(Row)
    BY <1>1, <1>6, <1>15, CommitStep
  <2>2. path \in Inodes
    BY <1>1, <1>6, <2>1 DEF TypeInv, LabelsTyped
  <2>3. /\ I \in Seq(Row)
        /\ f \in [1 .. Len(I) -> Fresh(L)]
        /\ \A n \in 1 .. Len(I) : I[n] = L[f[n]]
        /\ \A m, n \in 1 .. Len(I) : m < n => f[m] < f[n]
    BY <2>1, InsertedInserts
  <2>4. \A k \in Fresh(L) : k \in DOMAIN L /\ k \in Int /\ \A m \in DOMAIN rows : rows[m] # L[k]
    <3>1. \A k \in DOMAIN L : k \in Int
      BY <2>1
    <3> HIDE DEF L
    <3>2. \A k \in Fresh(L) : k \in DOMAIN L /\ \A m \in DOMAIN rows : ~ SameKey(rows[m], L[k])
      BY DEF Fresh
    <3>3. \A r : SameKey(r, r)
      BY DEF SameKey
    <3> QED
      BY <3>1, <3>2, <3>3
  <2>5. \A j, k \in DOMAIN L : L[j] = L[k] => j = k
    BY DEF KeyInv, NoRepeats
  <2>6. \A k \in DOMAIN L : L[k] \in Known
    BY KnownIs
  <2> HIDE DEF L, I, f
  <2>7. DOMAIN I = 1 .. Len(I) /\ Len(I) \in Nat /\ rows \in Seq(Row)
    BY <1>1, <2>3 DEF TypeInv, TypeOK
  <2>8. \A j, k \in DOMAIN I : I[j] = I[k] => j = k
    <3> SUFFICES ASSUME NEW j \in 1 .. Len(I), NEW k \in 1 .. Len(I), I[j] = I[k], j # k
                 PROVE  FALSE
      BY <2>7
    <3>1. f[j] \in Int /\ f[k] \in Int /\ f[j] = f[k]
      BY <2>3, <2>4, <2>5
    <3>2. j < k \/ k < j
      BY <2>7
    <3> QED
      BY <2>3, <3>1, <3>2
  <2>9. \A k \in DOMAIN I : I[k] \in Known /\ \A m \in DOMAIN rows : rows[m] # I[k]
    BY <2>3, <2>4, <2>6, <2>7
  <2>10. \A k \in DOMAIN (rows \o I) :
          \/ k \in DOMAIN rows /\ (rows \o I)[k] = rows[k]
          \/ k > Len(rows) /\ k - Len(rows) \in DOMAIN I /\ (rows \o I)[k] = I[k - Len(rows)]
    BY <2>3, <2>7, ConcatElements
  <2>11. \A j, k \in DOMAIN rows' : rows'[j] = rows'[k] => j = k
    <3>1. Len(rows) \in Int /\ \A k \in DOMAIN (rows \o I) : k \in Int
      BY <2>3, <2>7
    <3>2. \A j, k \in DOMAIN rows : rows[j] = rows[k] => j = k
      BY DEF KeyInv, NoRepeats
    <3> QED
      BY <2>1, <2>8, <2>9, <2>10, <3>1, <3>2
  <2>12. NoRepeats'
    <3>1. \A u \in Workers : \A j, k \in DOMAIN rd'[u].lines :
            rd'[u].lines[j] = rd'[u].lines[k] => j = k
      BY <1>2, <2>1, IdleHasNoLines DEF KeyInv, NoRepeats
    <3> QED
      BY <2>11, <3>1 DEF NoRepeats
  <2>13. Keeps
    <3>1. \A i \in Live' : i \in Live
      BY <1>2, <1>6, <2>1, <2>2, IdleHasNoLines, LogTailAssumption DEF Live
    <3>2. \A k \in DOMAIN rows' : rows'[k] \in Known
      BY <2>1, <2>9, <2>10, KnownIs
    <3> QED
      BY <2>1, <3>1, <3>2, IdleHasNoLines DEF Keeps
  <2>14. Fits
    BY <2>1, IdleHasNoLines DEF Fits
  <2>15. ForeignIsUnread'
    BY <1>2, <2>1 DEF ForeignIsUnread
  <2> QED
    BY <1>2, <1>5, <1>7, <2>12, <2>13, <2>14, <2>15 DEF KeyInv, TypeInv
<1> QED
  BY <1>11, <1>12, <1>13, <1>14, <1>15 DEF Cycle

(* The invariant of keys, for every environment that leaves a cycle alone. *)
LEMMA KeysStep ==
    ASSUME Undisturbed
    PROVE  /\ Init => KeyInv
           /\ KeyInv /\ [Next]_vars => KeyInv'
<1>1. Init => KeyInv
  <2> SUFFICES ASSUME Init PROVE KeyInv
    OBVIOUS
  <2>1. TypeInv
    BY InitTypes
  <2>2. /\ rows = <<>> /\ rotated = NoFile /\ fd = path /\ path \in Inodes
        /\ content = [i \in Inodes |-> <<>>]
        /\ \A w \in Workers : rd[w] = IdleCycle
    BY DEF Init
  <2>3. Known = {} /\ Shown = {}
    BY <2>2, IdleHasNoLines, KnownIs, ShownIs DEF Live
  <2>4. CycleInv
    BY <2>2, IdleHasNoLines, LogTailAssumption DEF CycleInv
  <2> QED
    BY <2>1, <2>2, <2>3, <2>4, IdleHasNoLines
    DEF KeyInv, TypeInv, LinesArePast, OneKey, NoRepeats, ForeignIsUnread
<1>2. KeyInv /\ [Next]_vars => KeyInv'
  <2> SUFFICES ASSUME KeyInv, [Next]_vars PROVE KeyInv'
    OBVIOUS
  <2>1. CASE UNCHANGED vars
    <3>1. /\ content' = content /\ path' = path /\ rotated' = rotated /\ fd' = fd
          /\ next' = next /\ pos' = pos /\ rows' = rows /\ rd' = rd
      BY <2>1 DEF vars, diskVars
    <3>2. TypeOK' /\ LabelsTyped'
      BY <2>1 DEF vars, diskVars, KeyInv, TypeOK, LabelsTyped
    <3>3. Known' = Known /\ Shown' = Shown /\ \A w \in Workers : Batch(w)' = Batch(w)
      BY <3>1 DEF Known, Batch, Shown, RowAt, Live
    <3>4. CycleInv' /\ LinesArePast'
      BY <3>1, <3>3 DEF KeyInv, CycleInv, LinesArePast
    <3>5. OneKey' /\ NoRepeats' /\ ForeignIsUnread'
      BY <3>1, <3>3 DEF KeyInv, OneKey, NoRepeats, ForeignIsUnread
    <3> QED
      BY <3>2, <3>4, <3>5 DEF KeyInv
  <2>2. CASE Next
    BY <2>2, RotatingKeepsKeys, CycleKeepsKeys DEF Next, Rotating
  <2> QED
    BY <2>1, <2>2
<1> QED
  BY <1>1, <1>2

(* No line of the log is ever two rows, however many workers read it at the *)
(* same time, whatever crashed and whichever way its files rotated, if no   *)
(* rotation falls between a cycle's stat and its commit.                    *)
THEOREM NoDoubleCountTheorem ==
    ASSUME Undisturbed
    PROVE  Spec => []NoDoubleCount
<1>1. KeyInv => NoDoubleCount
  BY KnownIs DEF KeyInv, OneKey, NoRepeats, NoDoubleCount
<1> QED
  BY <1>1, KeysStep, PTL DEF Spec

-----------------------------------------------------------------------------
(* What was read is still there, while files are neither truncated nor      *)
(* their inodes reused.                                                    *)

FilesInv == KeyInv /\ FilesOnlyGrow

(* The invariant of files that stay, together with that of keys.           *)
LEMMA FilesHold ==
    ASSUME FilesStay
    PROVE  /\ Init => FilesInv
           /\ FilesInv /\ [Next]_vars => FilesInv'
<1> USE LogTailAssumption
<1>1. Undisturbed
  BY DEF Undisturbed, FilesStay
<1>2. Init => FilesOnlyGrow
  BY KnownIs, IdleHasNoLines DEF Init, FilesOnlyGrow
<1>3. ASSUME FilesInv, [Next]_vars PROVE FilesOnlyGrow'
  <2>1. TypeInv /\ \A i \in Inodes : content[i] \in Seq(Line)
    BY <1>3 DEF FilesInv, KeyInv, TypeInv, TypeOK
  <2>2. \A r \in Known : /\ r.inode \in Inodes /\ r.offset \in Nat
                        /\ r.offset < Len(content[r.inode])
                        /\ content[r.inode][r.offset + 1] = r.line
    BY <1>3, KnownAreRows DEF FilesInv, KeyInv, FilesOnlyGrow, Row
  <2>3. CASE StartLine
    <3>1. /\ path' = path /\ rotated' = rotated /\ fd' = fd /\ unused' = unused
          /\ content' = [content EXCEPT ![fd] = Append(content[fd], next)]
          /\ rows' = rows /\ rd' = rd
      BY <2>3 DEF StartLine
    <3>2. Known' = Known
      BY <3>1 DEF Known, Batch
    <3>3. fd \in Inodes /\ DOMAIN content = Inodes
      BY <2>1 DEF TypeInv, TypeOK
    <3>4. \A r \in Known' : r.offset < Len(content'[r.inode])
                           /\ content'[r.inode][r.offset + 1] = r.line
      <4> SUFFICES ASSUME NEW r \in Known
                   PROVE  r.offset < Len(content'[r.inode])
                          /\ content'[r.inode][r.offset + 1] = r.line
        BY <3>2
      <4>1. CASE r.inode = fd
        <5> DEFINE o == r.offset
                   c == content[fd]
        <5>1. c \in Seq(Line) /\ o \in Nat /\ o < Len(c) /\ c[o + 1] = r.line
          BY <2>1, <2>2, <3>3, <4>1
        <5>2. content'[fd] = Append(c, next)
          BY <3>1, <3>3
        <5> HIDE DEF o, c
        <5>3. o < Len(Append(c, next)) /\ Append(c, next)[o + 1] = c[o + 1]
          BY <5>1, AppendProperties
        <5> QED
          BY <4>1, <5>1, <5>2, <5>3 DEF o, c
      <4>2. CASE r.inode # fd
        BY <2>2, <3>1, <3>3, <4>2
      <4> QED
        BY <4>1, <4>2
    <3>5. fd \notin unused /\ \A i \in unused : i \in Inodes /\ content'[i] = content[i]
      BY <1>3, <2>1, <3>1, <3>3 DEF FilesInv, FilesOnlyGrow, TypeInv, TypeOK
    <3> QED
      BY <1>3, <3>1, <3>4, <3>5 DEF FilesInv, FilesOnlyGrow
  <2>4. CASE Create
    <3>1. PICK i \in unused : /\ path' = i /\ unused' = unused \ {i}
                              /\ content' = [content EXCEPT ![i] = <<>>]
      BY <2>4 DEF Create, NewInodes, May, FilesStay
    <3>2. content' = content
      BY <1>3, <2>1, <3>1 DEF FilesInv, FilesOnlyGrow, TypeInv, TypeOK
    <3>3. rotated' = rotated /\ fd' = fd /\ rows' = rows /\ rd' = rd
      BY <2>4 DEF Create
    <3>4. Known' = Known
      BY <3>3 DEF Known, Batch
    <3> QED
      BY <1>3, <3>1, <3>2, <3>3, <3>4 DEF FilesInv, FilesOnlyGrow
  <2>5. CASE EndLine \/ Rename \/ Reopen \/ UNCHANGED vars
    <3>1. /\ rows' = rows /\ rd' = rd /\ content' = content /\ unused' = unused
          /\ {path', rotated', fd'} \subseteq {path, rotated, fd, NoFile}
      BY <2>5 DEF EndLine, Rename, Reopen, vars, diskVars
    <3>2. Known' = Known
      BY <3>1 DEF Known, Batch
    <3>3. NoFile \notin unused
      BY <2>1 DEF TypeInv, TypeOK
    <3> QED
      BY <1>3, <3>1, <3>2, <3>3 DEF FilesInv, FilesOnlyGrow
  <2>6. CASE CopyTruncate
    BY <2>6 DEF CopyTruncate, May, FilesStay
  <2>7. ASSUME NEW w \in Workers, Cycle(w) \/ Crash(w)
        PROVE  FilesOnlyGrow'
    <3>1. /\ content' = content /\ path' = path /\ rotated' = rotated /\ fd' = fd
          /\ unused' = unused /\ \A r \in Known' : r \in Known \cup Shown
      BY <1>3, <2>1, <2>7, WorkerStep, CycleKeepsKeys DEF FilesInv
    <3>2. ASSUME NEW r \in Shown
          PROVE  r.offset < Len(content[r.inode]) /\ content[r.inode][r.offset + 1] = r.line
      <4>1. PICK i \in Inodes : \E m \in DOMAIN content[i] : r = RowAt(i, m)
        BY ShownIs DEF Live
      <4>2. PICK m \in DOMAIN content[i] : r = RowAt(i, m)
        BY <4>1
      <4>3. m \in Int /\ m <= Len(content[i]) /\ Len(content[i]) \in Nat
        BY <2>1, <4>2
      <4>4. r.inode = i /\ r.offset = m - 1 /\ r.line = content[i][m] /\ (m - 1) + 1 = m
        BY <4>2, <4>3 DEF RowAt
      <4> QED
        BY <4>3, <4>4
    <3> QED
      BY <1>3, <3>1, <3>2 DEF FilesInv, FilesOnlyGrow
  <2> QED
    BY <1>3, <2>3, <2>4, <2>5, <2>6, <2>7 DEF Next
<1> QED
  BY <1>1, <1>2, <1>3, KeysStep DEF FilesInv

(* The key of a row names the line it was read from, if the log is rotated  *)
(* by rename and no inode is reused.                                       *)
THEOREM KeyNamesItsLineTheorem ==
    ASSUME FilesStay
    PROVE  Spec => []KeyNamesItsLine
<1>1. FilesInv => KeyNamesItsLine
  BY KnownIs DEF FilesInv, FilesOnlyGrow, KeyNamesItsLine
<1> QED
  BY <1>1, FilesHold, PTL DEF Spec

-----------------------------------------------------------------------------
(* Nothing is passed over, under rename alone. *)

LEMMA FileTypes ==
    ASSUME TypeInv
    PROVE  /\ next \in Int /\ next >= 1 /\ pos.offset \in Nat
           /\ path \in Inodes \cup {NoFile} /\ rotated \in Inodes \cup {NoFile} /\ fd \in Inodes
           /\ torn \in BOOLEAN /\ NoFile \notin Inodes
           /\ \A i \in Inodes :
                /\ content[i] \in Seq(Line) /\ Len(content[i]) \in Nat
                /\ DOMAIN content[i] = 1 .. Len(content[i])
                /\ \A m \in DOMAIN content[i] :
                      m \in Int /\ 1 <= m /\ m <= Len(content[i])
                      /\ content[i][m] \in Int /\ 1 <= content[i][m]
           /\ \A w \in Workers :
                rd[w].start \in Nat /\ rd[w].off \in Nat /\ rd[w].prev.offset \in Nat
                /\ rd[w].lines \in Seq(Row)
<1> USE LogTailAssumption
<1>1. next \in 1 .. MaxLines + 1
  BY DEF TypeInv, TypeOK
<1>2. \A i \in Inodes : content[i] \in Seq(Line)
  BY DEF TypeInv, TypeOK
<1>3. \A i \in Inodes : Len(content[i]) \in Nat /\ DOMAIN content[i] = 1 .. Len(content[i])
  BY <1>2
<1>4. ASSUME NEW i \in Inodes, NEW m \in DOMAIN content[i]
      PROVE  m \in Int /\ 1 <= m /\ m <= Len(content[i])
             /\ content[i][m] \in Int /\ 1 <= content[i][m]
  <2>1. m \in 1 .. Len(content[i])
    BY <1>3
  <2>2. content[i][m] \in Line
    BY <1>2, <2>1, ElementOfSeq
  <2> QED
    BY <1>3, <2>1, <2>2 DEF Line
<1>5. \A w \in Workers :
        rd[w].start \in Nat /\ rd[w].off \in Nat /\ rd[w].prev.offset \in Nat
        /\ rd[w].lines \in Seq(Row)
  BY DEF TypeInv, TypeOK, CycleState
<1> QED
  BY <1>1, <1>2, <1>3, <1>4, <1>5 DEF TypeInv, TypeOK

(* Only the path's file can end in half a line. *)
LEMMA WholeIs ==
    ASSUME TypeInv, WriterInv, NEW i \in Inodes
    PROVE  /\ Whole(i) \in Nat /\ Whole(i) <= Len(content[i])
           /\ i # path => Whole(i) = Len(content[i])
           /\ Whole(i) = IF torn /\ i = path THEN Len(content[i]) - 1 ELSE Len(content[i])
<1>1. Len(content[i]) \in Nat /\ torn \in BOOLEAN
  BY FileTypes
<1>2. torn /\ i = path => Len(content[i]) # 0
  <2>1. content[i] \in Seq(Line)
    BY FileTypes
  <2> QED
    BY <2>1 DEF WriterInv
<1> QED
  BY <1>1, <1>2 DEF Whole, WriterInv

(* A whole line of a file is a line that has been written. *)
LEMMA WholeLinesAreWritten ==
    ASSUME TypeInv, WriterInv, LinesArePast,
           NEW i \in Inodes, NEW m \in DOMAIN content[i], m <= Whole(i)
    PROVE  content[i][m] \in Written
<1>1. /\ next \in Int /\ m \in Int /\ 1 <= m /\ m <= Len(content[i])
      /\ content[i][m] \in Int /\ 1 <= content[i][m] /\ content[i][m] < next
      /\ Len(content[i]) \in Nat /\ torn \in BOOLEAN
  BY FileTypes DEF LinesArePast
<1>2. torn => content[i][m] # next - 1
  <2> SUFFICES ASSUME torn PROVE content[i][m] # next - 1
    OBVIOUS
  <2>1. fd = path /\ path \in Inodes /\ content[path] # <<>>
        /\ content[path][Len(content[path])] = next - 1
    BY FileTypes DEF WriterInv
  <2>2. content[path] \in Seq(Line)
    BY <2>1, FileTypes
  <2>3. Len(content[path]) \in DOMAIN content[path]
    BY <2>1, <2>2
  <2>4. i = path => m # Len(content[path])
    BY <1>1, WholeIs
  <2> QED
    BY <2>1, <2>3, <2>4 DEF WriterInv
<1> QED
  BY <1>1, <1>2 DEF Written

(* A line that has been begun is accounted for, in the path or in <path>.1. *)
LEMMA WhereLinesAre ==
    ASSUME TypeInv, WriterInv, PositionInv, NEW l \in 1 .. next - 1
    PROVE  \/ l \in Accounted
           \/ \E i \in Inodes : /\ i \in {path, rotated}
                               /\ \E m \in DOMAIN content[i] : content[i][m] = l
<1>1. PICK i \in Inodes : \E m \in DOMAIN content[i] : content[i][m] = l
  BY DEF WriterInv
<1>2. CASE i \notin {path, rotated}
  <2>1. Behind(i) = Len(content[i])
    BY <1>2, FileTypes DEF Behind, PositionInv
  <2> QED
    BY <1>1, <2>1, FileTypes DEF PositionInv
<1> QED
  BY <1>1, <1>2

(* An environment that only renames is one in which files stay and cycles  *)
(* are left alone.                                                         *)
LEMMA RenamesOnly ==
    ASSUME OnlyRenames
    PROVE  /\ FilesStay /\ Undisturbed
           /\ ~ May("late_write") /\ ~ May("mid_read") /\ ~ May("fast_rotation")
           /\ ~ May("inode_reuse") /\ ~ May("copytruncate")
BY DEF OnlyRenames, FilesStay, Undisturbed, May

(* A cycle keeps what it has accounted for while the files it reads stay as *)
(* they are and the rows only grow.                                        *)
LEMMA BatchKept ==
    ASSUME NEW u \in Workers, BatchInv(u), rd'[u] = rd[u],
           content' = content, path' = path, rotated' = rotated,
           \A i \in Inodes : Whole(i) \in Int /\ Whole(i)' \in Int /\ Whole(i) <= Whole(i)',
           path \in Inodes \/ rd[u].pc = "idle", rd[u].start \in Nat, rd[u].off \in Nat,
           Written \subseteq Written', Stored \subseteq Stored'
    PROVE  BatchInv(u)'
<1>1. LinesOf(rd[u].lines)' = LinesOf(rd[u].lines) /\ Batch(u)' = Batch(u)
  BY DEF LinesOf, Batch
<1>2. Accounted \subseteq Accounted'
  BY DEF Accounted
<1>3. Covered(u) \subseteq Covered(u)'
  BY <1>1, <1>2 DEF Covered
<1>4. path \in Inodes => \A n \in Nat : n <= Whole(path) => n <= Whole(path)'
  OBVIOUS
<1> QED
  BY <1>1, <1>2, <1>3, <1>4 DEF BatchInv

(* A cycle that has not begun has nothing to account for.                  *)
LEMMA IdleBatch ==
    ASSUME NEW u \in Workers, rd'[u] = IdleCycle
    PROVE  BatchInv(u)'
<1>1. rd'[u].lines = <<>> /\ rd'[u].pc = "idle" /\ DOMAIN rd'[u].lines = {}
  BY IdleHasNoLines
<1>2. LinesOf(rd[u].lines)' = {}
  BY <1>1 DEF LinesOf
<1> QED
  BY <1>1, <1>2 DEF BatchInv

(* What StartLine and EndLine do to the files. *)
LEMMA WritingGrowsThePath ==
    ASSUME OnlyRenames, DeliveryInv, StartLine
    PROVE  /\ ~ torn /\ torn' /\ fd = path /\ path \in Inodes /\ next' = next + 1
           /\ path' = path /\ rotated' = rotated /\ fd' = fd /\ path # rotated
           /\ rd' = rd /\ pos' = pos /\ rows' = rows
           /\ \A i \in Inodes \ {path} : content'[i] = content[i]
           /\ Len(content'[path]) = Len(content[path]) + 1
           /\ content'[path][Len(content[path]) + 1] = next
           /\ DOMAIN content'[path] = 1 .. Len(content[path]) + 1
           /\ \A m \in DOMAIN content[path] : content'[path][m] = content[path][m]
           /\ content'[path] # <<>>
<1>1. TypeInv
  BY DEF DeliveryInv, KeyInv, TypeInv
<1>2. /\ ~ torn /\ torn' /\ fd = path /\ path \in Inodes /\ next' = next + 1
      /\ path' = path /\ rotated' = rotated /\ fd' = fd
      /\ rd' = rd /\ pos' = pos /\ rows' = rows
  BY <1>1, RenamesOnly, FileTypes DEF StartLine
<1>3. path # rotated
  BY <1>2, FileTypes, <1>1 DEF DeliveryInv, KeyInv, CycleInv
<1>4. content' = [content EXCEPT ![path] = Append(content[path], next)] /\ DOMAIN content = Inodes
  BY <1>1, <1>2 DEF StartLine, TypeInv, TypeOK
<1> DEFINE c == content[path]
<1>5. c \in Seq(Int) /\ Len(c) \in Nat /\ next \in Int
  <2>1. c \in Seq(Line) /\ Len(c) \in Nat /\ next \in Int
    BY <1>1, <1>2, FileTypes
  <2>2. Line \in SUBSET Int
    BY LogTailAssumption DEF Line
  <2> HIDE DEF c
  <2>3. Seq(Line) \subseteq Seq(Int)
    BY <2>2, SeqMonotonic
  <2> QED
    BY <2>1, <2>3
<1>6. content'[path] = Append(c, next)
  BY <1>2, <1>4
<1> HIDE DEF c
<1>7. /\ Append(c, next) \in Seq(Int) /\ Len(Append(c, next)) = Len(c) + 1
      /\ Append(c, next)[Len(c) + 1] = next
      /\ \A m \in 1 .. Len(c) : Append(c, next)[m] = c[m]
  BY <1>5, AppendProperties
<1>8. DOMAIN Append(c, next) = 1 .. Len(c) + 1 /\ Append(c, next) # <<>> /\ DOMAIN c = 1 .. Len(c)
  BY <1>5, <1>7
<1> QED
  BY <1>2, <1>3, <1>4, <1>6, <1>7, <1>8 DEF c

(* The daemon's next line is above everything that was written.            *)
LEMMA StartLineKeepsDelivery ==
    ASSUME OnlyRenames, DeliveryInv, StartLine
    PROVE  WriterInv' /\ PositionInv' /\ RowsInv' /\ \A w \in Workers : BatchInv(w)'
<1>1. TypeInv
  BY DEF DeliveryInv, KeyInv, TypeInv
<1>2. /\ ~ torn /\ torn' /\ fd = path /\ path \in Inodes /\ next' = next + 1
      /\ path' = path /\ rotated' = rotated /\ fd' = fd /\ path # rotated
      /\ rd' = rd /\ pos' = pos /\ rows' = rows
      /\ \A i \in Inodes \ {path} : content'[i] = content[i]
      /\ Len(content'[path]) = Len(content[path]) + 1
      /\ content'[path][Len(content[path]) + 1] = next
      /\ DOMAIN content'[path] = 1 .. Len(content[path]) + 1
      /\ \A m \in DOMAIN content[path] : content'[path][m] = content[path][m]
      /\ content'[path] # <<>>
  BY WritingGrowsThePath
<1>3. /\ next \in Int /\ next >= 1 /\ pos.offset \in Nat
      /\ rotated \in Inodes \cup {NoFile} /\ NoFile \notin Inodes
      /\ \A i \in Inodes :
           /\ Len(content[i]) \in Nat /\ DOMAIN content[i] = 1 .. Len(content[i])
           /\ \A m \in DOMAIN content[i] :
                 m \in Int /\ 1 <= m /\ m <= Len(content[i])
                 /\ content[i][m] \in Int /\ 1 <= content[i][m]
      /\ \A w \in Workers : rd[w].start \in Nat /\ rd[w].off \in Nat /\ rd[w].prev.offset \in Nat
  BY <1>1, FileTypes
<1>4. \A i \in Inodes : \A m \in DOMAIN content[i] : content[i][m] < next
  BY DEF DeliveryInv, KeyInv, LinesArePast
<1>5. \A i \in Inodes : \A m \in DOMAIN content'[i] :
        \/ m \in DOMAIN content[i] /\ content'[i][m] = content[i][m]
        \/ i = path /\ m = Len(content[path]) + 1 /\ content'[i][m] = next
  BY <1>2, <1>3
<1>6. Written' = Written /\ Stored' = Stored /\ Accounted' = Accounted
  BY <1>2, <1>3 DEF Written, Stored, Accounted
<1>7. \A i \in Inodes : Whole(i) = Len(content[i]) /\ Whole(i)' = Len(content[i])
  BY <1>2, <1>3 DEF Whole
<1>8. WriterInv'
  <2>1. \A l \in 1 .. next : \E i \in Inodes : \E m \in DOMAIN content'[i] : content'[i][m] = l
    <3> SUFFICES ASSUME NEW l \in 1 .. next
                 PROVE  \E i \in Inodes : \E m \in DOMAIN content'[i] : content'[i][m] = l
      OBVIOUS
    <3>1. CASE l = next
      <4>1. Len(content[path]) + 1 \in DOMAIN content'[path]
        BY <1>2, <1>3
      <4> QED
        BY <1>2, <3>1, <4>1
    <3>2. CASE l # next
      <4>1. l \in 1 .. next - 1
        BY <1>3, <3>2
      <4>2. PICK i \in Inodes : \E m \in DOMAIN content[i] : content[i][m] = l
        BY <4>1 DEF DeliveryInv, WriterInv
      <4>3. PICK m \in DOMAIN content[i] : content[i][m] = l
        BY <4>2
      <4>4. m \in DOMAIN content'[i] /\ content'[i][m] = l
        BY <1>2, <1>3, <4>3
      <4> QED
        BY <4>4
    <3> QED
      BY <3>1, <3>2
  <2>2. \A i, j \in Inodes : \A m \in DOMAIN content'[i], n \in DOMAIN content'[j] :
          /\ content'[i][m] = content'[j][n] => i = j /\ m = n
          /\ i = j /\ m < n => content'[i][m] < content'[i][n]
          /\ i = rotated /\ j = path => content'[i][m] < content'[j][n]
    <3> SUFFICES ASSUME NEW i \in Inodes, NEW j \in Inodes,
                        NEW m \in DOMAIN content'[i], NEW n \in DOMAIN content'[j]
                 PROVE  /\ content'[i][m] = content'[j][n] => i = j /\ m = n
                        /\ i = j /\ m < n => content'[i][m] < content'[i][n]
                        /\ i = rotated /\ j = path => content'[i][m] < content'[j][n]
      OBVIOUS
    <3>1. CASE /\ m \in DOMAIN content[i] /\ content'[i][m] = content[i][m]
               /\ n \in DOMAIN content[j] /\ content'[j][n] = content[j][n]
      BY <3>1 DEF DeliveryInv, WriterInv
    <3>2. CASE /\ m \in DOMAIN content[i] /\ content'[i][m] = content[i][m]
               /\ j = path /\ n = Len(content[path]) + 1 /\ content'[j][n] = next
      BY <1>3, <1>4, <3>2
    <3>3. CASE /\ i = path /\ m = Len(content[path]) + 1 /\ content'[i][m] = next
               /\ n \in DOMAIN content[j] /\ content'[j][n] = content[j][n]
      <4>1. content[j][n] # next /\ (j = path => n < m)
        BY <1>3, <1>4, <3>3
      <4> QED
        BY <1>2, <1>3, <3>3, <4>1
    <3>4. CASE /\ i = path /\ m = Len(content[path]) + 1
               /\ j = path /\ n = Len(content[path]) + 1
      BY <1>2, <1>3, <3>4
    <3> QED
      BY <1>5, <3>1, <3>2, <3>3, <3>4
  <2>3. (next - 1)' = next
    BY <1>2, <1>3
  <2> QED
    BY <1>2, <2>1, <2>2, <2>3 DEF WriterInv
<1>9. PositionInv'
  <2>1. \A i \in Inodes : \A m \in DOMAIN content'[i] :
          m <= Behind(i)' => content'[i][m] \in Accounted
    <3> SUFFICES ASSUME NEW i \in Inodes, NEW m \in DOMAIN content'[i], m <= Behind(i)'
                 PROVE  content'[i][m] \in Accounted
      OBVIOUS
    <3>1. m \in DOMAIN content[i] /\ content'[i][m] = content[i][m] /\ Behind(i)' = Behind(i)
      <4>1. CASE i # path
        BY <1>2, <4>1 DEF Behind
      <4>2. CASE i = path
        <5>1. Behind(path)' = Behind(path) /\ Behind(path) \in Nat /\ Behind(path) <= Len(content[path])
          BY <1>2, <1>3, <1>7, LogTailAssumption DEF Behind, DeliveryInv, PositionInv
        <5> QED
          BY <1>2, <1>3, <4>2, <5>1
      <4> QED
        BY <4>1, <4>2
    <3> QED
      BY <3>1 DEF DeliveryInv, PositionInv
  <2>2. pos.inode # NoFile => pos.inode \in Inodes
    BY <1>1 DEF TypeInv, TypeOK
  <2> QED
    BY <1>2, <1>6, <1>7, <2>1, <2>2 DEF DeliveryInv, PositionInv
<1>10. RowsInv'
  BY <1>2, <1>6 DEF DeliveryInv, RowsInv
<1>11. ASSUME NEW w \in Workers PROVE BatchInv(w)'
  <2>1. BatchInv(w)
    BY DEF DeliveryInv
  <2>2. /\ LinesOf(rd[w].lines)' = LinesOf(rd[w].lines) /\ Batch(w)' = Batch(w)
        /\ Covered(w)' = Covered(w)
    BY <1>2, <1>6 DEF LinesOf, Batch, Covered
  <2>3. rotated = NoFile \/ (rotated \in Inodes /\ content'[rotated] = content[rotated])
    BY <1>2, <1>3
  <2>4. \A n \in Nat : n <= Whole(path) =>
          \A m \in DOMAIN content'[path] :
             m <= n => m \in DOMAIN content[path] /\ content'[path][m] = content[path][m]
    BY <1>2, <1>3, <1>7
  <2>5. Whole(path)' = Whole(path)
    BY <1>2, <1>7
  <2>6. rd[w].pc = "drain" => rotated \in Inodes
    BY <2>1, <1>1 DEF BatchInv, TypeInv, LabelsTyped
  <2> QED
    BY <1>2, <1>3, <1>6, <2>1, <2>2, <2>3, <2>4, <2>5, <2>6 DEF BatchInv
<1> QED
  BY <1>8, <1>9, <1>10, <1>11

(* Nor does one make a line unaccounted for: a rename happens only when the*)
(* position is about the path's file.                                      *)
LEMMA RotatingKeepsDelivery ==
    ASSUME OnlyRenames, DeliveryInv, Rotating
    PROVE  WriterInv' /\ PositionInv' /\ RowsInv' /\ \A w \in Workers : BatchInv(w)'
<1>1. TypeInv
  BY DEF DeliveryInv, KeyInv, TypeInv
<1>2. /\ next \in Int /\ next >= 1 /\ pos.offset \in Nat /\ path \in Inodes \cup {NoFile}
      /\ rotated \in Inodes \cup {NoFile} /\ NoFile \notin Inodes /\ fd \in Inodes
      /\ torn \in BOOLEAN
      /\ \A i \in Inodes :
           /\ Len(content[i]) \in Nat /\ DOMAIN content[i] = 1 .. Len(content[i])
           /\ \A m \in DOMAIN content[i] : m \in Int /\ 1 <= m /\ m <= Len(content[i])
      /\ \A w \in Workers : rd[w].start \in Nat /\ rd[w].off \in Nat /\ rd[w].prev.offset \in Nat
  BY <1>1, FileTypes
<1>3. rd' = rd /\ pos' = pos /\ rows' = rows
  BY DEF Rotating, StartLine, EndLine, Rename, Create, Reopen, CopyTruncate
<1>4. Stored' = Stored /\ Accounted' = Accounted
  BY <1>3 DEF Stored, Accounted
<1>5. pos.inode # NoFile => pos.inode \in Inodes
  BY <1>1 DEF TypeInv, TypeOK
<1>6. \A i \in Inodes : Whole(i) \in Nat /\ Whole(i) <= Len(content[i])
  BY <1>1, WholeIs DEF DeliveryInv
<1>7. path = NoFile => ~ torn /\ \A w \in Workers : rd[w] = IdleCycle
  BY <1>2 DEF DeliveryInv, WriterInv, KeyInv, CycleInv, LabelsTyped
<1>8. \A w \in Workers : path \in Inodes \/ rd[w].pc = "idle"
  BY <1>2, <1>7, IdleHasNoLines
<1>9. CASE StartLine
  BY <1>9, StartLineKeepsDelivery
<1>10. CASE EndLine
  <2>1. /\ torn /\ ~ torn' /\ next' = next /\ path' = path /\ rotated' = rotated
        /\ fd' = fd /\ content' = content
    BY <1>10 DEF EndLine
  <2>2. Written \subseteq Written'
    BY <1>2, <2>1 DEF Written
  <2>3. \A i \in Inodes : Whole(i) \in Int /\ Whole(i)' \in Int /\ Whole(i) <= Whole(i)'
    BY <1>2, <2>1 DEF Whole
  <2>4. \A w \in Workers : BatchInv(w)'
    BY <1>2, <1>3, <1>4, <1>8, <2>1, <2>2, <2>3, BatchKept DEF DeliveryInv
  <2>5. WriterInv'
    BY <2>1 DEF DeliveryInv, WriterInv
  <2>6. PositionInv'
    <3>1. \A i \in Inodes : Behind(i)' = Behind(i)
      BY <1>3, <2>1 DEF Behind
    <3>2. pos.inode # NoFile => pos.offset <= Whole(pos.inode)'
      BY <1>2, <1>3, <1>5, <2>3 DEF DeliveryInv, PositionInv
    <3> QED
      BY <1>3, <1>4, <2>1, <3>1, <3>2 DEF DeliveryInv, PositionInv
  <2>7. RowsInv'
    BY <1>3, <1>4, <2>2 DEF DeliveryInv, RowsInv
  <2> QED
    BY <2>4, <2>5, <2>6, <2>7
<1>11. CASE Rename
  <2>1. /\ ~ torn /\ path \in Inodes /\ pos.inode = path /\ fd = path
        /\ \A w \in Workers : rd[w].pc = "idle"
    BY <1>2, <1>11, RenamesOnly DEF Rename, MayRotate
  <2>2. /\ path' = NoFile /\ rotated' = path /\ fd' = fd /\ torn' = torn /\ next' = next
        /\ content' = content
    BY <1>11 DEF Rename
  <2>3. Written' = Written /\ \A i \in Inodes : Whole(i)' = Whole(i)
    BY <2>2 DEF Written, Whole
  <2>4. \A w \in Workers : BatchInv(w)'
    BY <1>3, <2>1, IdleBatch DEF DeliveryInv, KeyInv, CycleInv
  <2>5. WriterInv'
    BY <1>2, <2>1, <2>2 DEF DeliveryInv, WriterInv
  <2>6. PositionInv'
    <3>1. \A i \in Inodes : Behind(i)' = Behind(i)
      BY <1>2, <1>3, <2>1, <2>2 DEF Behind
    <3> QED
      BY <1>2, <1>3, <1>4, <2>1, <2>2, <2>3, <3>1 DEF DeliveryInv, PositionInv
  <2>7. RowsInv'
    BY <1>3, <1>4, <2>3 DEF DeliveryInv, RowsInv
  <2> QED
    BY <2>4, <2>5, <2>6, <2>7
<1>12. CASE Create
  <2>1. PICK i \in Inodes : /\ i \in unused /\ i \notin {path, rotated, fd} /\ path' = i
                            /\ content' = [content EXCEPT ![i] = <<>>]
    BY <1>1, <1>12, NewInodesAreInodes, RenamesOnly DEF Create, NewInodes, TypeInv, TypeOK
  <2>2. content' = content /\ content[i] = <<>>
    BY <1>1, <2>1 DEF DeliveryInv, FilesOnlyGrow, TypeInv, TypeOK
  <2>3. /\ rotated' = rotated /\ fd' = fd /\ torn' = torn /\ next' = next
        /\ path = NoFile /\ ~ torn
    BY <1>7, <1>12 DEF Create
  <2>4. Written' = Written /\ \A j \in Inodes : Whole(j)' = Whole(j)
    BY <2>2, <2>3 DEF Written, Whole
  <2>5. \A w \in Workers : BatchInv(w)'
    BY <1>3, <1>7, <2>3, IdleBatch
  <2>6. WriterInv'
    BY <2>1, <2>2, <2>3 DEF DeliveryInv, WriterInv
  <2>7. PositionInv'
    <3>1. pos.inode = rotated
      BY <2>3 DEF DeliveryInv, PositionInv
    <3>2. \A j \in Inodes \ {i} : Behind(j)' = Behind(j)
      BY <1>2, <1>3, <2>1, <2>3 DEF Behind
    <3>3. \A j \in Inodes : \A m \in DOMAIN content'[j] :
             m <= Behind(j)' => content'[j][m] \in Accounted'
      BY <1>4, <2>2, <3>2 DEF DeliveryInv, PositionInv
    <3> QED
      BY <1>2, <1>3, <1>5, <2>1, <2>3, <2>4, <3>1, <3>3 DEF DeliveryInv, PositionInv
  <2>8. RowsInv'
    BY <1>3, <1>4, <2>4 DEF DeliveryInv, RowsInv
  <2> QED
    BY <2>5, <2>6, <2>7, <2>8
<1>13. CASE Reopen
  <2>1. /\ fd' = path /\ ~ torn /\ torn' = torn /\ next' = next /\ path' = path
        /\ rotated' = rotated /\ content' = content
    BY <1>13 DEF Reopen
  <2>2. Written' = Written /\ \A i \in Inodes : Whole(i)' = Whole(i)
    BY <2>1 DEF Written, Whole
  <2>3. \A w \in Workers : BatchInv(w)'
    BY <1>2, <1>3, <1>4, <1>6, <1>8, <2>1, <2>2, BatchKept DEF DeliveryInv
  <2>4. WriterInv'
    BY <2>1 DEF DeliveryInv, WriterInv
  <2>5. PositionInv'
    <3>1. \A i \in Inodes : Behind(i)' = Behind(i)
      BY <1>3, <2>1 DEF Behind
    <3> QED
      BY <1>3, <1>4, <1>5, <2>1, <2>2, <3>1 DEF DeliveryInv, PositionInv
  <2>6. RowsInv'
    BY <1>3, <1>4, <2>2 DEF DeliveryInv, RowsInv
  <2> QED
    BY <2>3, <2>4, <2>5, <2>6
<1>14. ~ CopyTruncate
  BY RenamesOnly DEF CopyTruncate
<1> QED
  BY <1>9, <1>10, <1>11, <1>12, <1>13, <1>14 DEF Rotating

(* A commit stores of its batch whatever is not noise, and nothing else:    *)
(* INSERT OR IGNORE drops a line only if that line is stored already.       *)
LEMMA CommitStores ==
    ASSUME KeyInv, FilesOnlyGrow, NEW w \in Workers, Commit(w)
    PROVE  /\ Stored \subseteq Stored'
           /\ Stored' \subseteq Stored \cup LinesOf(rd[w].lines)
           /\ LinesOf(rd[w].lines) \subseteq Stored' \cup Noise
<1> DEFINE L == rd[w].lines
           I == Inserted(L)
           f == Ascending(Fresh(L))
<1>1. rows' = rows \o I /\ L \in Seq(Row) /\ rows \in Seq(Row)
  BY CommitStep DEF KeyInv, TypeInv, TypeOK
<1>2. /\ I \in Seq(Row)
      /\ f \in [1 .. Len(I) -> Fresh(L)]
      /\ \A n \in 1 .. Len(I) : I[n] = L[f[n]]
      /\ \A k \in Fresh(L) : \E n \in 1 .. Len(I) : f[n] = k
  BY <1>1, InsertedInserts
<1>3. \A n \in DOMAIN L : L[n] \in Known
  BY KnownIs
<1>4. \A k \in Fresh(L) : k \in DOMAIN L
  BY DEF Fresh
<1>5. ASSUME NEW n \in DOMAIN L, L[n].line \notin Noise, n \notin Fresh(L)
      PROVE  L[n].line \in Stored
  <2>1. PICK k \in DOMAIN rows : SameKey(rows[k], L[n])
    BY <1>5 DEF Fresh
  <2>2. rows[k] \in Known /\ L[n] \in Known
    BY <1>3, KnownIs
  <2>3. rows[k].line = L[n].line
    BY <2>1, <2>2 DEF SameKey, FilesOnlyGrow
  <2> QED
    BY <2>3 DEF Stored
<1> HIDE DEF L, I, f
<1>6. DOMAIN I = 1 .. Len(I)
  BY <1>2
<1>7. /\ \A k \in DOMAIN rows : k \in DOMAIN rows' /\ rows'[k] = rows[k]
      /\ \A k \in DOMAIN I : /\ k + Len(rows) \in DOMAIN rows'
                           /\ rows'[k + Len(rows)] = I[k]
      /\ \A k \in DOMAIN rows' :
            \/ k \in DOMAIN rows /\ rows'[k] = rows[k]
            \/ k > Len(rows) /\ k - Len(rows) \in DOMAIN I /\ rows'[k] = I[k - Len(rows)]
  BY <1>1, <1>2, ConcatElements
<1>8. Stored \subseteq Stored'
  BY <1>7 DEF Stored
<1>9. Stored' \subseteq Stored \cup LinesOf(L)
  <2>1. \A n \in DOMAIN I : I[n].line \in LinesOf(L)
    BY <1>2, <1>4, <1>6 DEF LinesOf
  <2> QED
    BY <1>7, <2>1 DEF Stored
<1>10. LinesOf(L) \subseteq Stored' \cup Noise
  <2>1. \A n \in Fresh(L) : L[n].line \in Stored'
    <3> TAKE n \in Fresh(L)
    <3>1. PICK k \in 1 .. Len(I) : f[k] = n
      BY <1>2
    <3>2. rows'[k + Len(rows)] = L[n] /\ k + Len(rows) \in DOMAIN rows'
      BY <1>2, <1>6, <1>7, <3>1
    <3> QED
      BY <3>2 DEF Stored
  <2> QED
    BY <1>5, <1>8, <2>1 DEF LinesOf
<1> QED
  BY <1>8, <1>9, <1>10 DEF L

(* A line that is read for the first time is stored by the commit of the    *)
(* cycle that read it and not taken for a duplicate, as long as files stay. *)
THEOREM ReadLinesTheorem ==
    ASSUME FilesStay
    PROVE  Spec => ReadLinesAreStored
<1>1. FilesInv =>
        [\A w \in Workers : Commit(w) => LinesOf(rd[w].lines) \ Noise \subseteq Stored']_vars
  BY CommitStores DEF FilesInv
<1> QED
  BY <1>1, FilesHold, PTL DEF Spec, ReadLinesAreStored

(* The lines that a worker reads of a file. *)
LEMMA LinesRead ==
    ASSUME TypeInv, WriterInv, LinesArePast, NEW i \in Inodes, NEW start \in Nat
    PROVE  LET R == ReadFrom(i, i, start)
           IN /\ R \in Seq(Row)
              /\ \A n \in DOMAIN R : R[n].inode = i
              /\ \A n \in DOMAIN R : \E m \in DOMAIN content[i] :
                    start < m /\ m <= Whole(i) /\ R[n].line = content[i][m]
              /\ LinesOf(R) = {content[i][m] : m \in {n \in DOMAIN content[i] :
                                                     start < n /\ n <= Whole(i)}}
              /\ LinesOf(R) \subseteq Written
              /\ \A j, k \in DOMAIN R : j < k => R[j].line < R[k].line
<1> DEFINE R == ReadFrom(i, i, start)
<1>1. /\ R \in Seq(Row) /\ Whole(i) \in Int
      /\ \A n \in 1 .. Len(R) :
            /\ start + n \in 1 .. Whole(i) /\ start + n \in DOMAIN content[i]
            /\ R[n] = [inode |-> i, offset |-> start + n - 1, line |-> content[i][start + n]]
      /\ \A m \in start + 1 .. Whole(i) : m - start \in 1 .. Len(R)
  BY ReadFromReads DEF TypeInv
<1> HIDE DEF R
<1>2. DOMAIN R = 1 .. Len(R) /\ \A n \in DOMAIN R : n \in Int /\ n >= 1
  BY <1>1
<1>3. ASSUME NEW n \in DOMAIN R
      PROVE  /\ R[n].inode = i /\ R[n].line = content[i][start + n]
             /\ start + n \in DOMAIN content[i] /\ start < start + n /\ start + n <= Whole(i)
  BY <1>1, <1>2
<1>4. ASSUME NEW m \in DOMAIN content[i], start < m, m <= Whole(i)
      PROVE  \E n \in DOMAIN R : R[n].line = content[i][m]
  <2>1. m \in start + 1 .. Whole(i) /\ start + (m - start) = m
    BY <1>1, <1>4, FileTypes
  <2>2. m - start \in DOMAIN R
    BY <1>1, <1>2, <2>1
  <2> QED
    BY <1>3, <2>1, <2>2
<1>5. \A n \in DOMAIN R : \E m \in DOMAIN content[i] :
          start < m /\ m <= Whole(i) /\ R[n].line = content[i][m]
  BY <1>3
<1>6. LinesOf(R) = {content[i][m] : m \in {n \in DOMAIN content[i] : start < n /\ n <= Whole(i)}}
  BY <1>4, <1>5 DEF LinesOf
<1>7. LinesOf(R) \subseteq Written
  BY <1>6, WholeLinesAreWritten
<1>8. \A j, k \in DOMAIN R : j < k => R[j].line < R[k].line
  <2>1. \A j, k \in DOMAIN R : j < k => start + j < start + k
    BY <1>2
  <2> QED
    BY <1>3, <2>1 DEF WriterInv
<1> QED
  BY <1>1, <1>3, <1>5, <1>6, <1>7, <1>8 DEF R

(* The facts about the files that every step of a worker uses. *)
LEMMA DeliveryFacts ==
    ASSUME DeliveryInv
    PROVE  /\ TypeInv /\ KeyInv /\ FilesOnlyGrow /\ WriterInv /\ LinesArePast
           /\ next \in Int /\ next >= 1 /\ pos.offset \in Nat /\ NoFile \notin Inodes
           /\ path \in Inodes \cup {NoFile} /\ rotated \in Inodes \cup {NoFile}
           /\ \A i \in Inodes :
                /\ Whole(i) \in Nat /\ Whole(i) <= Len(content[i])
                /\ i # path => Whole(i) = Len(content[i])
                /\ \A m \in DOMAIN content[i] :
                      m \in Int /\ 1 <= m /\ m <= Len(content[i])
                      /\ content[i][m] \in Int /\ 1 <= content[i][m] /\ content[i][m] < next
           /\ path # NoFile => path # rotated
<1>1. TypeInv
  BY DEF DeliveryInv, KeyInv, TypeInv
<1> QED
  BY <1>1, FileTypes, WholeIs DEF DeliveryInv, KeyInv, CycleInv, LinesArePast

(* A cycle that begins knows how far the files it will read are accounted  *)
(* for.                                                                    *)
LEMMA StatKeepsBatch ==
    ASSUME DeliveryInv, NEW w \in Workers, Stat(w)
    PROVE  BatchInv(w)'
<1>1. /\ rd[w].pc = "idle" /\ path \in Inodes
      /\ rd'[w].pc = IF pos.inode # NoFile /\ pos.inode # path THEN "drain" ELSE "read"
      /\ rd'[w].prev = [inode |-> pos.inode, offset |-> pos.offset]
      /\ rd'[w].lines = rd[w].lines
      /\ rd'[w].start = IF \/ pos.inode # NoFile /\ pos.inode # path
                           \/ pos.inode = path /\ Len(content[path]) < pos.offset
                        THEN 0 ELSE pos.offset
  BY DeliveryFacts, StatStep
<1>2. /\ content' = content /\ path' = path /\ rotated' = rotated /\ fd' = fd
      /\ torn' = torn /\ next' = next /\ rows' = rows
  BY DeliveryFacts, StatStep, WorkerStep DEF Cycle
<1>3. rd'[w].lines = <<>> /\ DOMAIN rd'[w].lines = {}
  BY <1>1, IdleHasNoLines DEF DeliveryInv, KeyInv, CycleInv
<1>4. LinesOf(rd[w].lines)' = {} /\ Batch(w)' = {}
  BY <1>3 DEF LinesOf, Batch
<1>5. Accounted' = Accounted /\ Covered(w)' = Accounted /\ Whole(path)' = Whole(path)
  BY <1>2, <1>4 DEF Accounted, Stored, Covered, Whole
<1>6. CASE pos.inode # NoFile /\ pos.inode # path
  <2>1. pos.inode = rotated /\ rotated \in Inodes /\ rd'[w].pc = "drain"
        /\ rd'[w].prev.inode = rotated /\ rd'[w].start = 0 /\ rd'[w].prev.offset = pos.offset
    BY <1>1, <1>6, DeliveryFacts DEF DeliveryInv, PositionInv
  <2>2. \A m \in DOMAIN content[rotated] : m <= pos.offset => content[rotated][m] \in Accounted
    BY <2>1 DEF DeliveryInv, PositionInv, Behind
  <2> QED
    BY <1>2, <1>3, <1>4, <1>5, <2>1, <2>2 DEF BatchInv
<1>7. CASE pos.inode = NoFile \/ pos.inode = path
  <2>1. rd'[w].pc = "read"
    BY <1>1, <1>7
  <2>2. rotated # NoFile => \A m \in DOMAIN content[rotated] : content[rotated][m] \in Accounted
    <3> SUFFICES ASSUME rotated # NoFile
                 PROVE  \A m \in DOMAIN content[rotated] : content[rotated][m] \in Accounted
      OBVIOUS
    <3>1. rotated \in Inodes /\ rotated # path /\ rotated # pos.inode
      BY <1>1, <1>7, DeliveryFacts DEF DeliveryInv, PositionInv
    <3>2. Behind(rotated) = Len(content[rotated])
      BY <3>1 DEF Behind
    <3> QED
      BY <3>1, <3>2, DeliveryFacts DEF DeliveryInv, PositionInv
  <2>3. rd'[w].start <= Whole(path)
        /\ \A m \in DOMAIN content[path] : m <= rd'[w].start => content[path][m] \in Accounted
    <3>1. CASE rd'[w].start = 0
      BY <1>1, <3>1, DeliveryFacts
    <3>2. CASE rd'[w].start # 0
      <4>1. rd'[w].start = pos.offset /\ pos.inode = path
        BY <1>1, <1>7, <3>2, DeliveryFacts DEF DeliveryInv, PositionInv
      <4> QED
        BY <1>1, <4>1, DeliveryFacts DEF DeliveryInv, PositionInv, Behind
    <3> QED
      BY <3>1, <3>2
  <2> QED
    BY <1>2, <1>3, <1>4, <1>5, <2>1, <2>2, <2>3 DEF BatchInv
<1> QED
  BY <1>6, <1>7

(* After the drain the whole rotated file is covered.                      *)
LEMMA DrainKeepsBatch ==
    ASSUME DeliveryInv, NEW w \in Workers, DrainRotated(w)
    PROVE  BatchInv(w)'
<1> DEFINE o == rd[w].prev.offset
           R == ReadFrom(rotated, rotated, o)
<1>1. /\ rd[w].pc = "drain" /\ rd'[w].pc = "read" /\ rd'[w].start = rd[w].start
      /\ rd'[w].lines = IF rotated = rd[w].prev.inode THEN R ELSE <<>>
  BY DeliveryFacts, DrainStep
<1>2. /\ content' = content /\ path' = path /\ rotated' = rotated /\ fd' = fd
      /\ torn' = torn /\ next' = next /\ rows' = rows
  BY DeliveryFacts, DrainStep, WorkerStep DEF Cycle
<1>3. /\ rd[w].prev.inode = rotated /\ rd[w].start = 0
      /\ \A m \in DOMAIN content[rotated] : m <= o => content[rotated][m] \in Accounted
  BY <1>1 DEF DeliveryInv, BatchInv
<1>4. rotated \in Inodes /\ path \in Inodes /\ rotated # path /\ o \in Nat
  <2>1. rd[w].prev.inode \in Inodes /\ rd[w].inode \in Inodes /\ rd[w].inode = path
    BY <1>1, DeliveryFacts DEF TypeInv, LabelsTyped, KeyInv, CycleInv
  <2> QED
    BY <1>3, <2>1, DeliveryFacts, FileTypes
<1>5. /\ R \in Seq(Row)
      /\ \A n \in DOMAIN R : R[n].inode = rotated
      /\ \A n \in DOMAIN R : \E m \in DOMAIN content[rotated] :
            o < m /\ m <= Whole(rotated) /\ R[n].line = content[rotated][m]
      /\ LinesOf(R) = {content[rotated][m] : m \in {n \in DOMAIN content[rotated] :
                                                   o < n /\ n <= Whole(rotated)}}
      /\ LinesOf(R) \subseteq Written
      /\ \A j, k \in DOMAIN R : j < k => R[j].line < R[k].line
  BY <1>4, DeliveryFacts, LinesRead
<1>6. rd'[w].lines = R
  BY <1>1, <1>3
<1> HIDE DEF R
<1>7. LinesOf(rd[w].lines)' = LinesOf(R) /\ Batch(w)' = {R[n] : n \in DOMAIN R}
  BY <1>6 DEF LinesOf, Batch
<1>8. /\ Accounted' = Accounted /\ Covered(w)' = Accounted \cup LinesOf(R)
      /\ Whole(path)' = Whole(path) /\ Written' = Written
  BY <1>2, <1>7 DEF Accounted, Stored, Covered, Whole, Written
<1>9. \A m \in DOMAIN content[rotated] : content[rotated][m] \in Accounted \cup LinesOf(R)
  <2> TAKE m \in DOMAIN content[rotated]
  <2>1. m \in Int /\ m <= Whole(rotated)
    BY <1>4, DeliveryFacts
  <2>2. CASE m <= o
    BY <1>3, <2>2
  <2>3. CASE o < m
    BY <1>5, <2>1, <2>3
  <2> QED
    BY <1>4, <2>1, <2>2, <2>3
<1>10. \A l \in LinesOf(R) : \A k \in 1 .. l : k \in Accounted \cup LinesOf(R)
  <2> SUFFICES ASSUME NEW l \in LinesOf(R), NEW k \in 1 .. l
               PROVE  k \in Accounted \cup LinesOf(R)
    OBVIOUS
  <2>1. PICK m \in DOMAIN content[rotated] : l = content[rotated][m]
    BY <1>5
  <2>2. k \in 1 .. next - 1 /\ k <= l
    BY <1>4, <2>1, DeliveryFacts
  <2>3. CASE \E n \in DOMAIN content[rotated] : content[rotated][n] = k
    BY <1>9, <2>3
  <2>4. ~ \E n \in DOMAIN content[path] : content[path][n] = k
    <3>1. \A n \in DOMAIN content[path] : content[rotated][m] < content[path][n]
      BY <1>4, DeliveryFacts DEF WriterInv
    <3> QED
      BY <1>4, <2>1, <2>2, <3>1, DeliveryFacts
  <2> QED
    BY <2>2, <2>3, <2>4, DeliveryFacts, WhereLinesAre DEF DeliveryInv
<1>11. rd'[w].start = 0 /\ 0 <= Whole(path) /\ \A m \in DOMAIN content[path] : ~ (m <= 0)
  BY <1>1, <1>3, <1>4, DeliveryFacts
<1> QED
  BY <1>1, <1>2, <1>5, <1>6, <1>7, <1>8, <1>9, <1>10, <1>11 DEF BatchInv

(* After the read the path's file is covered up to the new offset.         *)
LEMMA ReadKeepsBatch ==
    ASSUME DeliveryInv, NEW w \in Workers, ReadPath(w)
    PROVE  BatchInv(w)'
<1> DEFINE s == rd[w].start
           L == rd[w].lines
           R == ReadFrom(path, path, s)
<1>1. /\ rd[w].pc = "read" /\ path \in Inodes /\ rd'[w].pc = "commit"
      /\ rd'[w].lines = L \o R /\ rd'[w].off = NewOffset(path, s)
  BY DeliveryFacts, ReadStep DEF KeyInv, CycleInv
<1>2. /\ content' = content /\ path' = path /\ rotated' = rotated /\ fd' = fd
      /\ torn' = torn /\ next' = next /\ rows' = rows
  BY DeliveryFacts, ReadStep, WorkerStep DEF Cycle
<1>3. s \in Nat /\ L \in Seq(Row)
  BY DeliveryFacts, FileTypes
<1>4. /\ LinesOf(L) \subseteq Written
      /\ \A l \in LinesOf(L) : \A k \in 1 .. l : k \in Accounted \cup LinesOf(L)
      /\ \A j, k \in DOMAIN L : j < k => L[j].line < L[k].line
      /\ rotated # NoFile =>
            \A m \in DOMAIN content[rotated] : content[rotated][m] \in Accounted \cup LinesOf(L)
      /\ s <= Whole(path)
      /\ \A m \in DOMAIN content[path] : m <= s => content[path][m] \in Accounted
      /\ \A n \in DOMAIN L : L[n].inode = rotated
  BY <1>1 DEF DeliveryInv, BatchInv, Covered, Batch
<1>5. /\ R \in Seq(Row)
      /\ \A n \in DOMAIN R : \E m \in DOMAIN content[path] :
            s < m /\ m <= Whole(path) /\ R[n].line = content[path][m]
      /\ LinesOf(R) = {content[path][m] : m \in {n \in DOMAIN content[path] :
                                                s < n /\ n <= Whole(path)}}
      /\ LinesOf(R) \subseteq Written
      /\ \A j, k \in DOMAIN R : j < k => R[j].line < R[k].line
  BY <1>1, <1>3, DeliveryFacts, LinesRead
<1>6. \A n \in DOMAIN L : \E m \in DOMAIN content[rotated] : L[n].line = content[rotated][m]
  <2> TAKE n \in DOMAIN L
  <2>1. L[n] \in Known
    BY KnownIs
  <2>2. L[n].offset \in Nat /\ L[n].inode \in Inodes
        /\ L[n].offset < Len(content[rotated]) /\ content[rotated][L[n].offset + 1] = L[n].line
    BY <1>4, <2>1, DeliveryFacts, KnownAreRows DEF FilesOnlyGrow, TypeInv, Row
  <2>3. DOMAIN content[rotated] = 1 .. Len(content[rotated]) /\ Len(content[rotated]) \in Nat
    BY <1>4, <2>2, DeliveryFacts, FileTypes
  <2>4. L[n].offset + 1 \in DOMAIN content[rotated]
    BY <2>2, <2>3
  <2> QED
    BY <2>2, <2>4
<1>7. \A n \in DOMAIN L : rotated \in Inodes
  BY <1>4, DeliveryFacts, KnownAreRows, KnownIs DEF TypeInv, Row
<1> HIDE DEF L, R, s
<1>8. /\ \A k \in DOMAIN L : k \in DOMAIN (L \o R) /\ (L \o R)[k] = L[k]
      /\ \A k \in DOMAIN R : k + Len(L) \in DOMAIN (L \o R) /\ (L \o R)[k + Len(L)] = R[k]
      /\ \A k \in DOMAIN (L \o R) :
            \/ k \in DOMAIN L /\ (L \o R)[k] = L[k]
            \/ k > Len(L) /\ k - Len(L) \in DOMAIN R /\ (L \o R)[k] = R[k - Len(L)]
  BY <1>3, <1>5, ConcatElements
<1>9. LinesOf(L \o R) = LinesOf(L) \cup LinesOf(R)
  <2>1. \A l \in LinesOf(L) \cup LinesOf(R) : l \in LinesOf(L \o R)
    BY <1>8 DEF LinesOf
  <2>2. \A l \in LinesOf(L \o R) : l \in LinesOf(L) \cup LinesOf(R)
    BY <1>8 DEF LinesOf
  <2> QED
    BY <2>1, <2>2
<1>10. LinesOf(rd[w].lines)' = LinesOf(L) \cup LinesOf(R)
  BY <1>1, <1>9 DEF LinesOf
<1>11. /\ Accounted' = Accounted /\ Covered(w)' = Accounted \cup LinesOf(L) \cup LinesOf(R)
       /\ Whole(path)' = Whole(path) /\ Written' = Written
  BY <1>2, <1>10 DEF Accounted, Stored, Covered, Whole, Written
<1>12. \A m \in DOMAIN content[path] :
          m <= Whole(path) => content[path][m] \in Accounted \cup LinesOf(R)
  <2> SUFFICES ASSUME NEW m \in DOMAIN content[path], m <= Whole(path), ~ (m <= s)
               PROVE  content[path][m] \in LinesOf(R)
    BY <1>4
  <2>1. s < m
    BY <1>1, <1>3, DeliveryFacts
  <2> QED
    BY <1>5, <2>1
<1>13. \A l \in LinesOf(R) : \A k \in 1 .. l : k \in Covered(w)'
  <2> SUFFICES ASSUME NEW l \in LinesOf(R), NEW k \in 1 .. l
               PROVE  k \in Accounted \cup LinesOf(L) \cup LinesOf(R)
    BY <1>11
  <2>1. PICK m \in DOMAIN content[path] : l = content[path][m] /\ m <= Whole(path)
    BY <1>5
  <2>2. k \in 1 .. next - 1 /\ k <= l
    BY <1>1, <2>1, DeliveryFacts
  <2>3. CASE \E n \in DOMAIN content[path] : content[path][n] = k
    <3>1. PICK n \in DOMAIN content[path] : content[path][n] = k
      BY <2>3
    <3>2. ~ (m < n)
      <4>1. m < n => content[path][m] < content[path][n]
        BY <1>1, DeliveryFacts DEF WriterInv
      <4> QED
        BY <1>1, <2>1, <2>2, <3>1, <4>1, DeliveryFacts
    <3>3. n <= Whole(path)
      BY <1>1, <2>1, <3>2, DeliveryFacts
    <3> QED
      BY <1>12, <3>1, <3>3
  <2>4. CASE rotated \in Inodes /\ \E n \in DOMAIN content[rotated] : content[rotated][n] = k
    BY <1>4, <2>4, DeliveryFacts
  <2> QED
    BY <2>2, <2>3, <2>4, DeliveryFacts, WhereLinesAre DEF DeliveryInv
<1>14. \A j, k \in DOMAIN (L \o R) : j < k => (L \o R)[j].line < (L \o R)[k].line
  <2>1. /\ Len(L) \in Nat /\ DOMAIN L = 1 .. Len(L) /\ DOMAIN R = 1 .. Len(R)
        /\ \A k \in DOMAIN (L \o R) : k \in Int
    BY <1>3, <1>5
  <2>2. \A j \in DOMAIN L, k \in DOMAIN R : L[j].line < R[k].line
    <3> TAKE j \in DOMAIN L, k \in DOMAIN R
    <3>1. PICK m \in DOMAIN content[rotated] : L[j].line = content[rotated][m]
      BY <1>6
    <3>2. PICK n \in DOMAIN content[path] : R[k].line = content[path][n]
      BY <1>5
    <3>3. content[rotated][m] < content[path][n]
      BY <1>1, <1>7, DeliveryFacts DEF WriterInv
    <3> QED
      BY <3>1, <3>2, <3>3
  <2> QED
    BY <1>4, <1>5, <1>8, <2>1, <2>2
<1>15. rd'[w].off <= Whole(path) /\ rd'[w].off \in Nat
  BY <1>1, <1>3, <1>4, DeliveryFacts DEF NewOffset
<1>16. \A m \in DOMAIN content[path] : m <= rd'[w].off => m <= Whole(path)
  BY <1>1, <1>15, DeliveryFacts
<1> QED
  BY <1>1, <1>2, <1>4, <1>5, <1>10, <1>11, <1>12, <1>13, <1>14, <1>15, <1>16 DEF BatchInv

(* A stored row is newer than every row before it: an older line would have *)
(* been accounted for, hence noise or stored.                              *)
LEMMA CommitKeepsRows ==
    ASSUME DeliveryInv, NEW w \in Workers, Commit(w)
    PROVE  RowsInv'
<1> DEFINE L == rd[w].lines
           I == Inserted(L)
           f == Ascending(Fresh(L))
<1>1. /\ rows' = rows \o I /\ L \in Seq(Row) /\ rd[w].pc = "commit" /\ rows \in Seq(Row)
      /\ TypeInv /\ KeyInv /\ FilesOnlyGrow
  BY DeliveryFacts, CommitStep DEF TypeInv, TypeOK
<1>2. Written' = Written
  BY <1>1, WorkerStep DEF Written, Cycle
<1>3. /\ Stored \subseteq Stored' /\ Stored' \subseteq Stored \cup LinesOf(L)
      /\ LinesOf(L) \subseteq Stored' \cup Noise
  BY <1>1, CommitStores
<1>4. /\ LinesOf(L) \subseteq Written
      /\ \A l \in LinesOf(L) : \A k \in 1 .. l : k \in Accounted \cup LinesOf(L)
      /\ \A j, k \in DOMAIN L : j < k => L[j].line < L[k].line
  BY DEF DeliveryInv, BatchInv, Covered
<1>5. /\ Stored \subseteq Written \ Noise
      /\ \A l \in Stored : \A k \in 1 .. l : k \in Accounted
      /\ \A j, k \in DOMAIN rows : j < k => rows[j].line < rows[k].line
  BY DEF DeliveryInv, RowsInv
<1>6. /\ I \in Seq(Row)
      /\ f \in [1 .. Len(I) -> Fresh(L)]
      /\ \A n \in 1 .. Len(I) : I[n] = L[f[n]]
      /\ \A m, n \in 1 .. Len(I) : m < n => f[m] < f[n]
  BY <1>1, InsertedInserts
<1>7. ASSUME NEW k \in Fresh(L), NEW j \in DOMAIN rows
      PROVE  k \in DOMAIN L /\ rows[j].line < L[k].line
  <2>1. k \in DOMAIN L /\ L[k].line \notin Noise /\ ~ SameKey(rows[j], L[k])
    BY DEF Fresh
  <2>2. L[k] \in Known /\ rows[j] \in Known
    BY <2>1, KnownIs
  <2>3. L[k].line \notin Stored
    <3> SUFFICES ASSUME NEW n \in DOMAIN rows, rows[n].line = L[k].line PROVE FALSE
      BY DEF Stored
    <3>1. rows[n] = L[k]
      BY <1>1, <2>2, KnownIs DEF KeyInv, OneKey
    <3> QED
      BY <3>1 DEF Fresh, SameKey
  <2>4. L[k].line \in Int /\ rows[j].line \in Int /\ L[k].line >= 1
    <3>1. L[k] \in Row /\ rows[j] \in Row
      BY <1>1, <2>2, KnownAreRows DEF TypeInv
    <3> QED
      BY <3>1, LogTailAssumption DEF Row, Line
  <2>5. ~ (L[k].line <= rows[j].line)
    <3> SUFFICES ASSUME L[k].line <= rows[j].line PROVE FALSE
      OBVIOUS
    <3>1. L[k].line \in 1 .. rows[j].line /\ rows[j].line \in Stored
      BY <2>4 DEF Stored
    <3> QED
      BY <1>5, <2>1, <2>3, <3>1 DEF Accounted
  <2> QED
    BY <2>1, <2>4, <2>5
<1> HIDE DEF L, I, f
<1>8. DOMAIN I = 1 .. Len(I) /\ Len(rows) \in Nat /\ DOMAIN rows = 1 .. Len(rows) /\ Len(I) \in Nat
  BY <1>1, <1>6
<1>9. /\ DOMAIN rows' = 1 .. Len(rows) + Len(I)
      /\ \A k \in DOMAIN rows' :
            \/ k \in DOMAIN rows /\ rows'[k] = rows[k]
            \/ k > Len(rows) /\ k - Len(rows) \in DOMAIN I /\ rows'[k] = I[k - Len(rows)]
  BY <1>1, <1>6, <1>8, ConcatElements
<1>10. \A j, k \in DOMAIN rows' : j < k => rows'[j].line < rows'[k].line
  <2> SUFFICES ASSUME NEW j \in DOMAIN rows', NEW k \in DOMAIN rows', j < k
               PROVE  rows'[j].line < rows'[k].line
    OBVIOUS
  <2>1. j \in Int /\ k \in Int
    BY <1>8, <1>9
  <2>2. CASE k \in DOMAIN rows /\ rows'[k] = rows[k]
    BY <1>5, <1>8, <1>9, <2>1, <2>2
  <2>3. CASE /\ j \in DOMAIN rows /\ rows'[j] = rows[j]
             /\ k - Len(rows) \in DOMAIN I /\ rows'[k] = I[k - Len(rows)]
    BY <1>6, <1>7, <1>8, <2>3
  <2>4. CASE /\ j - Len(rows) \in DOMAIN I /\ rows'[j] = I[j - Len(rows)]
             /\ k - Len(rows) \in DOMAIN I /\ rows'[k] = I[k - Len(rows)]
    <3> DEFINE a == j - Len(rows)
               b == k - Len(rows)
    <3>1. a \in 1 .. Len(I) /\ b \in 1 .. Len(I) /\ a < b
      BY <1>8, <2>1, <2>4
    <3> HIDE DEF a, b
    <3>2. f[a] < f[b] /\ f[a] \in DOMAIN L /\ f[b] \in DOMAIN L
      BY <1>6, <3>1 DEF Fresh
    <3>3. I[a].line < I[b].line
      BY <1>4, <1>6, <3>1, <3>2
    <3> QED
      BY <2>4, <3>3 DEF a, b
  <2> QED
    BY <1>8, <1>9, <2>1, <2>2, <2>3, <2>4
<1>11. Stored' \subseteq Written' \ Noise
  <2>1. \A n \in DOMAIN I : I[n].line \notin Noise
    BY <1>6, <1>8 DEF Fresh
  <2>2. \A k \in DOMAIN rows' : rows'[k].line \notin Noise
    BY <1>5, <1>9, <2>1 DEF Stored
  <2> QED
    BY <1>2, <1>3, <1>4, <1>5, <2>2 DEF Stored
<1>12. \A l \in Stored' : \A k \in 1 .. l : k \in Accounted'
  BY <1>3, <1>4, <1>5 DEF Accounted
<1> QED
  BY <1>10, <1>11, <1>12 DEF RowsInv

(* The position that a commit saves is one the commit has accounted for,   *)
(* also when another cycle committed in between.                           *)
LEMMA CommitKeepsPosition ==
    ASSUME DeliveryInv, NEW w \in Workers, Commit(w)
    PROVE  PositionInv'
<1>1. /\ rd[w].pc = "commit" /\ pos'.inode = path /\ pos'.offset = rd[w].off
      /\ path \in Inodes
  BY DeliveryFacts, CommitStep DEF KeyInv, CycleInv, TypeInv, LabelsTyped
<1>2. /\ content' = content /\ path' = path /\ rotated' = rotated /\ fd' = fd /\ torn' = torn
  BY DeliveryFacts, WorkerStep DEF Cycle
<1>3. Covered(w) \subseteq Accounted'
  BY DeliveryFacts, CommitStores DEF Covered, Accounted
<1>4. /\ rotated # NoFile => \A m \in DOMAIN content[rotated] : content[rotated][m] \in Covered(w)
      /\ rd[w].off <= Whole(path)
      /\ \A m \in DOMAIN content[path] : m <= rd[w].off => content[path][m] \in Covered(w)
  BY <1>1 DEF DeliveryInv, BatchInv
<1>5. ASSUME NEW i \in Inodes, NEW m \in DOMAIN content[i], m <= Behind(i)'
      PROVE  content[i][m] \in Accounted'
  <2>1. CASE i = path
    BY <1>1, <1>3, <1>4, <1>5, <2>1 DEF Behind
  <2>2. CASE i = rotated
    BY <1>3, <1>4, <2>2, DeliveryFacts
  <2>3. CASE i \notin {path, rotated}
    <3>1. Behind(i) = Len(content[i])
      BY <2>3, DeliveryFacts DEF Behind, DeliveryInv, PositionInv
    <3> QED
      BY <1>3, <3>1, DeliveryFacts DEF DeliveryInv, PositionInv, Covered
  <2> QED
    BY <2>1, <2>2, <2>3
<1>6. Whole(path)' = Whole(path)
  BY <1>2 DEF Whole
<1> QED
  BY <1>1, <1>2, <1>4, <1>5, <1>6, DeliveryFacts DEF PositionInv

(* Each step of a cycle keeps the invariant of delivery.                   *)
LEMMA CycleKeepsDelivery ==
    ASSUME DeliveryInv, NEW w \in Workers, Cycle(w) \/ Crash(w)
    PROVE  WriterInv' /\ PositionInv' /\ RowsInv' /\ \A u \in Workers : BatchInv(u)'
<1>1. /\ content' = content /\ path' = path /\ rotated' = rotated /\ fd' = fd
      /\ torn' = torn /\ next' = next
      /\ \A u \in Workers \ {w} : rd'[u] = rd[u]
  BY DeliveryFacts, WorkerStep
<1>2. WriterInv'
  BY <1>1 DEF DeliveryInv, WriterInv
<1>3. Written' = Written /\ \A i \in Inodes : Whole(i)' = Whole(i)
  BY <1>1 DEF Written, Whole
<1>4. ASSUME Stored \subseteq Stored', NEW u \in Workers \ {w} PROVE BatchInv(u)'
  <2>1. path \in Inodes \/ rd[u].pc = "idle"
    BY DeliveryFacts DEF KeyInv, CycleInv, TypeInv, LabelsTyped
  <2>2. rd[u].start \in Nat /\ rd[u].off \in Nat
    BY DeliveryFacts, FileTypes
  <2>3. \A i \in Inodes : Whole(i) \in Int /\ Whole(i)' \in Int /\ Whole(i) <= Whole(i)'
    BY <1>3, DeliveryFacts
  <2> QED
    BY <1>1, <1>3, <1>4, <2>1, <2>2, <2>3, BatchKept DEF DeliveryInv
<1>5. ASSUME rows' = rows PROVE RowsInv' /\ Stored' = Stored /\ Accounted' = Accounted
  BY <1>3, <1>5 DEF DeliveryInv, RowsInv, Stored, Accounted
<1>6. ASSUME rows' = rows, pos'.inode = pos.inode, pos'.offset = pos.offset PROVE PositionInv'
  <2>1. \A i \in Inodes : Behind(i)' = Behind(i)
    BY <1>1, <1>6 DEF Behind
  <2>2. pos.inode # NoFile => Whole(pos.inode)' = Whole(pos.inode)
    BY <1>1, <1>6 DEF Whole
  <2>3. pos.inode # NoFile => pos'.offset <= Whole(pos.inode)'
    BY <1>6, <2>2 DEF DeliveryInv, PositionInv
  <2> QED
    BY <1>1, <1>5, <1>6, <2>1, <2>3 DEF DeliveryInv, PositionInv
<1>7. CASE Stat(w)
  BY <1>2, <1>4, <1>5, <1>6, <1>7, DeliveryFacts, StatStep, StatKeepsBatch
<1>8. CASE DrainRotated(w)
  BY <1>2, <1>4, <1>5, <1>6, <1>8, DeliveryFacts, DrainStep, DrainKeepsBatch
<1>9. CASE ReadPath(w)
  BY <1>2, <1>4, <1>5, <1>6, <1>9, DeliveryFacts, ReadStep, ReadKeepsBatch
<1>10. CASE ReadFails(w) \/ Crash(w)
  BY <1>2, <1>4, <1>5, <1>6, <1>10, DeliveryFacts, AbandonStep, IdleBatch
<1>11. CASE Commit(w)
  BY <1>2, <1>4, <1>11, DeliveryFacts, CommitStep, CommitStores, CommitKeepsRows,
     CommitKeepsPosition, IdleBatch
<1> QED
  BY <1>7, <1>8, <1>9, <1>10, <1>11 DEF Cycle

(* Delivery's invariant is inductive where logs are rotated by renaming    *)
(* alone.                                                                  *)
LEMMA DeliveryHolds ==
    ASSUME OnlyRenames
    PROVE  /\ Init => DeliveryInv
           /\ DeliveryInv /\ [Next]_vars => DeliveryInv'
<1>1. Init => DeliveryInv
  <2> SUFFICES ASSUME Init PROVE DeliveryInv
    OBVIOUS
  <2>1. KeyInv /\ FilesOnlyGrow
    BY RenamesOnly, FilesHold DEF FilesInv
  <2>2. /\ rows = <<>> /\ rotated = NoFile /\ path \in Inodes /\ ~ torn /\ next = 1
        /\ content = [i \in Inodes |-> <<>>]
        /\ pos.inode = NoFile /\ pos.offset = 0
        /\ \A w \in Workers : rd[w] = IdleCycle
    BY DEF Init
  <2>3. Stored = {} /\ WriterInv
    BY <2>2 DEF Stored, WriterInv
  <2>4. PositionInv /\ RowsInv
    BY <2>2, <2>3 DEF PositionInv, RowsInv
  <2>5. ASSUME NEW w \in Workers PROVE BatchInv(w)
    <3>1. rd[w].lines = <<>> /\ rd[w].pc = "idle" /\ DOMAIN rd[w].lines = {}
      BY <2>2, IdleHasNoLines
    <3>2. LinesOf(rd[w].lines) = {}
      BY <3>1 DEF LinesOf
    <3> QED
      BY <3>1, <3>2 DEF BatchInv
  <2> QED
    BY <2>1, <2>3, <2>4, <2>5 DEF DeliveryInv
<1>2. DeliveryInv /\ [Next]_vars => DeliveryInv'
  <2> SUFFICES ASSUME DeliveryInv, [Next]_vars PROVE DeliveryInv'
    OBVIOUS
  <2>1. KeyInv' /\ FilesOnlyGrow'
    BY RenamesOnly, FilesHold DEF FilesInv, DeliveryInv
  <2>2. CASE UNCHANGED vars
    <3>1. /\ content' = content /\ path' = path /\ rotated' = rotated /\ fd' = fd
          /\ torn' = torn /\ next' = next /\ pos' = pos /\ rows' = rows /\ rd' = rd
      BY <2>2 DEF vars, diskVars
    <3>2. /\ Stored' = Stored /\ Accounted' = Accounted /\ Written' = Written
          /\ \A i : Whole(i)' = Whole(i) /\ Behind(i)' = Behind(i)
      BY <3>1 DEF Stored, Accounted, Written, Whole, Behind
    <3>3. WriterInv' /\ RowsInv'
      BY <3>1, <3>2 DEF DeliveryInv, WriterInv, RowsInv
    <3>4. PositionInv'
      BY <3>1, <3>2 DEF DeliveryInv, PositionInv, Whole
    <3>5. ASSUME NEW w \in Workers PROVE BatchInv(w)'
      <4>1. /\ LinesOf(rd[w].lines)' = LinesOf(rd[w].lines) /\ Batch(w)' = Batch(w)
            /\ Covered(w)' = Covered(w) /\ Whole(path)' = Whole(path)
        BY <3>1, <3>2 DEF LinesOf, Batch, Covered, Whole
      <4> QED
        BY <3>1, <3>2, <4>1 DEF DeliveryInv, BatchInv
    <3> QED
      BY <2>1, <3>3, <3>4, <3>5 DEF DeliveryInv
  <2>3. CASE Next
    BY <2>1, <2>3, RotatingKeepsDelivery, CycleKeepsDelivery DEF Next, Rotating, DeliveryInv
  <2> QED
    BY <2>2, <2>3
<1> QED
  BY <1>1, <1>2

(* The invariant of delivery: who wrote which line into which file, how far  *)
(* each file is accounted for, and what a cycle under way will add to that.  *)
THEOREM DeliveryInvariant ==
    ASSUME OnlyRenames
    PROVE  Spec => []DeliveryInv
  BY DeliveryHolds, PTL DEF Spec

(* The saved position never passes a line that is not stored: with renaming *)
(* rotation, every whole line is a row, noise, or still where the next      *)
(* cycle looks for it.                                                     *)
THEOREM UnreadIsReachableTheorem ==
    ASSUME OnlyRenames
    PROVE  Spec => []UnreadIsReachable
<1>1. ASSUME DeliveryInv, NEW l \in Written
      PROVE  l \in Stored \cup Noise \cup WithinReach
  <2>1. l \in 1 .. next - 1 /\ (torn => l # next - 1)
    BY DeliveryFacts, FileTypes, <1>1 DEF Written
  <2>2. ASSUME NEW i \in Inodes, i \in {path, rotated},
               NEW m \in DOMAIN content[i], content[i][m] = l, l \notin Accounted
        PROVE  l \in WithinReach
    <3>1. ~ (m <= Behind(i))
      BY <1>1, <2>2 DEF DeliveryInv, PositionInv
    <3>2. m <= Whole(i) /\ m \in Int
      BY <1>1, <2>1, <2>2, DeliveryFacts, WholeIs, FileTypes DEF WriterInv
    <3>5. ASSUME NEW from \in Nat, from < m PROVE l \in LinesOf(ReadFrom(i, i, from))
      <4>1. LinesOf(ReadFrom(i, i, from)) = {content[i][n] : n \in {k \in DOMAIN content[i] :
                                                       from < k /\ k <= Whole(i)}}
        BY <1>1, DeliveryFacts, LinesRead
      <4> QED
        BY <2>2, <3>2, <3>5, <4>1
    <3>3. CASE i = path
      <4> DEFINE start == IF pos.inode = path /\ Len(content[path]) >= pos.offset
                          THEN pos.offset ELSE 0
      <4>1. start = Behind(path) /\ start \in Nat
        <5>1. pos.inode = path => pos.offset <= Len(content[path])
          BY <1>1, <2>2, <3>3, DeliveryFacts, FileTypes DEF DeliveryInv, PositionInv
        <5> QED
          BY <1>1, <2>2, <3>3, <5>1, DeliveryFacts, FileTypes DEF Behind
      <4> HIDE DEF start
      <4>2. start < m
        BY <3>1, <3>2, <3>3, <4>1
      <4>3. l \in LinesOf(ReadFrom(path, path, start))
        BY <3>3, <3>5, <4>1, <4>2
      <4> QED
        BY <2>2, <3>3, <4>3, DeliveryFacts, <1>1 DEF WithinReach, start
    <3>4. CASE i # path
      <4>1. i = rotated /\ rotated = pos.inode
        BY <1>1, <2>2, <3>1, <3>4, DeliveryFacts DEF Behind
      <4>2. pos.offset < m
        BY <1>1, <3>1, <3>2, <4>1, DeliveryFacts DEF Behind
      <4>3. l \in LinesOf(ReadFrom(rotated, rotated, pos.offset))
        BY <1>1, <3>5, <4>1, <4>2, DeliveryFacts
      <4> QED
        BY <1>1, <2>2, <4>1, <4>3, DeliveryFacts DEF WithinReach
    <3> QED
      BY <3>3, <3>4
  <2> QED
    BY <1>1, <2>1, <2>2, DeliveryFacts, WhereLinesAre DEF DeliveryInv, Accounted
<1>2. DeliveryInv => UnreadIsReachable
  BY <1>1 DEF UnreadIsReachable
<1> QED
  BY <1>2, DeliveryHolds, PTL DEF Spec

-----------------------------------------------------------------------------
(* The rows are the written lines in order: the safety of LogDelivery. *)

ToDeliver == Written \ Noise
DeliveredRows == [k \in DOMAIN rows |-> rows[k].line]

(* What is to be delivered is a finite set of integers, before and after a *)
(* step.                                                                   *)
LEMMA WrittenIsFinite ==
    ASSUME TypeInv
    PROVE  /\ ToDeliver \in SUBSET Int /\ IsFiniteSet(ToDeliver)
           /\ ToDeliver' \in SUBSET Int
<1>1. \A hi \in Int : 1 .. hi \in SUBSET Int
  OBVIOUS
<1>2. next \in Int
  BY FileTypes
<1>3. IsFiniteSet(Written) /\ Written \in SUBSET Int
  <2>1. (IF torn THEN next - 2 ELSE next - 1) \in Int /\ 1 \in Int
    BY <1>2
  <2> QED
    BY <1>1, <2>1, FS_Interval DEF Written
<1>4. \A hi : 1 .. hi \in SUBSET Int
  OBVIOUS
<1> QED
  BY <1>3, <1>4, FS_Subset DEF ToDeliver, Written

(* The delivered lines are the first of those to deliver. *)
DeliveredIsPrefix ==
    /\ DeliveredRows = SubSeq(Ascending(ToDeliver), 1, Len(rows))
    /\ Len(DeliveredRows) = Len(rows) /\ Len(rows) \in Nat
    /\ Len(Ascending(ToDeliver)) \in Nat
    /\ Len(rows) <= Len(Ascending(ToDeliver))

(* The rows are the lowest of the lines to be delivered, in ascending      *)
(* order.                                                                  *)
LEMMA RowsArePrefix ==
    ASSUME DeliveryInv
    PROVE  DeliveredIsPrefix
<1> DEFINE W == ToDeliver
           n == Len(rows)
           f == DeliveredRows
           a == Ascending(W)
<1>1. W \in SUBSET Int /\ IsFiniteSet(W) /\ rows \in Seq(Row)
  BY DeliveryFacts, WrittenIsFinite DEF TypeInv, TypeOK
<1>2. n \in Nat /\ DOMAIN rows = 1 .. n
  BY <1>1
<1>3. f \in [1 .. n -> W]
  BY <1>2 DEF DeliveryInv, RowsInv, Stored, ToDeliver, DeliveredRows
<1>4. \A i, j \in 1 .. n : i < j => f[i] < f[j]
  BY <1>2 DEF DeliveryInv, RowsInv, DeliveredRows
<1>5. \A i \in 1 .. n : \A k \in W : k <= f[i] => \E j \in 1 .. n : f[j] = k
  <2> SUFFICES ASSUME NEW i \in 1 .. n, NEW k \in W, k <= f[i]
               PROVE  \E j \in 1 .. n : f[j] = k
    OBVIOUS
  <2>1. f[i] \in Stored /\ f[i] \in Int /\ k \in Int /\ 1 <= k /\ k \notin Noise
    <3>1. f[i] \in Stored
      BY <1>2 DEF Stored, DeliveredRows
    <3>2. f[i] \in Int /\ k \in Int
      BY <1>1, <1>3
    <3>3. k \in Written /\ k \notin Noise
      BY DEF ToDeliver
    <3>4. 1 <= k
      BY <3>2, <3>3 DEF Written
    <3> QED
      BY <3>1, <3>2, <3>3, <3>4
  <2>2. k \in 1 .. f[i]
    BY <2>1
  <2>3. k \in Stored
    BY <2>1, <2>2 DEF DeliveryInv, RowsInv, Accounted
  <2> QED
    BY <1>2, <2>3 DEF Stored, DeliveredRows
<1> HIDE DEF W, n, f
<1>6. Cardinality(W) \in Nat /\ a \in [1 .. Cardinality(W) -> W]
  BY <1>1, AscendingEnumerates
<1>7. n <= Cardinality(W) /\ \A i \in 1 .. n : a[i] = f[i]
  BY <1>1, <1>2, <1>3, <1>4, <1>5, AscendingPrefix
<1> HIDE DEF a
<1>8. a \in Seq(W) /\ Len(a) = Cardinality(W)
  BY <1>6, FunctionsAreSequences
<1>9. f \in Seq(W) /\ Len(f) = n
  BY <1>2, <1>3, FunctionsAreSequences
<1>10. /\ SubSeq(a, 1, n) \in Seq(W)
       /\ Len(SubSeq(a, 1, n)) = n
       /\ \A i \in 1 .. n : SubSeq(a, 1, n)[i] = a[i]
  <2>1. \A i \in 1 .. n : a[i] \in W
    BY <1>2, <1>6, <1>7
  <2>2. /\ SubSeq(a, 1, n) \in Seq(W)
        /\ Len(SubSeq(a, 1, n)) = IF 1 <= n THEN n - 1 + 1 ELSE 0
        /\ \A i \in 1 .. n - 1 + 1 : SubSeq(a, 1, n)[i] = a[1 + i - 1]
    BY <1>2, <2>1, SubSeqProperties
  <2> QED
    BY <1>2, <2>2
<1>11. f = SubSeq(a, 1, n)
  BY <1>7, <1>9, <1>10, SeqEqual
<1> QED
  BY <1>2, <1>6, <1>7, <1>8, <1>9, <1>11 DEF W, n, f, a, DeliveredIsPrefix

(* Completing a line is LogDelivery's Write, or nothing if it is noise.     *)
LEMMA EndLineWrites ==
    ASSUME DeliveryInv, EndLine
    PROVE  \/ ToDeliver' = ToDeliver
           \/ \E l \in Line \ Noise :
                 Ascending(ToDeliver)' = Append(Ascending(ToDeliver), l)
<1> DEFINE l == next - 1
<1>1. torn /\ ~ torn' /\ next' = next
  BY DEF EndLine
<1>2. l \in Line
  <2>1. path \in Inodes /\ content[path] # <<>> /\ content[path][Len(content[path])] = l
    BY <1>1, DeliveryFacts, FileTypes DEF WriterInv
  <2>2. content[path] \in Seq(Line)
    BY <2>1, DeliveryFacts, FileTypes
  <2>3. Len(content[path]) \in 1 .. Len(content[path])
    BY <2>1, <2>2
  <2> QED
    BY <2>1, <2>2, <2>3, ElementOfSeq
<1>3. next \in Int /\ l >= 1
  BY <1>2, DeliveryFacts, LogTailAssumption DEF Line
<1>4. Written' = Written \cup {l} /\ \A k \in Written : k < l
  BY <1>1, <1>3 DEF Written
<1>5. CASE l \in Noise
  BY <1>4, <1>5 DEF ToDeliver
<1>6. CASE l \notin Noise
  <2>1. ToDeliver' = ToDeliver \cup {l} /\ \A k \in ToDeliver : k < l
    BY <1>4, <1>6 DEF ToDeliver
  <2>2. Ascending(ToDeliver)' = Ascending(ToDeliver \cup {l})
    BY <2>1
  <2>3. Ascending(ToDeliver \cup {l}) = Append(Ascending(ToDeliver), l)
    <3> DEFINE W == ToDeliver
    <3>1. W \in SUBSET Int /\ IsFiniteSet(W) /\ l \in Int /\ \A k \in W : k < l
      BY <1>3, <2>1, DeliveryFacts, WrittenIsFinite
    <3> HIDE DEF W, l
    <3>2. Ascending(W \cup {l}) = Append(Ascending(W), l)
      BY <3>1, AscendingAppends
    <3> QED
      BY <3>2 DEF W
  <2> QED
    BY <1>2, <1>6, <2>2, <2>3
<1> QED
  BY <1>5, <1>6

(* With renaming rotation the store receives the lines in the order they    *)
(* were written, each once, whole batches at a time: every step of the tail *)
(* is a step of LogDelivery or none.                                       *)
THEOREM DeliveryTheorem ==
    ASSUME OnlyRenames
    PROVE  Spec => Delivery!SafeSpec
<1>1. Init => Delivery!Init
  <2> SUFFICES ASSUME Init PROVE Delivery!Init
    OBVIOUS
  <2>1. DeliveryInv
    BY DeliveryHolds
  <2>2. rows = <<>> /\ next = 1 /\ ~ torn
    BY DEF Init
  <2>3. ToDeliver = {}
    BY <2>2 DEF ToDeliver, Written
  <2>4. Ascending(ToDeliver) = <<>>
    <3>1. ToDeliver \in SUBSET Int /\ IsFiniteSet(ToDeliver)
      BY <2>1, DeliveryFacts, WrittenIsFinite
    <3>2. Cardinality(ToDeliver) = 0
      BY <2>3, FS_EmptySet
    <3> QED
      BY <2>3, <3>2 DEF Ascending
  <2>5. DeliveredRows = <<>>
    BY <2>2 DEF DeliveredRows
  <2> QED
    BY <2>4, <2>5 DEF Delivery!Init, ToDeliver, DeliveredRows
<1>2. DeliveryInv => DeliveredIsPrefix
  BY RowsArePrefix
<1>3. ASSUME DeliveryInv, DeliveredIsPrefix, DeliveredIsPrefix', [Next]_vars
      PROVE  [Delivery!Next]_(Delivery!vars)
  <2> DEFINE W == Ascending(ToDeliver)
             D == DeliveredRows
             Step == \/ W' = W /\ D' = D
                     \/ \E l \in Line \ Noise : W' = Append(W, l) /\ D' = D
                     \/ \E n \in Len(D) + 1 .. Len(W) : D' = SubSeq(W, 1, n) /\ W' = W
  <2>1. ASSUME Step PROVE [Delivery!Next]_(Delivery!vars)
    BY <2>1 DEF Delivery!Next, Delivery!Write, Delivery!Deliver, Delivery!vars,
                ToDeliver, DeliveredRows
  <2>2. CASE EndLine
    <3>1. rows' = rows
      BY <2>2 DEF EndLine
    <3>2. D' = D
      BY <3>1 DEF DeliveredRows
    <3>3. Step
      BY <1>3, <2>2, <3>2, EndLineWrites
    <3> QED
      BY <2>1, <3>3
  <2>3. CASE rows' = rows /\ Written' = Written
    BY <2>1, <2>3 DEF DeliveredRows, ToDeliver
  <2>4. CASE StartLine
    <3>1. rows' = rows /\ ~ torn /\ torn' /\ next' = next + 1 /\ next \in Int
      BY <1>3, <2>4, DeliveryFacts DEF StartLine
    <3>2. Written' = Written
      BY <3>1 DEF Written
    <3> QED
      BY <2>3, <3>1, <3>2
  <2>5. CASE Rename \/ Create \/ Reopen \/ CopyTruncate \/ UNCHANGED vars
    <3>1. rows' = rows /\ torn' = torn /\ next' = next
      BY <2>5 DEF Rename, Create, Reopen, CopyTruncate, vars, diskVars
    <3> QED
      BY <2>3, <3>1 DEF Written
  <2>6. ASSUME NEW w \in Workers, Cycle(w) \/ Crash(w)
        PROVE  [Delivery!Next]_(Delivery!vars)
    <3>1. torn' = torn /\ next' = next
      BY <1>3, <2>6, WorkerStep, DeliveryFacts
    <3>2. Written' = Written
      BY <3>1 DEF Written
    <3>3. CASE Commit(w)
      <4> DEFINE I == Inserted(rd[w].lines)
      <4>1. rows' = rows \o I /\ rows \in Seq(Row) /\ I \in Seq(Row)
        BY <1>3, <3>3, CommitStep, DeliveryFacts, InsertedInserts DEF TypeInv, TypeOK
      <4> HIDE DEF I
      <4>2. Len(rows') = Len(rows) + Len(I) /\ Len(I) \in Nat /\ Len(rows) \in Nat
        BY <4>1, ConcatProperties
      <4>3. W' = W
        BY <3>2 DEF ToDeliver
      <4>4. CASE Len(I) = 0
        <5>1. rows' = rows
          BY <4>1, <4>4, ConcatEmptySeq
        <5> QED
          BY <2>3, <3>2, <5>1
      <4>5. CASE Len(I) # 0
        <5>1. Len(rows') \in Len(D) + 1 .. Len(W) /\ D' = SubSeq(W, 1, Len(rows'))
          BY <1>3, <4>2, <4>3, <4>5 DEF DeliveredIsPrefix
        <5>2. Step
          BY <4>3, <5>1
        <5> QED
          BY <2>1, <5>2
      <4> QED
        BY <4>4, <4>5
    <3>4. CASE ~ Commit(w)
      <4>1. rows' = rows
        BY <1>3, <2>6, <3>4, StatStep, DrainStep, ReadStep, AbandonStep, DeliveryFacts DEF Cycle
      <4> QED
        BY <2>3, <3>2, <4>1
    <3> QED
      BY <3>3, <3>4
  <2> QED
    BY <1>3, <2>2, <2>4, <2>5, <2>6 DEF Next
<1> QED
  BY <1>1, <1>2, <1>3, DeliveryHolds, PTL DEF Spec, Delivery!SafeSpec

=============================================================================
