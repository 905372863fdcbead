---------------------------- MODULE FileTailProofs ----------------------------
(***************************************************************************)
(* For any number of pieces and changes: the tail implements LogTail, and  *)
(* skips nothing while it is attached.                                     *)
(***************************************************************************)
EXTENDS FileTail, SequenceTheorems, TLAPS

(* Pieces are in a file in the order in which they were written.           *)
FilesInv ==
  \A f \in Inodes :
    /\ Len(files[f]) <= written
    /\ \A k, l \in DOMAIN files[f] : k < l => files[f][k] < files[f][l]

(* The file that is read, and how much of it there is.                     *)
Content == files[reader.inode]
Size == Len(Content)
Buffer == reader.buf

(* Later than what has been delivered, and than what is in the buffer.     *)
AboveSeen(x) == \A y \in seen : y < x
Above(x) == AboveSeen(x) /\ \A k \in DOMAIN Buffer : Buffer[k] < x

(* What can still be read is later than what has been: what is behind the  *)
(* position and, if the file has become shorter than that, all of it.      *)
Ahead(k) == k > reader.pos \/ reader.pos > Size

FreshInv ==
  ~misled /\ reader.inode # NoFile =>
    /\ \A k \in DOMAIN Buffer : AboveSeen(Buffer[k])
    /\ \A k, l \in DOMAIN Buffer : k < l => Buffer[k] < Buffer[l]
    /\ \A k \in DOMAIN Content : Ahead(k) => Above(Content[k])

(* The buffer holds the pieces before the position, those before them and  *)
(* after the start have been delivered.                                    *)
GapInv ==
  start # Nowhere =>
    /\ reader.inode # NoFile
    /\ reader.pos <= Size
    /\ start + Len(Buffer) <= reader.pos
    /\ \A k \in DOMAIN Buffer : Buffer[k] = Content[reader.pos - Len(Buffer) + k]
    /\ \A k \in (start + 1)..(reader.pos - Len(Buffer)) : Content[k] \in seen

(* At the end of the file the buffer is empty.                             *)
BufferInv == reader.pc = "eof" => Buffer = <<>>

(* Nothing comes again unless the reader has been misled.                  *)
OnceInv == ~misled => again = {}

IInv == TypeOK /\ FilesInv /\ FreshInv /\ GapInv /\ BufferInv /\ OnceInv

-----------------------------------------------------------------------------
(* Sequences: a stretch of one, and two put together.                      *)

LEMMA StretchShape ==
  ASSUME NEW S, NEW c \in Seq(S), NEW p \in Nat, NEW n \in Nat, p + n <= Len(c)
  PROVE  LET t == SubSeq(c, p + 1, p + n) IN
         /\ t \in Seq(S) /\ Len(t) = n /\ DOMAIN t = 1..n
         /\ \A k \in 1..n : p + k \in DOMAIN c /\ t[k] = c[p + k]
<1>1. Len(c) \in Nat /\ DOMAIN c = 1..Len(c) /\ \A k \in DOMAIN c : c[k] \in S
  BY ElementOfSeq, LenProperties
<1>2. p + 1 \in Int /\ p + n \in Int /\ \A k \in (p + 1)..(p + n) : c[k] \in S
  BY <1>1
<1> DEFINE t == SubSeq(c, p + 1, p + n)
<1>3. /\ t \in Seq(S)
      /\ Len(t) = IF p + 1 <= p + n THEN p + n - (p + 1) + 1 ELSE 0
      /\ \A k \in 1..(p + n - (p + 1) + 1) : t[k] = c[p + 1 + k - 1]
  <2> HIDE <1>1
  <2> QED
    BY <1>2, SubSeqProperties
<1> HIDE DEF t
<1>4. p + n - (p + 1) + 1 = n /\ \A k \in Int : p + 1 + k - 1 = p + k
  OBVIOUS
<1>5. Len(t) = n /\ DOMAIN t = 1..n /\ \A k \in 1..n : t[k] = c[p + k]
  <2>1. Len(t) = n
    BY <1>3
  <2>2. DOMAIN t = 1..n
    BY <1>3, <2>1, LenProperties
  <2>3. ASSUME NEW k \in 1..n PROVE t[k] = c[p + k]
    <3>1. k \in 1..(p + n - (p + 1) + 1)
      BY <1>4
    <3>2. p + 1 + k - 1 = p + k
      OBVIOUS
    <3> QED
      BY <1>3, <3>1, <3>2
  <2> QED
    BY <2>1, <2>2, <2>3
<1>6. \A k \in 1..n : p + k \in DOMAIN c
  BY <1>1
<1> QED
  BY <1>3, <1>5, <1>6 DEF t

LEMMA JoinShape ==
  ASSUME NEW S, NEW a \in Seq(S), NEW b \in Seq(S)
  PROVE  LET s == a \o b IN
         /\ s \in Seq(S) /\ Len(s) = Len(a) + Len(b) /\ DOMAIN s = 1..Len(s)
         /\ Len(a) \in Nat /\ Len(b) \in Nat
         /\ DOMAIN a = 1..Len(a) /\ DOMAIN b = 1..Len(b)
         /\ \A k \in DOMAIN a : k \in DOMAIN s /\ s[k] = a[k]
         /\ \A k \in DOMAIN s \ DOMAIN a :
              /\ k \in Nat /\ Len(a) < k
              /\ k - Len(a) \in DOMAIN b
              /\ s[k] = b[k - Len(a)]
<1> DEFINE s == a \o b
<1>1. /\ s \in Seq(S) /\ Len(s) = Len(a) + Len(b)
      /\ \A k \in 1..(Len(a) + Len(b)) :
           s[k] = IF k <= Len(a) THEN a[k] ELSE b[k - Len(a)]
  BY ConcatProperties
<1> HIDE DEF s
<1>2. /\ Len(a) \in Nat /\ Len(b) \in Nat /\ DOMAIN a = 1..Len(a)
      /\ DOMAIN b = 1..Len(b) /\ DOMAIN s = 1..Len(s)
  BY <1>1, LenProperties
<1>3. \A k \in DOMAIN a : k \in DOMAIN s /\ s[k] = a[k]
  BY <1>1, <1>2
<1>4. ASSUME NEW k \in DOMAIN s \ DOMAIN a
      PROVE  k \in Nat /\ Len(a) < k /\ k - Len(a) \in DOMAIN b /\ s[k] = b[k - Len(a)]
  BY <1>1, <1>2
<1> QED
  BY <1>1, <1>2, <1>3, <1>4 DEF s

(* What is left after the first n.                                         *)
LEMMA RestShape ==
  ASSUME NEW S, NEW s \in Seq(S), NEW n \in 1..Len(s)
  PROVE  LET t == SubSeq(s, n + 1, Len(s)) IN
         /\ t \in Seq(S) /\ Len(t) = Len(s) - n /\ DOMAIN t = 1..Len(t)
         /\ n \in Nat /\ n <= Len(s) /\ Len(s) \in Nat /\ DOMAIN s = 1..Len(s)
         /\ \A k \in DOMAIN t : n + k \in DOMAIN s /\ t[k] = s[n + k]
<1>1. Len(s) \in Nat /\ DOMAIN s = 1..Len(s)
  BY LenProperties
<1> DEFINE m == Len(s) - n
<1>2. n \in Nat /\ n <= Len(s) /\ m \in Nat /\ n + m = Len(s) /\ n + m <= Len(s)
  BY <1>1
<1> DEFINE t == SubSeq(s, n + 1, n + m)
<1> HIDE DEF m
<1>3. /\ t \in Seq(S) /\ Len(t) = m /\ DOMAIN t = 1..m
      /\ \A k \in 1..m : n + k \in DOMAIN s /\ t[k] = s[n + k]
  BY <1>2, StretchShape
<1>4. t = SubSeq(s, n + 1, Len(s))
  BY <1>2
<1> HIDE DEF t
<1> QED
  BY <1>1, <1>2, <1>3, <1>4 DEF m

USE DEF Inodes, NoFile, Nowhere, world, history

(* What a write appends.                                                   *)
Pieces(W, n) == [k \in 1..n |-> W + k]

(* What is read: the buffer and then the file behind the position.         *)
Filled(filled) == Buffer \o SubSeq(Unread, 1, filled)

LEMMA ReadShape ==
  ASSUME TypeOK, reader.inode # NoFile, NEW filled \in 0..Len(Unread)
  PROVE  LET s == Filled(filled) IN
         /\ s \in Seq(1..written)
         /\ filled \in Nat /\ Len(Buffer) \in Nat /\ Size \in Nat
         /\ reader.pos \in Nat
         /\ Len(s) = Len(Buffer) + filled
         /\ DOMAIN s = 1..Len(s) /\ DOMAIN Content = 1..Size
         /\ DOMAIN Buffer = 1..Len(Buffer)
         /\ filled = 0 \/ reader.pos + filled <= Size
         /\ \A k \in DOMAIN Buffer : k \in DOMAIN s /\ s[k] = Buffer[k]
         /\ \A k \in DOMAIN s \ DOMAIN Buffer :
              /\ Len(Buffer) < k
              /\ reader.pos + (k - Len(Buffer)) \in DOMAIN Content
              /\ s[k] = Content[reader.pos + (k - Len(Buffer))]
<1> DEFINE S == 1..written
           q == reader.pos
           u == Unread
           r == SubSeq(u, 1, filled)
           f == Filled(filled)
<1>1. Content \in Seq(S) /\ Buffer \in Seq(S) /\ q \in Nat
  BY DEF TypeOK, ReaderType, Content, Buffer
<1>a. Size = Len(Content)
  BY DEF Size
<1>b. u = SubSeq(Content, q + 1, Size)
  BY DEF Unread, Content, Size
<1>c. f = Buffer \o r
  BY DEF Filled
<1>d. filled \in 0..Len(u)
  OBVIOUS
<1> HIDE DEF S, q, u, f
<1>3. /\ Size \in Nat /\ Len(Buffer) \in Nat
      /\ DOMAIN Content = 1..Size /\ DOMAIN Buffer = 1..Len(Buffer)
  BY <1>1, <1>a, LenProperties
<1>4. /\ filled \in Nat /\ (filled = 0 \/ q + filled <= Size)
      /\ r \in Seq(S) /\ Len(r) = filled /\ DOMAIN r = 1..filled
      /\ \A k \in 1..filled : /\ q + k \in DOMAIN Content
                              /\ r[k] = Content[q + k]
  <2>1. CASE q <= Size
    <3>1. PICK m \in Nat : q + m = Size
      <4>1. Size - q \in Nat /\ q + (Size - q) = Size
        BY <1>1, <1>3, <2>1
      <4> QED
        BY <4>1
    <3>2. q + m <= Len(Content) /\ u = SubSeq(Content, q + 1, q + m)
      BY <1>1, <1>a, <1>b, <1>3, <3>1
    <3>3. /\ u \in Seq(S) /\ Len(u) = m
          /\ \A k \in 1..m : q + k \in DOMAIN Content /\ u[k] = Content[q + k]
      BY <1>1, <3>2, StretchShape
    <3>4. filled \in Nat /\ filled <= m
      BY <1>d, <3>3
    <3>5. PICK z \in Nat : z = 0
      OBVIOUS
    <3>6. z + filled <= Len(u) /\ r = SubSeq(u, z + 1, z + filled)
      BY <3>3, <3>4, <3>5
    <3> HIDE DEF r
    <3>7. /\ r \in Seq(S) /\ Len(r) = filled /\ DOMAIN r = 1..filled
          /\ \A k \in 1..filled : r[k] = u[z + k]
      BY <3>3, <3>4, <3>6, StretchShape
    <3>8. \A k \in 1..filled : z + k = k /\ k \in 1..m
      BY <3>4, <3>5
    <3>9. q + filled <= Size
      BY <1>1, <1>3, <3>1, <3>4
    <3> QED
      BY <3>3, <3>4, <3>7, <3>8, <3>9
  <2>2. CASE ~(q <= Size)
    <3>1. q + 1 \in Int /\ Size \in Int /\ Size < q + 1
      BY <1>1, <1>3, <2>2
    <3>2. u = <<>>
      BY <1>b, <3>1, SubSeqEmpty
    <3>3. filled = 0
      BY <1>d, <3>2
    <3>4. r = <<>>
      BY <3>3, SubSeqEmpty
    <3> HIDE DEF r
    <3> QED
      BY <3>3, <3>4, EmptySeq
  <2> QED
    BY <2>1, <2>2
<1> HIDE DEF r
<1>5. /\ f \in Seq(S) /\ Len(f) = Len(Buffer) + filled /\ DOMAIN f = 1..Len(f)
      /\ \A k \in DOMAIN Buffer : k \in DOMAIN f /\ f[k] = Buffer[k]
      /\ \A k \in DOMAIN f \ DOMAIN Buffer :
           /\ k \in Nat /\ Len(Buffer) < k
           /\ k - Len(Buffer) \in DOMAIN r
           /\ f[k] = r[k - Len(Buffer)]
  <2>1. r \in Seq(S) /\ Len(r) = filled /\ Buffer \in Seq(S)
    BY <1>1, <1>4
  <2> DEFINE g == Buffer \o r
  <2>2. /\ g \in Seq(S) /\ Len(g) = Len(Buffer) + Len(r) /\ DOMAIN g = 1..Len(g)
        /\ \A k \in DOMAIN Buffer : k \in DOMAIN g /\ g[k] = Buffer[k]
    BY <2>1, JoinShape
  <2>3. \A k \in DOMAIN g \ DOMAIN Buffer :
          /\ k \in Nat /\ Len(Buffer) < k
          /\ k - Len(Buffer) \in DOMAIN r
          /\ g[k] = r[k - Len(Buffer)]
    BY <2>1, JoinShape
  <2>4. f = g
    BY <1>c
  <2> HIDE DEF g
  <2> QED
    BY <2>1, <2>2, <2>3, <2>4
<1>6. \A k \in DOMAIN f \ DOMAIN Buffer :
        /\ q + (k - Len(Buffer)) \in DOMAIN Content
        /\ f[k] = Content[q + (k - Len(Buffer))]
  BY <1>4, <1>5
<1> QED
  BY <1>1, <1>3, <1>4, <1>5, <1>6 DEF f, q, S

-----------------------------------------------------------------------------
(* Types, and the files.                                                   *)

(* What a write does to the file of the writer; the others stay.           *)
LEMMA WriteEffect ==
  ASSUME TypeOK, NEW n \in {1, 2}, written' = written + n,
         files' = [files EXCEPT ![writer] = @ \o Pieces(written, n)]
  PROVE  LET c == files[writer]
             d == files'[writer]
         IN /\ written \in Nat /\ written' \in Nat /\ written < written'
            /\ 1..written \subseteq 1..written'
            /\ files' \in Seq(Seq(1..written')) /\ Inodes' = Inodes
            /\ \A f \in Inodes : f # writer => files'[f] = files[f]
            /\ c \in Seq(1..written)
            /\ Len(c) \in Nat /\ Len(d) = Len(c) + n
            /\ DOMAIN c = 1..Len(c) /\ DOMAIN d = 1..Len(d)
            /\ \A k \in DOMAIN c : k \in DOMAIN d /\ d[k] = c[k]
            /\ \A k \in DOMAIN d \ DOMAIN c :
                 k \in Nat /\ Len(c) < k /\ d[k] = written + (k - Len(c))
<1> DEFINE c == files[writer]
           d == c \o Pieces(written, n)
<1>1. /\ written \in Nat /\ c \in Seq(1..written) /\ writer \in Inodes
      /\ files \in Seq(Seq(1..written))
  BY DEF TypeOK
<1>2. files' = [files EXCEPT ![writer] = d]
  OBVIOUS
<1>3. /\ d \in Seq(1..(written + n))
      /\ Len(c) \in Nat /\ Len(d) = Len(c) + n
      /\ DOMAIN c = 1..Len(c) /\ DOMAIN d = 1..Len(d)
      /\ \A k \in DOMAIN c : k \in DOMAIN d /\ d[k] = c[k]
      /\ \A k \in DOMAIN d \ DOMAIN c :
           k \in Nat /\ Len(c) < k /\ d[k] = written + (k - Len(c))
  <2> DEFINE S == 1..(written + n)
             new == Pieces(written, n)
  <2>1. c \in Seq(S)
    <3>1. 1..written \subseteq S
      BY <1>1
    <3> HIDE DEF S
    <3> QED
      BY <1>1, <3>1, SeqMonotonic
  <2>2. new \in Seq(S) /\ Len(new) = n
    <3>1. \A k \in 1..n : written + k \in S
      BY <1>1
    <3> HIDE DEF S
    <3>2. new \in [1..n -> S] /\ n \in Nat
      BY <3>1 DEF Pieces
    <3>3. new \in Seq(S)
      BY <3>2, SeqDef
    <3> QED
      BY <3>2, <3>3
  <2>3. \A k \in DOMAIN new : new[k] = written + k
    BY DEF Pieces
  <2>4. d = c \o new
    OBVIOUS
  <2> HIDE DEF S, new, c, d
  <2>5. /\ d \in Seq(S) /\ Len(d) = Len(c) + n
        /\ Len(c) \in Nat /\ DOMAIN c = 1..Len(c) /\ DOMAIN d = 1..Len(d)
        /\ \A k \in DOMAIN c : k \in DOMAIN d /\ d[k] = c[k]
        /\ \A k \in DOMAIN d \ DOMAIN c :
             /\ k \in Nat /\ Len(c) < k
             /\ k - Len(c) \in DOMAIN new /\ d[k] = new[k - Len(c)]
    BY <2>1, <2>2, <2>4, JoinShape
  <2> QED
    BY <2>3, <2>5 DEF S
<1> HIDE DEF c, d
<1>4. 1..written \subseteq 1..written' /\ written' \in Nat /\ written < written'
  BY <1>1
<1>5. files \in Seq(Seq(1..written'))
  <2>1. Seq(1..written) \subseteq Seq(1..written')
    BY <1>4, SeqMonotonic
  <2> QED
    BY <1>1, <2>1, SeqMonotonic
<1>6. d \in Seq(1..written')
  BY <1>3
<1>7. files' \in Seq(Seq(1..written'))
  <2> DEFINE S == Seq(1..written')
  <2>1. files \in Seq(S) /\ d \in S
    BY <1>5, <1>6
  <2> HIDE DEF S
  <2>2. writer \in 1..Len(files)
    BY <1>1, <2>1, LenProperties
  <2>3. [files EXCEPT ![writer] = d] \in Seq(S)
    BY <2>1, <2>2, ExceptSeq
  <2> QED
    BY <1>2, <2>3 DEF S
<1>8. /\ Inodes' = Inodes /\ files'[writer] = d
      /\ \A f \in Inodes : f # writer => files'[f] = files[f]
  BY <1>1, <1>2
<1> QED
  BY <1>1, <1>3, <1>4, <1>7, <1>8 DEF c

LEMMA FilesType ==
  ASSUME TypeOK, NEW f \in Inodes
  PROVE  /\ files[f] \in Seq(1..written) /\ Len(files[f]) \in Nat
         /\ DOMAIN files[f] = 1..Len(files[f])
         /\ \A k \in DOMAIN files[f] : files[f][k] \in 1..written
         /\ f \in Nat /\ f # NoFile
<1>1. files[f] \in Seq(1..written) /\ f \in Nat /\ f # NoFile
  BY DEF TypeOK
<1> QED
  BY <1>1, LenProperties, ElementOfSeq

LEMMA TypeInit == Init => TypeOK
<1> SUFFICES ASSUME Init PROVE TypeOK
  OBVIOUS
<1> USE FileTailAssumption DEF Init, Log!Init, NoReader, NoWatch
<1>1. files \in Seq(Seq(1..written)) /\ DOMAIN files = {1}
  OBVIOUS
<1>2. reader \in ReaderType
  BY EmptySeq DEF ReaderType
<1>3. inotify \in WatchType
  BY DEF WatchType
<1>4. /\ reader.pc = "open" /\ reader.inode = NoFile /\ inotify.inode = NoFile
      /\ start \in 0..Nowhere
  OBVIOUS
<1>5. reader.pc = "open" <=> reader.inode = NoFile
  BY <1>4
<1>6. inotify.inode = NoFile <=> reader.pc \in {"open", "watch"}
  BY <1>4
<1>7. /\ path \in Inodes /\ writer \in Inodes /\ written \in 0..MaxWritten
      /\ changes \in 0..MaxChanges
      /\ seen \subseteq 1..written /\ again \subseteq seen
  BY <1>1
<1>8. misled \in BOOLEAN
  OBVIOUS
<1> QED
  BY <1>1, <1>2, <1>3, <1>4, <1>5, <1>6, <1>7, <1>8, Zenon DEF TypeOK

(* The reader holds nothing.                                               *)
LEMMA ResetType ==
  ASSUME TypeOK, Reset, UNCHANGED <<files, written>>
  PROVE  /\ reader' \in ReaderType' /\ inotify' \in WatchType'
         /\ reader'.pc = "open" /\ reader'.inode = NoFile /\ reader'.buf = <<>>
         /\ inotify'.inode = NoFile /\ start' = Nowhere
BY EmptySeq DEF Reset, NoReader, NoWatch, ReaderType, WatchType

LEMMA WorldTypeStep ==
  ASSUME TypeOK, World
  PROVE  TypeOK'
<1> USE FileTailAssumption
<1>1. CASE Write
  <2>1. PICK n \in {1, 2} :
          /\ written + n <= MaxWritten
          /\ written' = written + n
          /\ files' = [files EXCEPT ![writer] = @ \o Pieces(written, n)]
    BY <1>1 DEF Write, Pieces
  <2>2. /\ files' \in Seq(Seq(1..written')) /\ Inodes' = Inodes
        /\ written' \in Nat /\ 1..written \subseteq 1..written'
    BY <2>1, WriteEffect
  <2>5. written' \in 0..MaxWritten
    BY <2>1, <2>2
  <2>3. reader' \in ReaderType'
    <3>1. reader.buf \in Seq(1..written')
      BY <2>2, SeqMonotonic DEF TypeOK, ReaderType
    <3> QED
      BY <1>1, <2>2, <3>1 DEF TypeOK, ReaderType, Write
  <2>4. inotify' \in WatchType' /\ inotify'.inode = inotify.inode
    BY <1>1, <2>2 DEF TypeOK, WatchType, Write, Notify
  <2> QED
    BY <1>1, <2>2, <2>3, <2>4, <2>5 DEF TypeOK, Write
<1>2. ASSUME NEW kind, Change(kind),
             files' \in Seq(Seq(1..written)), Inodes \subseteq Inodes',
             path' \in Inodes' \cup {NoFile},
             inotify' \in WatchType', inotify'.inode = inotify.inode,
             start' \in 0..Nowhere
      PROVE  TypeOK'
  <2>1. reader' \in ReaderType'
    BY <1>2 DEF TypeOK, ReaderType, Change
  <2>2. changes' \in 0..MaxChanges
    BY <1>2 DEF TypeOK, Change
  <2> QED
    BY <1>2, <2>1, <2>2 DEF TypeOK, Change
<1>3. CASE Truncate
  <2>1. path \in Inodes
    BY <1>3 DEF TypeOK, Truncate, Change
  <2>2. files' \in Seq(Seq(1..written)) /\ Inodes' = Inodes
    BY <1>3, <2>1, EmptySeq, ExceptSeq, LenProperties DEF TypeOK, Truncate
  <2>3. inotify' \in WatchType' /\ inotify'.inode = inotify.inode
    BY <1>3, <2>2 DEF TypeOK, WatchType, Truncate, Notify
  <2>4. start' \in 0..Nowhere
    BY <1>3 DEF TypeOK, Truncate
  <2> QED
    BY <1>2, <1>3, <2>2, <2>3, <2>4 DEF TypeOK, Truncate
<1>4. CASE Rename \/ Unlink \/ Touch
  <2>1. PICK kind \in {"moved", "attrib"} : Notify(path, kind)
    BY <1>4 DEF Rename, Unlink, Touch
  <2>2. inotify \in WatchType /\ files' = files
    BY <1>4 DEF TypeOK, Rename, Unlink, Touch
  <2>3. inotify' \in WatchType /\ inotify'.inode = inotify.inode
    BY <2>1, <2>2 DEF WatchType, Notify
  <2>4. inotify' \in WatchType' /\ inotify'.inode = inotify.inode
    BY <2>2, <2>3 DEF WatchType
  <2> QED
    BY <1>2, <1>4, <2>4 DEF TypeOK, Rename, Unlink, Touch
<1>5. CASE Create
  <2>1. /\ files' \in Seq(Seq(1..written)) /\ Len(files') = Len(files) + 1
        /\ Len(files) \in Nat
        /\ Inodes = 1..Len(files) /\ Inodes' = 1..Len(files')
    BY <1>5, EmptySeq, AppendProperties, LenProperties DEF TypeOK, Create
  <2>2. Inodes \subseteq Inodes' /\ path' \in Inodes'
    BY <1>5, <2>1 DEF Create
  <2>3. inotify' \in WatchType' /\ inotify'.inode = inotify.inode
    BY <1>5, <2>2 DEF TypeOK, WatchType, Create
  <2> QED
    BY <1>2, <1>5, <2>1, <2>2, <2>3 DEF TypeOK, Create
<1>6. CASE ReopenLog
  BY <1>6 DEF TypeOK, ReaderType, WatchType, ReopenLog
<1> QED
  BY <1>1, <1>3, <1>4, <1>5, <1>6 DEF World

(* A line is read: filled pieces come into the buffer, n leave it.         *)
Line(filled, n) ==
  /\ filled \in 0..Len(Unread)
  /\ n \in 1..Len(Filled(filled))
  /\ LET s == Filled(filled)
         entry == {s[k] : k \in 1..n}
     IN /\ seen' = seen \cup entry
        /\ again' = again \cup (entry \cap seen)
        /\ reader' = [reader EXCEPT !.pos = @ + filled,
                                    !.buf = SubSeq(s, n + 1, Len(s))]
  /\ UNCHANGED <<world, inotify, misled, start>>

LEMMA LineIsRead ==
  ASSUME TypeOK, ReadLine
  PROVE  /\ \E filled, n : Line(filled, n)
         /\ reader.inode # NoFile /\ reader.pc = "read"
<1>1. \E filled, n : Line(filled, n)
  BY DEF ReadLine, Line, Filled, Buffer
<1> QED
  BY <1>1 DEF ReadLine, TypeOK

LEMMA LineEffect ==
  ASSUME TypeOK, reader.inode # NoFile, NEW filled, NEW n, Line(filled, n)
  PROVE  LET s == Filled(filled) IN
         /\ reader' \in ReaderType' /\ reader'.pc = reader.pc
         /\ reader'.inode = reader.inode /\ reader'.pos = reader.pos + filled
         /\ n \in Nat /\ 1 <= n /\ n <= Len(s)
         /\ Len(reader'.buf) = Len(s) - n
         /\ DOMAIN reader'.buf = 1..(Len(s) - n)
         /\ \A k \in DOMAIN reader'.buf :
              n + k \in DOMAIN s /\ reader'.buf[k] = s[n + k]
         /\ seen' \subseteq 1..written
         /\ \A x \in seen' : x \in seen \/ \E k \in 1..n : k \in DOMAIN s /\ x = s[k]
         /\ \A k \in 1..n : k \in DOMAIN s /\ s[k] \in seen'
         /\ again' \subseteq seen'
<1> DEFINE s == Filled(filled)
           t == SubSeq(s, n + 1, Len(s))
<1>1. /\ s \in Seq(1..written) /\ filled \in Nat /\ reader.pos \in Nat
      /\ DOMAIN s = 1..Len(s)
  BY ReadShape DEF Line
<1>2. /\ seen' = seen \cup {s[k] : k \in 1..n}
      /\ again' = again \cup ({s[k] : k \in 1..n} \cap seen)
      /\ reader' = [reader EXCEPT !.pos = @ + filled, !.buf = t]
      /\ n \in 1..Len(s)
  BY DEF Line
<1>a. files' = files /\ written' = written
  BY DEF Line
<1> HIDE DEF s
<1>3. /\ t \in Seq(1..written) /\ Len(t) = Len(s) - n /\ DOMAIN t = 1..Len(t)
      /\ n \in Nat /\ n <= Len(s) /\ Len(s) \in Nat
      /\ \A k \in DOMAIN t : n + k \in DOMAIN s /\ t[k] = s[n + k]
  BY <1>1, <1>2, RestShape
<1> HIDE DEF t
<1>d. \A k \in DOMAIN s : s[k] \in 1..written
  <2> DEFINE S == 1..written
  <2>1. s \in Seq(S)
    BY <1>1
  <2> HIDE DEF S
  <2>2. \A k \in 1..Len(s) : s[k] \in S
    BY <2>1, ElementOfSeq
  <2> QED
    BY <1>1, <2>2 DEF S
<1>e. 1..n \subseteq DOMAIN s
  BY <1>1, <1>3
<1>4. \A k \in 1..n : k \in DOMAIN s /\ s[k] \in 1..written
  BY <1>d, <1>e
<1>c. seen \subseteq 1..written /\ again \subseteq seen
  BY DEF TypeOK
<1>5. seen' \subseteq 1..written /\ again' \subseteq seen'
  BY <1>2, <1>4, <1>c
<1>6. reader \in ReaderType
  BY DEF TypeOK
<1>b. reader.pos + filled \in Nat
  BY <1>1
<1>8. /\ reader'.pc = reader.pc /\ reader'.inode = reader.inode
      /\ reader'.pos = reader.pos + filled /\ reader'.buf = t
      /\ reader' \in ReaderType
  <2>1. PICK p \in Nat : p = reader.pos + filled
    BY <1>b
  <2>2. reader' = [reader EXCEPT !.pos = p, !.buf = t]
    BY <1>2, <2>1
  <2> QED
    BY <1>3, <1>6, <2>1, <2>2 DEF ReaderType
<1>7. reader' \in ReaderType'
  BY <1>8, <1>a DEF ReaderType
<1>9. /\ \A x \in seen' : x \in seen \/ \E k \in 1..n : k \in DOMAIN s /\ x = s[k]
      /\ \A k \in 1..n : k \in DOMAIN s /\ s[k] \in seen'
  BY <1>2, <1>4
<1>10. /\ DOMAIN reader'.buf = 1..(Len(s) - n)
       /\ \A k \in DOMAIN reader'.buf : n + k \in DOMAIN s /\ reader'.buf[k] = s[n + k]
       /\ Len(reader'.buf) = Len(s) - n
       /\ 1 <= n
  BY <1>2, <1>3, <1>8
<1> QED
  BY <1>3, <1>5, <1>7, <1>8, <1>9, <1>10 DEF s

LEMMA ReaderTypeStep ==
  ASSUME TypeOK, FilesInv, ReaderStep \/ ReadError
  PROVE  TypeOK'
<1> USE FileTailAssumption
<1>0. reader \in ReaderType /\ inotify \in WatchType
  BY DEF TypeOK
<1>1. CASE Open
  <2>1. path \in Inodes /\ Len(files[path]) \in Nat /\ Len(files[path]) <= written
    BY <1>1, FilesType DEF TypeOK, FilesInv, Open
  <2>2. start' \in 0..Nowhere
    BY <1>1, <2>1 DEF TypeOK, Open
  <2>3. reader' \in ReaderType' /\ reader'.pc = "watch" /\ reader'.inode # NoFile
    BY <1>1, <2>1, EmptySeq DEF ReaderType, Open
  <2> QED
    BY <1>1, <2>2, <2>3 DEF TypeOK, WatchType, Open
<1>2. ASSUME Reset, UNCHANGED <<world, seen, again, misled>> PROVE TypeOK'
  <2>1. start' \in 0..Nowhere
    BY <1>2 DEF Reset
  <2>2. /\ reader' \in ReaderType' /\ inotify' \in WatchType'
        /\ reader'.pc = "open" /\ reader'.inode = NoFile
        /\ inotify'.inode = NoFile
    BY <1>2, ResetType
  <2> QED
    BY <1>2, <2>1, <2>2 DEF TypeOK
<1>3. CASE AddWatch
  <2>1. CASE path = NoFile
    BY <1>2, <1>3, <2>1 DEF AddWatch
  <2>2. CASE path # NoFile
    <3>1. reader' \in ReaderType' /\ reader'.pc = "read" /\ reader'.inode = reader.inode
      BY <1>0, <1>3, <2>2 DEF ReaderType, AddWatch, Goto
    <3>2. inotify' \in WatchType' /\ inotify'.inode # NoFile
      BY <1>3, <2>2 DEF TypeOK, WatchType, AddWatch
    <3>3. reader.inode # NoFile
      BY <1>3 DEF TypeOK, AddWatch
    <3> QED
      BY <1>3, <2>2, <3>1, <3>2, <3>3 DEF TypeOK, AddWatch
  <2> QED
    BY <2>1, <2>2
<1>4. CASE ReadLine
  <2>1. PICK filled, n : Line(filled, n)
    BY <1>4, LineIsRead
  <2>2. /\ reader' \in ReaderType' /\ reader'.pc = reader.pc
        /\ reader'.inode = reader.inode
        /\ seen' \subseteq 1..written /\ again' \subseteq seen'
    BY <1>4, <2>1, LineIsRead, LineEffect
  <2> QED
    BY <2>1, <2>2 DEF TypeOK, WatchType, Line
<1>5. ASSUME NEW label \in {"read", "eof", "wait", "identity"}, Goto(label),
             reader.pc \notin {"open", "watch"},
             inotify' \in WatchType, inotify'.inode = inotify.inode,
             UNCHANGED <<world, history>>
      PROVE  TypeOK'
  <2>1. reader' \in ReaderType /\ reader'.pc = label /\ reader'.inode = reader.inode
    BY <1>0, <1>5 DEF ReaderType, Goto
  <2> QED
    BY <1>5, <2>1 DEF TypeOK, ReaderType, WatchType
<1>6. CASE EndOfFile
  BY <1>0, <1>5, <1>6 DEF EndOfFile
<1>7. CASE MaybeRewind
  <2>1. CASE Shrunk
    <3>1. /\ reader' \in ReaderType /\ reader'.pc = "read"
          /\ reader'.inode = reader.inode
      <4>1. reader' = [reader EXCEPT !.pc = "read", !.pos = 0]
        BY <1>7, <2>1 DEF MaybeRewind
      <4> QED
        BY <1>0, <4>1 DEF ReaderType
    <3>2. start' \in 0..Nowhere
      BY <1>7, <2>1 DEF TypeOK, MaybeRewind
    <3>3. misled' \in BOOLEAN
      BY <1>7, <2>1 DEF TypeOK, MaybeRewind
    <3>4. reader.pc = "eof" /\ UNCHANGED <<world, inotify, seen, again>>
      BY <1>7 DEF MaybeRewind
    <3>5. ReaderType' = ReaderType /\ WatchType' = WatchType
      BY <3>4 DEF ReaderType, WatchType
    <3>6. /\ reader'.pc = "open" <=> reader'.inode = NoFile
          /\ inotify'.inode = NoFile <=> reader'.pc \in {"open", "watch"}
      BY <3>1, <3>4 DEF TypeOK
    <3>7. /\ files' \in Seq(Seq(1..written')) /\ path' \in Inodes' \cup {NoFile}
          /\ writer' \in Inodes' /\ written' \in 0..MaxWritten
          /\ changes' \in 0..MaxChanges
          /\ seen' \subseteq 1..written' /\ again' \subseteq seen'
          /\ inotify' \in WatchType
      BY <3>4 DEF TypeOK
    <3> QED
      BY <3>1, <3>2, <3>3, <3>5, <3>6, <3>7, Zenon DEF TypeOK
  <2>2. CASE ~Shrunk
    BY <1>0, <1>5, <1>7, <2>2 DEF MaybeRewind
  <2> QED
    BY <2>1, <2>2
<1>8. CASE ReadEvents
  <2>1. CASE "moved" \in inotify.events
    BY <1>2, <1>8, <2>1 DEF ReadEvents
  <2>2. CASE "moved" \notin inotify.events
    <3>1. inotify' \in WatchType /\ inotify'.inode = inotify.inode
      BY <1>0, <1>8, <2>2 DEF WatchType, ReadEvents
    <3>2. PICK label \in {"identity", "read"} : Goto(label)
      BY <1>8, <2>2 DEF ReadEvents
    <3> QED
      BY <1>5, <1>8, <2>2, <3>1, <3>2 DEF ReadEvents
  <2> QED
    BY <2>1, <2>2
<1>9. CASE CheckIdentity
  <2>1. CASE SameFile
    BY <1>0, <1>5, <1>9, <2>1 DEF CheckIdentity
  <2>2. CASE ~SameFile
    BY <1>2, <1>9, <2>2 DEF CheckIdentity
  <2> QED
    BY <2>1, <2>2
<1>10. CASE ReadError
  BY <1>2, <1>10 DEF ReadError
<1> QED
  BY <1>1, <1>3, <1>4, <1>6, <1>7, <1>8, <1>9, <1>10 DEF ReaderStep

LEMMA TypeStep == TypeOK /\ FilesInv /\ [Next]_vars => TypeOK'
<1> SUFFICES ASSUME TypeOK, FilesInv, [Next]_vars PROVE TypeOK'
  OBVIOUS
<1>1. CASE UNCHANGED vars
  BY <1>1 DEF vars, TypeOK, ReaderType, WatchType
<1> QED
  BY <1>1, WorldTypeStep, ReaderTypeStep DEF Next

LEMMA FilesStep == TypeOK /\ FilesInv /\ [Next]_vars => FilesInv'
<1> SUFFICES ASSUME TypeOK, FilesInv, [Next]_vars PROVE FilesInv'
  OBVIOUS
<1> DEFINE Ordered(c) == \A k, l \in DOMAIN c : k < l => c[k] < c[l]
<1>0. written \in Nat
  BY DEF TypeOK
<1>1. CASE Write
  <2>1. PICK n \in {1, 2} :
          /\ written' = written + n
          /\ files' = [files EXCEPT ![writer] = @ \o Pieces(written, n)]
    BY <1>1 DEF Write, Pieces
  <2>2. /\ written' \in Nat /\ written < written' /\ Inodes' = Inodes
        /\ \A f \in Inodes : f # writer => files'[f] = files[f]
    BY <2>1, WriteEffect
  <2> SUFFICES ASSUME NEW f \in Inodes
               PROVE  Len(files'[f]) <= written' /\ Ordered(files'[f])
    BY <2>2 DEF FilesInv
  <2>3. CASE f = writer
    <3> DEFINE c == files[writer]
               d == files'[writer]
    <3>1. /\ Len(c) \in Nat /\ Len(d) = Len(c) + n
          /\ DOMAIN c = 1..Len(c) /\ DOMAIN d = 1..Len(d)
          /\ \A k \in DOMAIN c : k \in DOMAIN d /\ d[k] = c[k]
          /\ \A k \in DOMAIN d \ DOMAIN c :
               k \in Nat /\ Len(c) < k /\ d[k] = written + (k - Len(c))
      BY <2>1, WriteEffect
    <3>2. Len(c) <= written /\ Ordered(c)
      BY <2>3 DEF FilesInv
    <3>3. \A k \in DOMAIN c : c[k] \in 1..written
      BY <2>3, FilesType
    <3> HIDE DEF c, d
    <3>4. Len(d) <= written'
      BY <1>0, <2>1, <3>1, <3>2
    <3>5. ASSUME NEW k \in DOMAIN d, NEW l \in DOMAIN d, k < l
          PROVE  d[k] < d[l]
      <4>1. CASE l \in DOMAIN c
        BY <3>1, <3>2, <3>5, <4>1
      <4>2. CASE k \in DOMAIN c /\ l \notin DOMAIN c
        BY <1>0, <3>1, <3>3, <3>5, <4>2
      <4>3. CASE k \notin DOMAIN c /\ l \notin DOMAIN c
        BY <1>0, <3>1, <3>5, <4>3
      <4> QED
        BY <4>1, <4>2, <4>3
    <3> QED
      BY <2>3, <3>4, <3>5 DEF d
  <2>4. CASE f # writer
    <3>1. files'[f] = files[f] /\ Len(files[f]) <= written /\ Ordered(files[f])
      BY <2>2, <2>4 DEF FilesInv
    <3>2. Len(files[f]) \in Nat
      BY FilesType
    <3> QED
      BY <1>0, <2>2, <3>1, <3>2
  <2> QED
    BY <2>3, <2>4
<1>e. Len(<<>>) <= written /\ Ordered(<<>>)
  BY <1>0, EmptySeq
<1>2. CASE Truncate
  <2>1. /\ Inodes' = Inodes /\ written' = written
        /\ \A f \in Inodes : files'[f] = files[f] \/ files'[f] = <<>>
    BY <1>2 DEF TypeOK, Truncate, Change
  <2> QED
    BY <1>e, <2>1 DEF FilesInv
<1>3. CASE Create
  <2>1. /\ files' = Append(files, <<>>) /\ written' = written
        /\ files \in Seq(Seq(1..written)) /\ <<>> \in Seq(1..written)
    BY <1>3, EmptySeq DEF TypeOK, Create, Change
  <2>2. \A f \in Inodes' : (f \in Inodes /\ files'[f] = files[f]) \/ files'[f] = <<>>
    BY <2>1, AppendProperties, LenProperties
  <2> QED
    BY <1>e, <2>1, <2>2 DEF FilesInv
<1>4. CASE UNCHANGED <<files, written>>
  BY <1>4 DEF FilesInv
<1>5. World => Write \/ Truncate \/ Create \/ UNCHANGED <<files, written>>
  BY DEF World, Rename, Unlink, Touch, ReopenLog, Change
<1>6. ReaderStep \/ ReadError => UNCHANGED <<files, written>>
  BY DEF ReaderStep, Open, AddWatch, ReadLine, EndOfFile, MaybeRewind,
         ReadEvents, CheckIdentity, ReadError
<1> QED
  BY <1>1, <1>2, <1>3, <1>4, <1>5, <1>6 DEF Next, vars

-----------------------------------------------------------------------------
(* What comes next in the file is later than what has come.                *)

USE DEF Content, Size, Buffer

(* The reader stays where it is, on a file that stays as it is.            *)
LEMMA Steady ==
  ASSUME FreshInv, GapInv,
         reader'.inode = reader.inode, reader'.pos = reader.pos,
         reader'.buf = reader.buf, UNCHANGED history,
         reader.inode # NoFile => files'[reader.inode] = files[reader.inode]
  PROVE  FreshInv' /\ GapInv'
<1>1. FreshInv'
  BY DEF FreshInv, Ahead, Above, AboveSeen
<1>2. GapInv'
  BY DEF GapInv
<1> QED
  BY <1>1, <1>2

(* Nothing is read.                                                        *)
LEMMA Detached ==
  ASSUME reader'.inode = NoFile, start' = Nowhere
  PROVE  FreshInv' /\ GapInv'
BY DEF FreshInv, GapInv

LEMMA WorldSteps ==
  ASSUME TypeOK, FilesInv, FreshInv, GapInv, World
  PROVE  FreshInv' /\ GapInv'
<1>0. reader' = reader /\ UNCHANGED <<seen, again, misled>>
  BY DEF World, Write, Truncate, Rename, Unlink, Create, Touch, ReopenLog, Change
<1>a. /\ reader.inode \in Inodes \cup {NoFile} /\ reader.pos \in Nat
      /\ reader.buf \in Seq(1..written) /\ seen \subseteq 1..written
  BY DEF TypeOK, ReaderType
<1>1. CASE Write /\ reader.inode = writer
  <2> DEFINE c == files[writer]
             d == files'[writer]
             b == reader.buf
             p == reader.pos
  <2>1. PICK n \in {1, 2} :
          /\ written' = written + n
          /\ files' = [files EXCEPT ![writer] = @ \o Pieces(written, n)]
          /\ start' = start
    BY <1>1 DEF Write, Pieces
  <2>2. /\ written \in Nat /\ Len(c) \in Nat /\ Len(d) = Len(c) + n
        /\ DOMAIN c = 1..Len(c) /\ DOMAIN d = 1..Len(d)
        /\ \A k \in DOMAIN c : k \in DOMAIN d /\ d[k] = c[k]
        /\ \A k \in DOMAIN d \ DOMAIN c :
             k \in Nat /\ Len(c) < k /\ d[k] = written + (k - Len(c))
    BY <2>1, WriteEffect
  <2>3. p \in Nat /\ b \in Seq(1..written)
    BY <1>a
  <2>4. Len(b) \in Nat /\ DOMAIN b = 1..Len(b) /\ \A k \in DOMAIN b : b[k] \in 1..written
    BY <2>3, LenProperties, ElementOfSeq
  <2>5. FreshInv'
    <3> SUFFICES ASSUME ~misled
                 PROVE  /\ \A k \in DOMAIN b : \A y \in seen : y < b[k]
                        /\ \A k, l \in DOMAIN b : k < l => b[k] < b[l]
                        /\ \A k \in DOMAIN d : k > p \/ p > Len(d) =>
                             /\ \A y \in seen : y < d[k]
                             /\ \A l \in DOMAIN b : b[l] < d[k]
      BY <1>0, <1>1 DEF FreshInv, Ahead, Above, AboveSeen
    <3>1. /\ \A k \in DOMAIN b : \A y \in seen : y < b[k]
          /\ \A k, l \in DOMAIN b : k < l => b[k] < b[l]
          /\ \A k \in DOMAIN c : k > p \/ p > Len(c) =>
               /\ \A y \in seen : y < c[k]
               /\ \A l \in DOMAIN b : b[l] < c[k]
      <4>1. reader.inode # NoFile
        BY <1>1 DEF TypeOK
      <4> QED
        BY <1>1, <4>1 DEF FreshInv, Ahead, Above, AboveSeen
    <3>2. ASSUME NEW k \in DOMAIN d, k > p \/ p > Len(d)
          PROVE  /\ \A y \in seen : y < d[k]
                 /\ \A l \in DOMAIN b : b[l] < d[k]
      <4> HIDE DEF c, d, b, p
      <4>1. CASE k \in DOMAIN c
        <5>1. k > p \/ p > Len(c)
          BY <2>1, <2>2, <2>3, <3>2
        <5> QED
          BY <2>2, <3>1, <4>1, <5>1
      <4>2. CASE k \notin DOMAIN c
        <5>1. d[k] > written /\ d[k] \in Nat
          BY <2>2, <4>2
        <5> QED
          BY <1>a, <2>2, <2>4, <5>1
      <4> QED
        BY <4>1, <4>2
    <3> QED
      BY <3>1, <3>2
  <2>6. GapInv'
    <3>1. start # Nowhere =>
            /\ reader.inode # NoFile
            /\ p <= Len(c)
            /\ start + Len(b) <= p
            /\ \A k \in DOMAIN b : b[k] = c[p - Len(b) + k]
            /\ \A k \in (start + 1)..(p - Len(b)) : c[k] \in seen
      BY <1>1 DEF GapInv
    <3>2. start \in Nat
      BY FileTailAssumption DEF TypeOK
    <3>3. ASSUME start # Nowhere
          PROVE  /\ p <= Len(d)
                 /\ \A k \in DOMAIN b : b[k] = d[p - Len(b) + k]
                 /\ \A k \in (start + 1)..(p - Len(b)) : d[k] \in seen
      <4> HIDE DEF c, d, b, p
      <4>1. p <= Len(d)
        BY <2>1, <2>2, <2>3, <3>1, <3>3
      <4>2. \A k \in DOMAIN b : p - Len(b) + k \in DOMAIN c
        BY <2>2, <2>3, <2>4, <3>1, <3>2, <3>3
      <4>3. \A k \in DOMAIN b : b[k] = d[p - Len(b) + k]
        BY <2>2, <3>1, <3>3, <4>2
      <4>4. \A k \in (start + 1)..(p - Len(b)) : k \in DOMAIN c
        BY <2>2, <2>3, <2>4, <3>1, <3>2, <3>3
      <4>5. \A k \in (start + 1)..(p - Len(b)) : d[k] \in seen
        BY <2>2, <3>1, <3>3, <4>4
      <4> QED
        BY <4>1, <4>3, <4>5
    <3>4. (files[reader.inode])' = d /\ start' = start
      BY <1>0, <1>1, <2>1
    <3>5. (reader.buf)' = b /\ (reader.pos)' = p /\ seen' = seen /\ (reader.inode)' = reader.inode
      BY <1>0
    <3> HIDE DEF c, d, b, p
    <3> QED
      BY <3>1, <3>3, <3>4, <3>5 DEF GapInv
  <2> QED
    BY <2>5, <2>6
<1>2. CASE Truncate /\ reader.inode = path
  <2>1. reader.inode # NoFile /\ files'[reader.inode] = <<>> /\ start' = Nowhere
    BY <1>2 DEF TypeOK, Truncate, Change
  <2>2. FreshInv'
    <3>1. ~misled => /\ \A k \in DOMAIN Buffer : AboveSeen(Buffer[k])
                     /\ \A k, l \in DOMAIN Buffer : k < l => Buffer[k] < Buffer[l]
      BY <2>1 DEF FreshInv
    <3>2. DOMAIN files'[reader.inode] = {}
      BY <2>1
    <3> QED
      BY <1>0, <3>1, <3>2 DEF FreshInv, AboveSeen
  <2>3. GapInv'
    BY <2>1 DEF GapInv
  <2> QED
    BY <2>2, <2>3
<1>3. CASE UNCHANGED history /\ \A f \in Inodes : f = reader.inode => files'[f] = files[f]
  BY <1>0, <1>3, <1>a, Steady
<1>4. Write /\ reader.inode # writer => \A f \in Inodes : f = reader.inode => files'[f] = files[f]
  BY DEF Write
<1>5. Truncate /\ reader.inode # path =>
        UNCHANGED history /\ \A f \in Inodes : f = reader.inode => files'[f] = files[f]
  BY <1>0 DEF Truncate
<1>6. Create => \A f \in Inodes : f = reader.inode => files'[f] = files[f]
  BY AppendProperties, LenProperties DEF TypeOK, Create
<1>7. CASE Write
  BY <1>1, <1>3, <1>4, <1>7 DEF Write
<1>8. CASE Truncate
  BY <1>2, <1>3, <1>5, <1>8
<1>9. CASE Create
  BY <1>0, <1>3, <1>6, <1>9 DEF Create
<1>10. CASE Rename \/ Unlink \/ Touch \/ ReopenLog
  BY <1>0, <1>3, <1>10 DEF Rename, Unlink, Touch, ReopenLog
<1> QED
  BY <1>7, <1>8, <1>9, <1>10 DEF World

(* What is read is later than what has been, in order, and what is behind  *)
(* it is later still.                                                      *)
LEMMA LineOrder ==
  ASSUME TypeOK, FilesInv, FreshInv, ~misled, reader.inode # NoFile,
         NEW filled \in 0..Len(Unread)
  PROVE  LET s == Filled(filled) IN
         /\ \A k \in DOMAIN s : AboveSeen(s[k])
         /\ \A k, l \in DOMAIN s : k < l => s[k] < s[l]
         /\ \A k \in DOMAIN Content :
              k > reader.pos + filled \/ reader.pos + filled > Size =>
                AboveSeen(Content[k]) /\ \A l \in DOMAIN s : s[l] < Content[k]
<1> DEFINE s == Filled(filled)
           c == Content
           b == Buffer
           p == reader.pos
           z == Len(b)
<1>1. /\ filled \in Nat /\ z \in Nat /\ Size \in Nat /\ p \in Nat
      /\ DOMAIN s = 1..Len(s) /\ DOMAIN c = 1..Size /\ DOMAIN b = 1..z
      /\ filled = 0 \/ p + filled <= Size
      /\ Len(s) = z + filled
      /\ \A k \in DOMAIN b : k \in DOMAIN s /\ s[k] = b[k]
      /\ \A k \in DOMAIN s \ DOMAIN b :
           /\ z < k /\ p + (k - z) \in DOMAIN c /\ s[k] = c[p + (k - z)]
  BY ReadShape
<1>2. /\ \A k \in DOMAIN b : AboveSeen(b[k])
      /\ \A k, l \in DOMAIN b : k < l => b[k] < b[l]
      /\ \A k \in DOMAIN c : k > p \/ p > Size =>
           AboveSeen(c[k]) /\ \A l \in DOMAIN b : b[l] < c[k]
  BY DEF FreshInv, Ahead, Above
<1>3. \A k, l \in DOMAIN c : k < l => c[k] < c[l]
  BY DEF FilesInv, TypeOK, ReaderType
<1> DEFINE T == Size
<1>4. T = Size
  OBVIOUS
<1> HIDE DEF s, c, b, p, z, T
<1>5. ASSUME NEW k \in DOMAIN s PROVE AboveSeen(s[k])
  <2>1. CASE k \in DOMAIN b
    BY <1>1, <1>2, <2>1
  <2>2. CASE k \notin DOMAIN b
    <3>1. PICK j \in DOMAIN c : j > p /\ s[k] = c[j]
      <4>1. p + (k - z) > p
        BY <1>1, <2>2
      <4> QED
        BY <1>1, <2>2, <4>1
    <3> QED
      BY <1>2, <3>1
  <2> QED
    BY <2>1, <2>2
<1>6. ASSUME NEW k \in DOMAIN s, NEW l \in DOMAIN s, k < l PROVE s[k] < s[l]
  <2>1. CASE l \in DOMAIN b
    <3>1. k \in DOMAIN b
      BY <1>1, <1>6, <2>1
    <3> QED
      BY <1>1, <1>2, <1>6, <2>1, <3>1
  <2>2. CASE l \notin DOMAIN b
    <3>1. PICK j \in DOMAIN c : j = p + (l - z) /\ j > p /\ s[l] = c[j]
      <4>1. p + (l - z) > p
        BY <1>1, <2>2
      <4> QED
        BY <1>1, <2>2, <4>1
    <3>2. CASE k \in DOMAIN b
      BY <1>1, <1>2, <3>1, <3>2
    <3>3. CASE k \notin DOMAIN b
      <4>1. PICK i \in DOMAIN c : i = p + (k - z) /\ s[k] = c[i]
        BY <1>1, <3>3
      <4>2. i < j
        BY <1>1, <1>6, <3>1, <4>1
      <4> QED
        BY <1>3, <3>1, <4>1, <4>2
    <3> QED
      BY <3>2, <3>3
  <2> QED
    BY <2>1, <2>2
<1>7. ASSUME NEW k \in DOMAIN c, k > p + filled \/ p + filled > T
      PROVE  AboveSeen(c[k]) /\ \A l \in DOMAIN s : s[l] < c[k]
  <2>1. k > p \/ p > T
    BY <1>1, <1>4, <1>7
  <2>2. AboveSeen(c[k]) /\ \A l \in DOMAIN b : b[l] < c[k]
    BY <1>2, <1>4, <2>1
  <2>3. ASSUME NEW l \in DOMAIN s, l \notin DOMAIN b PROVE s[l] < c[k]
    <3>1. PICK j \in DOMAIN c : j = p + (l - z) /\ s[l] = c[j]
      BY <1>1, <2>3
    <3>2. l <= z + filled /\ z < l /\ l \in Nat
      BY <1>1, <2>3
    <3>3. filled # 0 /\ p + filled <= T
      BY <1>1, <1>4, <3>2
    <3>4. k > p + filled /\ k \in Nat
      BY <1>1, <1>4, <1>7, <3>3
    <3>5. j < k
      BY <1>1, <3>1, <3>2, <3>4
    <3> QED
      BY <1>3, <3>1, <3>5
  <2> QED
    BY <1>1, <2>2, <2>3
<1> QED
  BY <1>5, <1>6, <1>7 DEF s, c, p, T

(* Where what is read comes from, if nothing was truncated.                *)
LEMMA LinePlace ==
  ASSUME TypeOK, GapInv, start # Nowhere, NEW filled \in 0..Len(Unread)
  PROVE  LET s == Filled(filled) IN
         \A k \in DOMAIN s :
           s[k] = Content[reader.pos - Len(Buffer) + k]
<1> DEFINE s == Filled(filled)
<1>1. reader.inode # NoFile
  BY DEF GapInv
<1>2. SUFFICES ASSUME NEW k \in DOMAIN s
               PROVE  s[k] = Content[reader.pos - Len(Buffer) + k]
  OBVIOUS
<1>3. /\ Len(Buffer) \in Nat /\ reader.pos \in Nat /\ DOMAIN s = 1..Len(s)
      /\ \A j \in DOMAIN Buffer : s[j] = Buffer[j]
      /\ \A j \in DOMAIN s \ DOMAIN Buffer :
           s[j] = Content[reader.pos + (j - Len(Buffer))]
  BY <1>1, ReadShape
<1>4. \A j \in DOMAIN Buffer : Buffer[j] = Content[reader.pos - Len(Buffer) + j]
  BY DEF GapInv
<1>5. reader.pos + (k - Len(Buffer)) = reader.pos - Len(Buffer) + k
  <2> HIDE DEF s, Buffer
  <2> QED
    BY <1>3
<1> HIDE DEF s, Content, Buffer
<1> QED
  BY <1>3, <1>4, <1>5

LEMMA LineFresh ==
  ASSUME TypeOK, FilesInv, FreshInv, reader.inode # NoFile,
         NEW filled, NEW n, Line(filled, n)
  PROVE  FreshInv'
<1> DEFINE s == Filled(filled)
           t == reader'.buf
<1>1. /\ reader'.inode = reader.inode /\ reader'.pos = reader.pos + filled
      /\ n \in Nat /\ DOMAIN t = 1..(Len(s) - n)
      /\ \A k \in DOMAIN t : n + k \in DOMAIN s /\ t[k] = s[n + k]
      /\ \A x \in seen' : x \in seen \/ \E k \in 1..n : k \in DOMAIN s /\ x = s[k]
  BY LineEffect
<1>2. UNCHANGED <<files, misled>> /\ filled \in 0..Len(Unread)
  BY DEF Line
<1> SUFFICES ASSUME ~misled
             PROVE  /\ \A k \in DOMAIN t : \A y \in seen' : y < t[k]
                    /\ \A k, l \in DOMAIN t : k < l => t[k] < t[l]
                    /\ \A k \in DOMAIN Content :
                         k > reader.pos + filled \/ reader.pos + filled > Size =>
                           /\ \A y \in seen' : y < Content[k]
                           /\ \A l \in DOMAIN t : t[l] < Content[k]
  BY <1>1, <1>2 DEF FreshInv, Ahead, Above, AboveSeen
<1>3. /\ \A k \in DOMAIN s : \A y \in seen : y < s[k]
      /\ \A k, l \in DOMAIN s : k < l => s[k] < s[l]
      /\ \A k \in DOMAIN Content :
           k > reader.pos + filled \/ reader.pos + filled > Size =>
             /\ \A y \in seen : y < Content[k]
             /\ \A l \in DOMAIN s : s[l] < Content[k]
  BY <1>2, LineOrder DEF AboveSeen
<1> HIDE DEF s, t
<1>4. ASSUME NEW k \in DOMAIN t, NEW y \in seen' PROVE y < t[k]
  <2>1. \A i \in 1..n : i < n + k
    BY <1>1
  <2> QED
    BY <1>1, <1>3, <2>1
<1>5. ASSUME NEW k \in DOMAIN t, NEW l \in DOMAIN t, k < l PROVE t[k] < t[l]
  <2>1. n + k < n + l
    BY <1>1, <1>5
  <2> QED
    BY <1>1, <1>3, <2>1
<1>6. ASSUME NEW k \in DOMAIN Content,
             k > reader.pos + filled \/ reader.pos + filled > Size
      PROVE  /\ \A y \in seen' : y < Content[k]
             /\ \A l \in DOMAIN t : t[l] < Content[k]
  BY <1>1, <1>3, <1>6
<1> QED
  BY <1>4, <1>5, <1>6

LEMMA LineGap ==
  ASSUME TypeOK, GapInv, reader.inode # NoFile,
         NEW filled, NEW n, Line(filled, n)
  PROVE  GapInv'
<1>1. UNCHANGED <<files, start>> /\ filled \in 0..Len(Unread) /\ seen \subseteq seen'
  BY DEF Line
<1> SUFFICES ASSUME start # Nowhere PROVE GapInv'
  BY <1>1 DEF GapInv
<1>2. PICK s, c, b, p, z, T, from :
        /\ s = Filled(filled) /\ c = Content /\ b = Buffer
        /\ p = reader.pos /\ z = Len(b) /\ T = Len(c) /\ from = start
  OBVIOUS
<1>3. PICK t, W : t = reader'.buf /\ W = seen'
  OBVIOUS
<1>4. /\ reader'.inode = reader.inode /\ reader'.pos = p + filled
      /\ n \in Nat /\ n <= Len(s) /\ Len(t) = Len(s) - n
      /\ DOMAIN t = 1..(Len(s) - n)
      /\ \A k \in DOMAIN t : t[k] = s[n + k]
      /\ \A k \in 1..n : s[k] \in W
  BY <1>2, <1>3, LineEffect
<1>5. \A k \in DOMAIN s : s[k] = c[p - z + k]
  BY <1>1, <1>2, LinePlace
<1>6. /\ filled \in Nat /\ z \in Nat /\ T \in Nat /\ p \in Nat
      /\ Len(s) = z + filled /\ DOMAIN s = 1..Len(s)
      /\ (filled = 0 \/ p + filled <= T)
  BY <1>1, <1>2, ReadShape
<1>7. /\ p <= T /\ from + z <= p
      /\ \A k \in (from + 1)..(p - z) : c[k] \in seen
  BY <1>2 DEF GapInv
<1>8. from \in Nat /\ seen \subseteq W
  BY <1>1, <1>2, <1>3, FileTailAssumption DEF TypeOK
<1>9. PICK ls, lt : ls = Len(s) /\ lt = Len(t)
  OBVIOUS
<1>10. /\ n <= ls /\ lt = ls - n /\ ls = z + filled
       /\ \A k \in 1..ls : s[k] = c[p - z + k]
       /\ \A k \in 1..lt : t[k] = s[n + k]
  BY <1>4, <1>5, <1>6, <1>9
<1>11. /\ p \in Nat /\ z \in Nat /\ filled \in Nat /\ n \in Nat /\ from \in Nat
       /\ lt = z + filled - n /\ p + filled - lt = p - z + n /\ lt \in Nat
  BY <1>4, <1>6, <1>8, <1>10
<1>12. p + filled <= T /\ from + lt <= p + filled
  BY <1>6, <1>7, <1>11
<1>13. ASSUME NEW k \in 1..lt PROVE t[k] = c[p + filled - lt + k]
  <2>1. n + k \in 1..ls /\ p - z + (n + k) = p + filled - lt + k
    BY <1>10, <1>11
  <2> QED
    BY <1>10, <2>1
<1>14. ASSUME NEW k \in (from + 1)..(p + filled - lt) PROVE c[k] \in W
  <2>1. CASE k <= p - z
    <3>1. k \in (from + 1)..(p - z)
      BY <1>11, <2>1
    <3> QED
      BY <1>7, <1>8, <3>1
  <2>2. CASE k > p - z
    <3>1. PICK i \in 1..n : p - z + i = k
      <4>1. k - (p - z) \in 1..n /\ p - z + (k - (p - z)) = k
        BY <1>11, <2>2
      <4> QED
        BY <4>1
    <3>2. i \in 1..ls
      BY <1>10, <1>11
    <3>3. s[i] = c[k] /\ s[i] \in W
      BY <1>4, <1>10, <3>1, <3>2
    <3> QED
      BY <3>3
  <2> QED
    BY <1>11, <2>1, <2>2
<1>15. PICK inode, q : inode = reader'.inode /\ q = reader'.pos /\ q = p + filled
  BY <1>4
<1>16. /\ files'[inode] = c /\ inode # NoFile /\ start' = from
       /\ DOMAIN t = 1..lt
  BY <1>1, <1>2, <1>4, <1>9, <1>15
<1>17. q <= T /\ from + lt <= q
  BY <1>12, <1>15
<1>18. \A k \in DOMAIN t : t[k] = c[q - lt + k]
  BY <1>11, <1>13, <1>15, <1>16
<1>19. \A k \in (from + 1)..(q - lt) : c[k] \in W
  BY <1>11, <1>14, <1>15
<1> QED
  BY <1>2, <1>3, <1>9, <1>15, <1>16, <1>17, <1>18, <1>19 DEF GapInv

LEMMA ReaderSteps ==
  ASSUME TypeOK, FilesInv, FreshInv, GapInv, BufferInv, ReaderStep \/ ReadError
  PROVE  FreshInv' /\ GapInv'
<1>0. UNCHANGED world
  BY DEF ReaderStep, Open, AddWatch, ReadLine, EndOfFile, MaybeRewind,
         ReadEvents, CheckIdentity, ReadError
<1>1. CASE Open
  <2> DEFINE c == files[path]
  <2>1. /\ reader'.inode = path /\ reader'.pos = Len(c) /\ reader'.buf = <<>>
        /\ start' = Len(c) /\ files' = files /\ path \in Inodes
    BY <1>1 DEF Open, TypeOK
  <2>2. Len(c) \in Nat /\ DOMAIN c = 1..Len(c) /\ path # NoFile
    BY <2>1, FilesType
  <2> HIDE DEF c
  <2>3. \A k \in DOMAIN c : ~(k > Len(c) \/ Len(c) > Len(c))
    BY <2>2
  <2>4. FreshInv'
    BY <2>1, <2>3 DEF FreshInv, Ahead, c
  <2>5. /\ Len(c) <= Len(c) /\ Len(c) + 0 <= Len(c)
        /\ (Len(c) + 1)..(Len(c) - 0) = {}
    BY <2>2
  <2>6. GapInv'
    BY <2>1, <2>2, <2>5, EmptySeq DEF GapInv, c
  <2> QED
    BY <2>4, <2>6
<1>2. CASE Reset
  BY <1>2, Detached DEF Reset, NoReader
<1>3. ASSUME NEW label, Goto(label), UNCHANGED history
      PROVE  FreshInv' /\ GapInv'
  <2>1. /\ reader'.inode = reader.inode /\ reader'.pos = reader.pos
        /\ reader'.buf = reader.buf /\ files' = files
    BY <1>0, <1>3 DEF Goto, TypeOK, ReaderType
  <2> QED
    BY <1>3, <2>1, Steady
<1>4. CASE AddWatch
  BY <1>2, <1>3, <1>4 DEF AddWatch
<1>5. CASE ReadLine
  <2>1. PICK filled, n : Line(filled, n)
    BY <1>5, LineIsRead
  <2> QED
    BY <1>5, <2>1, LineIsRead, LineFresh, LineGap
<1>6. CASE EndOfFile
  BY <1>3, <1>6 DEF EndOfFile
<1>7. CASE MaybeRewind
  <2>1. CASE Shrunk
    <3>1. /\ reader' = [reader EXCEPT !.pc = "read", !.pos = 0]
          /\ start' = 0 /\ files' = files /\ seen' = seen
          /\ misled' = (misled \/ path # reader.inode)
          /\ reader.pc = "eof"
      BY <1>0, <1>7, <2>1 DEF MaybeRewind
    <3>2. /\ reader'.inode = reader.inode /\ reader'.pos = 0
          /\ reader'.buf = <<>> /\ reader.buf = <<>>
      BY <3>1 DEF TypeOK, ReaderType, BufferInv
    <3>3. reader.inode \in Inodes /\ reader.inode # NoFile
      BY <3>1 DEF TypeOK, ReaderType
    <3>4. /\ Size \in Nat /\ DOMAIN Content = 1..Size
      BY <3>3, FilesType
    <3>5. ~misled' => /\ ~misled
                      /\ \A k \in DOMAIN Content : AboveSeen(Content[k])
      <4>1. ~misled' => ~misled /\ reader.pos > Size
        BY <3>1, <2>1, <3>4 DEF Shrunk, TypeOK, ReaderType
      <4> QED
        BY <3>3, <4>1 DEF FreshInv, Ahead, Above
    <3>6. FreshInv'
      BY <3>1, <3>2, <3>5 DEF FreshInv, Above, AboveSeen
    <3>7. GapInv'
      <4>1. 0 <= Size /\ 0 + 0 <= 0 /\ (0 + 1)..(0 - 0) = {}
        BY <3>4
      <4> QED
        BY <3>1, <3>2, <3>3, <4>1, EmptySeq DEF GapInv
    <3> QED
      BY <3>6, <3>7
  <2>2. CASE ~Shrunk
    BY <1>3, <1>7, <2>2 DEF MaybeRewind
  <2> QED
    BY <2>1, <2>2
<1>8. CASE ReadEvents
  BY <1>2, <1>3, <1>8 DEF ReadEvents
<1>9. CASE CheckIdentity
  BY <1>2, <1>3, <1>9 DEF CheckIdentity
<1>10. CASE ReadError
  BY <1>2, <1>10 DEF ReadError
<1> QED
  BY <1>1, <1>4, <1>5, <1>6, <1>7, <1>8, <1>9, <1>10 DEF ReaderStep

LEMMA LineOnce ==
  ASSUME TypeOK, FilesInv, FreshInv, ~misled, reader.inode # NoFile,
         NEW filled, NEW n, Line(filled, n)
  PROVE  /\ again' = again
         /\ \A new \in seen' \ seen, old \in seen : old < new
<1> DEFINE s == Filled(filled)
<1>1. filled \in 0..Len(Unread) /\ n \in 1..Len(s)
  BY DEF Line
<1>2. /\ seen' = seen \cup {s[k] : k \in 1..n}
      /\ again' = again \cup ({s[k] : k \in 1..n} \cap seen)
  BY DEF Line
<1>3. \A k \in 1..n : k \in DOMAIN s
  BY LineEffect
<1>4. \A k \in DOMAIN s : AboveSeen(s[k])
  BY <1>1, LineOrder
<1>5. seen \subseteq Nat
  BY DEF TypeOK
<1> HIDE DEF s
<1>6. ASSUME NEW k \in 1..n PROVE s[k] \notin seen
  <2>1. \A x \in seen : x \in Nat /\ ~(x < x)
    BY <1>5
  <2>2. \A x \in seen : x < s[k]
    BY <1>3, <1>4 DEF AboveSeen
  <2> QED
    BY <2>1, <2>2
<1> QED
  BY <1>2, <1>3, <1>4, <1>6 DEF AboveSeen

LEMMA BufferStep ==
  ASSUME TypeOK, BufferInv, [Next]_vars
  PROVE  BufferInv'
<1>0. reader \in ReaderType
  BY DEF TypeOK
<1>1. CASE reader' = reader
  BY <1>1 DEF BufferInv
<1>2. CASE EndOfFile
  BY <1>0, <1>2 DEF ReaderType, EndOfFile, Goto, BufferInv
<1>3. CASE ReadLine
  <2>1. PICK filled, n : Line(filled, n)
    BY <1>3, LineIsRead
  <2>2. reader'.pc = "read"
    BY <1>3, <2>1, LineIsRead, LineEffect
  <2> QED
    BY <2>2 DEF BufferInv
<1>4. ASSUME NEW label, label # "eof", Goto(label) PROVE BufferInv'
  BY <1>0, <1>4 DEF ReaderType, Goto, BufferInv
<1>5. CASE Reset
  BY <1>5 DEF Reset, NoReader, BufferInv
<1>6. CASE Open
  BY <1>6 DEF Open, BufferInv
<1>7. CASE MaybeRewind
  <2>1. CASE Shrunk
    <3>1. reader' = [reader EXCEPT !.pc = "read", !.pos = 0]
      BY <1>7, <2>1 DEF MaybeRewind
    <3>2. reader'.pc = "read"
      BY <1>0, <3>1 DEF ReaderType
    <3> QED
      BY <3>2 DEF BufferInv
  <2> QED
    BY <1>4, <1>7, <2>1 DEF MaybeRewind
<1>8. CASE AddWatch \/ ReadEvents \/ CheckIdentity \/ ReadError
  BY <1>4, <1>5, <1>8 DEF AddWatch, ReadEvents, CheckIdentity, ReadError
<1>9. World \/ UNCHANGED vars => reader' = reader
  BY DEF World, Write, Truncate, Rename, Unlink, Create, Touch, ReopenLog,
         Change, vars
<1> QED
  BY <1>1, <1>2, <1>3, <1>6, <1>7, <1>8, <1>9 DEF Next, ReaderStep

LEMMA OnceStep ==
  ASSUME TypeOK, FilesInv, FreshInv, OnceInv, [Next]_vars
  PROVE  OnceInv'
<1>1. CASE ReadLine
  <2>1. PICK filled, n : Line(filled, n)
    BY <1>1, LineIsRead
  <2>2. misled' = misled
    BY <2>1 DEF Line
  <2> QED
    BY <1>1, <2>1, <2>2, LineIsRead, LineOnce DEF OnceInv
<1>2. ~ReadLine => again' = again
  BY DEF Next, World, Write, Truncate, Rename, Unlink, Create, Touch, ReopenLog,
         Change, ReaderStep, Open, AddWatch, EndOfFile, MaybeRewind,
         ReadEvents, CheckIdentity, ReadError, vars
<1>3. misled' = misled \/ (misled' = (misled \/ path # reader.inode))
  BY DEF Next, World, Write, Truncate, Rename, Unlink, Create, Touch, ReopenLog,
         Change, ReaderStep, Open, AddWatch, ReadLine, EndOfFile, MaybeRewind,
         ReadEvents, CheckIdentity, ReadError, vars
<1>4. misled => misled'
  BY <1>3 DEF TypeOK
<1> QED
  BY <1>1, <1>2, <1>4 DEF OnceInv

-----------------------------------------------------------------------------
(* The theorems.                                                           *)

LEMMA InitInv == Init => IInv
<1> SUFFICES ASSUME Init PROVE IInv
  OBVIOUS
<1>1. TypeOK
  BY TypeInit
<1>2. FilesInv
  BY EmptySeq DEF FilesInv, Init, Log!Init
<1>3. FreshInv /\ GapInv /\ BufferInv /\ OnceInv
  BY DEF FreshInv, GapInv, BufferInv, OnceInv, Init, Log!Init, NoReader
<1> QED
  BY <1>1, <1>2, <1>3 DEF IInv

LEMMA NextInv == IInv /\ [Next]_vars => IInv'
<1> SUFFICES ASSUME IInv, [Next]_vars PROVE IInv'
  OBVIOUS
<1> USE DEF IInv
<1>1. TypeOK' /\ FilesInv'
  BY TypeStep, FilesStep
<1>2. FreshInv' /\ GapInv'
  <2>1. CASE UNCHANGED vars
    BY <2>1, Steady DEF vars
  <2> QED
    BY <2>1, WorldSteps, ReaderSteps DEF Next
<1>3. BufferInv' /\ OnceInv'
  BY BufferStep, OnceStep
<1> QED
  BY <1>1, <1>2, <1>3

(* For any number of pieces and of changes: whatever the file goes         *)
(* through, what is behind the position of the reader is later than all it *)
(* has delivered and all it has buffered, and its buffer is the stretch of *)
(* the file before the position (file.rs, the loop of stream).             *)
THEOREM InductiveInvariant == Spec => []IInv
BY InitInv, NextInv, PTL DEF Spec

(* The types of the model, for any number of pieces and changes.           *)
THEOREM TypeCorrect == Spec => []TypeOK
<1>1. IInv => TypeOK
  BY DEF IInv
<1> QED
  BY <1>1, InductiveInvariant, PTL

(* No piece between the place where the reader came to the file and the    *)
(* place it has reached is left out, in any order of appending, filling    *)
(* the buffer and taking lines from it (file.rs, wait_for_reader, stream). *)
THEOREM NothingSkipped == Spec => []NoGap
<1>1. IInv => NoGap
  BY DEF IInv, GapInv, NoGap
<1> QED
  BY <1>1, InductiveInvariant, PTL

(* The tail keeps the promise of LogTail: in the order of the log and      *)
(* once, across truncations, resets and rotations, unless a rewind was     *)
(* decided on the length of another file (file.rs, maybe_rewind).          *)
THEOREM Refinement == Spec => ImplementsLogTail
<1>1. Init => Log!Init
  BY DEF Init
<1>2. IInv /\ [Next]_vars => [Log!Next]_(Log!tailVars)
  <2> SUFFICES ASSUME IInv, [Next]_vars, ~UNCHANGED Log!tailVars
               PROVE  Log!Next
    OBVIOUS
  <2>1. TypeOK /\ FilesInv /\ FreshInv /\ TypeOK'
    BY NextInv DEF IInv
  <2>2. CASE Write
    <3>1. written' > written /\ UNCHANGED <<seen, again, misled>>
      BY <2>1, <2>2 DEF Write, TypeOK
    <3> QED
      BY <3>1 DEF Log!Write, Log!Next
  <2>3. CASE ReadLine
    <3>1. PICK filled, n : Line(filled, n)
      BY <2>1, <2>3, LineIsRead
    <3>2. /\ seen \subseteq seen' /\ again \subseteq again'
          /\ written' = written /\ misled' = misled
      BY <3>1 DEF Line
    <3>3. seen' \subseteq 1..written /\ again' \subseteq 1..written
      BY <2>1, <3>2 DEF TypeOK
    <3>4. CASE misled
      BY <3>2, <3>3, <3>4 DEF Log!Redeliver, Log!Next
    <3>5. CASE ~misled
      <4>1. /\ again' = again
            /\ \A new \in seen' \ seen, old \in seen : old < new
        BY <2>1, <2>3, <3>1, <3>5, LineIsRead, LineOnce
      <4> QED
        BY <3>2, <3>3, <4>1 DEF Log!Deliver, Log!Next
    <3> QED
      BY <3>4, <3>5
  <2>4. CASE MaybeRewind
    <3>1. /\ UNCHANGED <<written, seen, again>>
          /\ misled' = misled \/ (misled' = (misled \/ path # reader.inode))
      BY <2>4 DEF MaybeRewind
    <3>2. misled' = TRUE \/ misled' = misled
      BY <2>1, <3>1 DEF TypeOK
    <3> QED
      BY <3>1, <3>2 DEF Log!Mislead, Log!Next, Log!tailVars
  <2>5. ~Write /\ ~ReadLine /\ ~MaybeRewind => UNCHANGED Log!tailVars
    BY DEF Next, World, Truncate, Rename, Unlink, Create, Touch, ReopenLog,
           Change, ReaderStep, Open, AddWatch, EndOfFile, ReadEvents,
           CheckIdentity, ReadError, vars, Log!tailVars
  <2> QED
    BY <2>2, <2>3, <2>4, <2>5
<1>3. QED
  BY <1>1, <1>2, InductiveInvariant, PTL DEF Spec, ImplementsLogTail, Log!Spec
=============================================================================
