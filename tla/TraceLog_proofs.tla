--------------------------- MODULE TraceLog_proofs ---------------------------
(* Proofs about TraceLog: for any programs, threads, forks, calls and events the *)
(* log of programs that share a file is kept as LogIsKept says.                  *)
EXTENDS TraceLog, TLAPS

\* The memory, the calls and the pieces written, as values of the variables.
Memory == [enabled : BOOLEAN, format : Format, open : BOOLEAN, cur : Seq(Nat), allowed : BOOLEAN,
           registered : BOOLEAN, lock : {"free", "main", "worker"}, shim : BOOLEAN]
Piece  == [of : Int, part : {1, 2}]
AtCall == [op : Format \cup {"none", "add", "flush", "disable"},
           pc : {"none", "body", "FileLock", "write"}, no : Nat, todo : Seq(Piece)]

TypeOK ==
  /\ life \in [Proc -> {"unborn", "running", "ending", "gone"}]
  /\ mem \in [Proc -> Memory]
  /\ DOMAIN at = Proc
  /\ \A p \in Proc : DOMAIN at[p] = Thread(p) /\ \A t \in Thread(p) : at[p][t] \in AtCall
  /\ file \in Seq([of : Int, part : {1, 2}, by : Proc])
  /\ flock \in Nat /\ desc \in [Proc -> Nat]
  /\ events \in Seq(Proc \X {"main", "worker"})
  /\ calls \in Nat /\ spoiled \subseteq Proc

\* A thread in a call holds the lock of its process.  Only an open log is written to.
OneCall(p, t) ==
  at[p][t] # Idle =>
    /\ mem[p].lock = t /\ life[p] \in {"running", "ending"}
    /\ at[p][t].op # "none" /\ at[p][t].pc # "none"
    /\ at[p][t].pc \in {"FileLock", "write"} =>
         /\ at[p][t].op # "add" /\ mem[p].open
         /\ at[p][t].op = "disable" <=> ~mem[p].enabled
         /\ at[p][t].op # "flush" => mem[p].allowed
Calling(p) == \A t \in Thread(p) : OneCall(p, t)

\* What is left of a log that has been disabled, and who may enable it.
Closing(p) == \E t \in Thread(p) : at[p][t].pc \in {"FileLock", "write"} /\ at[p][t].op = "disable"
Flags(p) ==
  /\ mem[p].enabled /\ (mem[p].shim \/ p \in Child \/ p \notin spoiled) => mem[p].open
  /\ (p \in Program /\ ~mem[p].enabled /\ ~Closing(p)) =>
       ~mem[p].open /\ ~mem[p].shim /\ (p \notin spoiled => mem[p].cur = << >>)
  /\ p \in Program => mem[p].allowed
  /\ p \in Child /\ life[p] \in {"running", "ending"} => ~mem[p].allowed
  /\ p \in Child /\ mem[p].registered => mem[p].enabled

\* What a process has recorded, and what it has in its buffer.
Buffer(p) ==
  /\ \A e \in DOMAIN events : Recorder(e) = p =>
       life[p] # "unborn" /\ (mem[p].registered \/ life[p] = "gone")
  /\ \A i \in DOMAIN mem[p].cur : mem[p].cur[i] \in DOMAIN events
  /\ \A i, j \in DOMAIN mem[p].cur : i < j => mem[p].cur[i] < mem[p].cur[j]
  /\ (mem[p].registered \/ p \in Program) =>
       \A i \in DOMAIN mem[p].cur : Recorder(mem[p].cur[i]) = p

\* A call that writes the buffer.
Writing(p, t) == at[p][t].pc = "write" /\ at[p][t].op \notin Format

\* Nothing is lost before it is in the file, and nothing is left at the end.
Present(p) == p \notin spoiled => \A e \in DOMAIN events : Recorder(e) = p =>
  InFile(e) \/ (life[p] # "gone" /\ \E i \in DOMAIN mem[p].cur : mem[p].cur[i] = e)
Covered(p) == \A t \in Thread(p) : Writing(p, t) => \A i \in DOMAIN mem[p].cur :
  \/ InFile(mem[p].cur[i])
  \/ \E k \in DOMAIN at[p][t].todo : at[p][t].todo[k] = [of |-> mem[p].cur[i], part |-> 2]
LastCall(p) == IF p \in Child THEN "flush" ELSE "disable"
AtEnd(p) == life[p] = "ending" =>
  /\ \A t \in Thread(p) : t # "main" => at[p][t] = Idle
  /\ at[p]["main"] = Idle \/ at[p]["main"].op = LastCall(p)
  /\ p \in Child => mem[p].enabled
  /\ at[p]["main"] = Idle /\ p \notin spoiled => mem[p].cur = << >>
Kept(p) == Present(p) /\ Covered(p) /\ AtEnd(p)

\* What a process writes of recorded events it has not written before.
Wrote(p, of, part) == \E j \in DOMAIN file : file[j] = [of |-> of, part |-> part, by |-> p]
NoneTwice(p) == \A i, j \in DOMAIN file :
  (i < j /\ file[j].of > 0 /\ file[j].by = p) => file[i] # file[j]
Unwritten(p) == (\A t \in Thread(p) : ~Writing(p, t)) =>
  \A i \in DOMAIN mem[p].cur, part \in {1, 2} : ~Wrote(p, mem[p].cur[i], part)
ToDo(p) == \A t \in Thread(p) : at[p][t].pc = "write" => LET todo == at[p][t].todo IN
  /\ \A k \in DOMAIN todo : todo[k].of > 0 =>
       /\ at[p][t].op \notin Format
       /\ \E i \in DOMAIN mem[p].cur : mem[p].cur[i] = todo[k].of
       /\ ~Wrote(p, todo[k].of, todo[k].part)
  /\ \A k, l \in DOMAIN todo : k < l /\ todo[k].of > 0 => todo[k] # todo[l]
Once(p) == NoneTwice(p) /\ Unwritten(p) /\ ToDo(p)

\* Whose events a process has or has written: its own, and a child those of its parent.
Sources(p) == IF p \in Child THEN {p, Forker} ELSE {p}
Own(p) ==
  /\ \A i \in DOMAIN mem[p].cur : Recorder(mem[p].cur[i]) \in Sources(p)
  /\ \A j \in DOMAIN file : file[j].by = p =>
       life[p] # "unborn" /\ (file[j].of > 0 => Recorder(file[j].of) \in Sources(p))

\* Two programs never write to one description, and each call that opens a log has a
\* number of its own.
Opens(p, t) == at[p][t].op \in Format /\ at[p][t].pc = "body"
Numbered ==
  /\ \A p \in Program : (mem[p].open <=> desc[p] # 0) /\ desc[p] <= calls
  /\ \A p, q \in Program : p # q /\ desc[p] # 0 => desc[p] # desc[q]
  /\ \A p \in Program : \A t \in Thread(p) : Opens(p, t) =>
       /\ at[p][t].no \in 1 .. calls
       /\ \A q \in Program : desc[q] # at[p][t].no
       /\ \A q \in Program : \A u \in Thread(q) :
            (p # q \/ t # u) /\ Opens(q, u) => at[q][u].no # at[p][t].no

\* The second of two pieces, counted from the end of those still to be written.
Second(todo, k) == (Len(todo) - k) % 2 = 0
Tidy(todo) == \A k \in DOMAIN todo :
  /\ todo[k].part = IF Second(todo, k) THEN 2 ELSE 1
  /\ ~Second(todo, k) => k + 1 \in DOMAIN todo /\ todo[k + 1].of = todo[k].of

\* Without forks the lock of the file belongs to the one who writes, and the file is
\* pairs of pieces, but for the piece that the writer still has to add.
Unforked == \A c \in Child : life[c] = "unborn"
Pairs ==
  /\ \A i \in DOMAIN file : file[i].part = IF i % 2 = 1 THEN 1 ELSE 2
  /\ \A i \in DOMAIN file : i % 2 = 0 => file[i].of = file[i - 1].of /\ file[i].by = file[i - 1].by
  /\ (\A p \in Proc : \A t \in Thread(p) : at[p][t].pc # "write") => Len(file) % 2 = 0
  /\ \A p \in Proc : \A t \in Thread(p) : at[p][t].pc = "write" =>
       /\ flock = desc[p] /\ desc[p] # 0
       /\ Tidy(at[p][t].todo) /\ Len(at[p][t].todo) % 2 = Len(file) % 2
       /\ Len(file) % 2 = 1 => /\ at[p][t].todo # << >> /\ file[Len(file)].by = p
                               /\ at[p][t].todo[1].of = file[Len(file)].of

ProcInv(p) == Calling(p) /\ Flags(p) /\ Buffer(p) /\ Kept(p) /\ Once(p) /\ Own(p)
FileInv == /\ \A j \in DOMAIN file : file[j].of <= Len(events)
           /\ Numbered
           /\ Unforked => Pairs
LogInv == TypeOK /\ FileInv /\ \A p \in Proc : ProcInv(p)
-------------------------------------------------------------------------------
(* Types                                                                       *)

Types == Program \cap Child = {} /\ Forker \in Program /\ Threaded \subseteq Program

LEMMA Idles == Idle \in AtCall /\ Idle.op = "none" /\ Idle.pc = "none" /\ Idle.todo = << >>
  BY DEF Idle, AtCall, Piece

LEMMA Threads == \A p \in Proc : Thread(p) \subseteq {"main", "worker"} /\ "main" \in Thread(p)
  BY DEF Thread

LEMMA Fresh == NewMem \in Memory /\ NewMem.cur = << >> /\ ~NewMem.registered /\ ~NewMem.enabled
               /\ ~NewMem.open /\ ~NewMem.shim /\ NewMem.allowed /\ NewMem.lock = "free"
  BY DEF NewMem, Memory, Format

\* The pieces of a sequence of entries are two for each.
LEMMA PiecesAre ==
  ASSUME NEW s \in Seq(Int)
  PROVE  /\ AllPieces(s) \in Seq(Piece) /\ Len(AllPieces(s)) = 2 * Len(s)
         /\ \A k \in 1 .. 2 * Len(s) :
              /\ (k + 1) \div 2 \in 1 .. Len(s)
              /\ AllPieces(s)[k] = [of |-> s[(k + 1) \div 2], part |-> 2 - (k % 2)]
<1>1. \A k \in 1 .. 2 * Len(s) : (k + 1) \div 2 \in 1 .. Len(s) /\ 2 - (k % 2) \in {1, 2}
  OBVIOUS
<1>2. \A k \in 1 .. 2 * Len(s) :
        Pieces(s[(k + 1) \div 2])[2 - (k % 2)] = [of |-> s[(k + 1) \div 2], part |-> 2 - (k % 2)]
  BY <1>1 DEF Pieces
<1>3. \A k \in 1 .. 2 * Len(s) : AllPieces(s)[k] = [of |-> s[(k + 1) \div 2], part |-> 2 - (k % 2)]
  BY <1>2 DEF AllPieces
<1>4. ASSUME NEW k \in 1 .. 2 * Len(s) PROVE AllPieces(s)[k] \in Piece
  <2>1. (k + 1) \div 2 \in 1 .. Len(s) /\ 2 - (k % 2) \in {1, 2}
    BY <1>1
  <2>2. \A i \in 1 .. Len(s) : s[i] \in Int
    OBVIOUS
  <2>3. \A a \in Int, b \in {1, 2} : [of |-> a, part |-> b] \in Piece
    BY DEF Piece
  <2> QED BY <2>1, <2>2, <2>3, <1>3
<1>5. AllPieces(s) = [k \in 1 .. 2 * Len(s) |-> AllPieces(s)[k]]
  BY DEF AllPieces
<1>6. 2 * Len(s) \in Nat
  OBVIOUS
<1>7. AllPieces(s) \in Seq(Piece) /\ Len(AllPieces(s)) = 2 * Len(s)
  <2>1. AllPieces(s) \in [1 .. 2 * Len(s) -> Piece]
    BY <1>4, <1>5
  <2> QED BY <2>1, <1>6
<1> QED BY <1>1, <1>3, <1>7

LEMMA Tails ==
  ASSUME NEW h \in {<< >>} \cup {Pieces(Footer)}
  PROVE  h \in Seq(Piece) /\ Len(h) \in {0, 2} /\ \A k \in DOMAIN h : h[k] = [of |-> Footer, part |-> k]
<1>1. Pieces(Footer) = <<[of |-> Footer, part |-> 1], [of |-> Footer, part |-> 2]>>
  BY DEF Pieces
<1>2. \A k \in {1, 2} : [of |-> Footer, part |-> k] \in Piece
  BY DEF Footer, Piece
<1>3. CASE h = << >>
  BY <1>3
<1>4. CASE h = Pieces(Footer)
  <2>1. Len(h) = 2 /\ DOMAIN h = {1, 2} /\ h[1] = [of |-> Footer, part |-> 1] /\ h[2] = [of |-> Footer, part |-> 2]
    BY <1>1, <1>4
  <2>2. h \in Seq(Piece)
    BY <1>1, <1>2, <1>4
  <2> QED BY <2>1, <2>2
<1> QED BY <1>3, <1>4

\* The pieces w of a sequence s of n entries, with those of a footer after them.
Twice(w, s) == LET n == Len(s) IN
  /\ Len(w) \in {2 * n, 2 * n + 2}
  /\ \A k \in DOMAIN w : k <= 2 * n => /\ (k + 1) \div 2 \in 1 .. n
                                      /\ w[k].of = s[(k + 1) \div 2] /\ w[k].part = 2 - (k % 2)
  /\ \A k \in DOMAIN w : k > 2 * n => w[k].of = -1 /\ w[k].part = k - 2 * n

\* What such pieces are good for.
Laid(w, s, last) ==
  /\ Len(w) % 2 = 0 /\ Tidy(w)
  /\ \A k \in DOMAIN w : w[k].of > 0 => ~last /\ \E i \in DOMAIN s : s[i] = w[k].of
  /\ ~last => \A i \in DOMAIN s : \E k \in DOMAIN w : w[k] = [of |-> s[i], part |-> 2]
  /\ (\A i, j \in DOMAIN s : i < j => s[i] < s[j]) =>
       \A k, l \in DOMAIN w : k < l /\ w[k].of > 0 => w[k] # w[l]

LEMMA Even ==
  \A n, k \in Nat :
    /\ (2 * n) % 2 = 0 /\ (2 * n + 2) % 2 = 0 /\ (2 * n + 1) % 2 = 1
    /\ (2 * n - k) % 2 = k % 2 /\ (2 * n + 2 - k) % 2 = k % 2 /\ k % 2 \in {0, 1}
    /\ (k % 2 = 1) => ((k + 2) \div 2 = (k + 1) \div 2)
    /\ (k % 2 = 1 /\ k <= 2 * n) => (k + 1 <= 2 * n)
    /\ (2 * n + 1) \div 2 = n
  OBVIOUS

\* The pieces w of a sequence s of n entries, with e more pieces of a footer.
LEMMA PiecesLast ==
  ASSUME NEW s \in Seq(Nat), NEW w \in Seq(Piece), Twice(w, s)
  PROVE  Laid(w, s, FALSE)
<1> DEFINE n == Len(s)
           e == Len(w) - 2 * n
<1>0. n \in Nat /\ Len(w) \in Nat /\ Len(w) = 2 * n + e /\ e \in {0, 2} /\ Len(s) = n
  BY DEF Twice
<1> HIDE DEF e
<1>1. /\ DOMAIN w = 1 .. (2 * n + e) /\ DOMAIN s = 1 .. n /\ 2 * n \in Nat /\ e \in Nat
      /\ DOMAIN w \subseteq Nat /\ \A i \in 1 .. n : s[i] \in Nat
  BY <1>0
<1>2. \A k \in DOMAIN w : k <= 2 * n =>
        /\ (k + 1) \div 2 \in 1 .. n /\ w[k].of = s[(k + 1) \div 2] /\ w[k].part = 2 - (k % 2)
  BY <1>0 DEF Twice
<1>3. \A k \in DOMAIN w : k > 2 * n => w[k].of = -1 /\ w[k].part = k - 2 * n
  BY <1>0 DEF Twice
<1> HIDE DEF n
<1>4. \A k \in DOMAIN w : k > 2 * n => e = 2 /\ k \in {2 * n + 1, 2 * n + 2}
  BY <1>0, <1>1
<1>5. Len(w) % 2 = 0 /\ \A k \in DOMAIN w : (Len(w) - k) % 2 = k % 2 /\ k % 2 \in {0, 1}
  <2>1. \A k \in Nat : (Len(w) - k) % 2 = k % 2 /\ k % 2 \in {0, 1}
    <3>1. CASE e = 0
      <4>1. Len(w) = 2 * n
        BY <3>1, <1>0, <1>1
      <4> QED BY <4>1, <1>0, Even
    <3>2. CASE e = 2
      <4>1. Len(w) = 2 * n + 2
        BY <3>2, <1>0
      <4> QED BY <4>1, <1>0, Even
    <3> QED BY <3>1, <3>2, <1>0
  <2>2. Len(w) % 2 = 0
    BY <1>0, <1>1, Even
  <2> QED BY <1>1, <2>1, <2>2
<1>6. Tidy(w)
  <2>1. ASSUME NEW k \in DOMAIN w
        PROVE  w[k].part = IF (Len(w) - k) % 2 = 0 THEN 2 ELSE 1
    <3>1. CASE k <= 2 * n
      BY <3>1, <1>2, <1>5
    <3>2. CASE k > 2 * n
      <4>1. k = 2 * n + 1 \/ k = 2 * n + 2
        BY <3>2, <1>4
      <4>2. (2 * n + 1) % 2 = 1 /\ (2 * n + 2) % 2 = 0 /\ 2 * n + 1 - 2 * n = 1 /\ 2 * n + 2 - 2 * n = 2
        BY <1>0, Even
      <4>3. w[k].part = k - 2 * n
        BY <3>2, <1>3
      <4>4. CASE k = 2 * n + 1
        <5>1. k % 2 = 1
          BY ONLY <4>2, <4>4
        <5>2. w[k].part = 1
          <6>1. k - 2 * n = 1
            BY <1>0, <4>4
          <6> QED BY ONLY <6>1, <4>3
        <5>3. (Len(w) - k) % 2 = k % 2
          BY <1>5
        <5> QED BY ONLY <5>1, <5>2, <5>3
      <4>5. CASE k = 2 * n + 2
        <5>1. k % 2 = 0
          BY ONLY <4>2, <4>5
        <5>2. w[k].part = 2
          <6>1. k - 2 * n = 2
            BY <1>0, <4>5
          <6> QED BY ONLY <6>1, <4>3
        <5>3. (Len(w) - k) % 2 = k % 2
          BY <1>5
        <5> QED BY ONLY <5>1, <5>2, <5>3
      <4> QED BY <4>1, <4>4, <4>5
    <3> QED BY <3>1, <3>2, <1>1
  <2>2. ASSUME NEW k \in DOMAIN w, (Len(w) - k) % 2 # 0
        PROVE  k + 1 \in DOMAIN w /\ w[k + 1].of = w[k].of
    <3>0. k \in Nat /\ k % 2 = 1
      BY <2>2, <1>1, <1>5
    <3>1. CASE k <= 2 * n
      <4>1. k + 1 <= 2 * n /\ (k + 2) \div 2 = (k + 1) \div 2
        <5>1. \A x \in Nat : x % 2 = 1 => (x + 2) \div 2 = (x + 1) \div 2
          BY <1>0, Even
        <5>2. \A x, y \in Nat : x % 2 = 1 /\ x <= 2 * y => x + 1 <= 2 * y
          BY <1>0, Even
        <5> QED BY <1>0, <3>0, <3>1, <5>1, <5>2
      <4>2. k + 1 \in DOMAIN w
        BY <4>1, <3>0, <1>1
      <4>3. w[k + 1].of = s[(k + 2) \div 2]
        <5>1. k + 1 + 1 = k + 2
          BY <3>0
        <5> QED BY <4>1, <4>2, <5>1, <1>2
      <4>4. w[k].of = s[(k + 1) \div 2]
        BY <3>1, <1>2
      <4> QED BY <4>1, <4>2, <4>3, <4>4
    <3>2. CASE k > 2 * n
      <4>1. k = 2 * n + 1 /\ e = 2
        BY <1>0, <3>0, <3>2, <1>4, Even
      <4>2. k + 1 \in DOMAIN w /\ k + 1 > 2 * n
        BY <4>1, <1>1
      <4> QED BY <3>2, <4>2, <1>3
    <3> QED BY <3>0, <3>1, <3>2, <1>1
  <2> QED BY <2>1, <2>2 DEF Tidy, Second
<1>7. ASSUME NEW k \in DOMAIN w, w[k].of > 0
      PROVE  k <= 2 * n /\ \E i \in DOMAIN s : s[i] = w[k].of
  <2>1. k <= 2 * n
    BY <1>7, <1>1, <1>3
  <2> QED BY <2>1, <1>1, <1>2
<1>8. ASSUME NEW i \in DOMAIN s
      PROVE  \E k \in DOMAIN w : w[k] = [of |-> s[i], part |-> 2]
  <2>1. i \in Nat /\ 2 * i \in Nat /\ 2 * i \in DOMAIN w /\ 2 * i <= 2 * n
    BY <1>0, <1>1
  <2>2. (2 * i + 1) \div 2 = i /\ (2 * i) % 2 = 0
    BY <1>0, <2>1, Even
  <2> DEFINE k == 2 * i
  <2>3. k \in Nat /\ k \in DOMAIN w /\ k <= 2 * n /\ (k + 1) \div 2 = i
    BY ONLY <2>1, <2>2
  <2>9. 2 - (k % 2) = 2
    <3>1. 2 - 0 = 2
      OBVIOUS
    <3> QED BY <3>1, <2>2
  <2> HIDE DEF k
  <2>4. w[k].of = s[i] /\ w[k].part = 2
    BY <2>3, <2>9, <1>2
  <2>5. w[k] \in Piece
    BY <2>3
  <2> QED BY <2>3, <2>4, <2>5 DEF Piece
<1>9. ASSUME \A i, j \in DOMAIN s : i < j => s[i] < s[j],
             NEW k \in DOMAIN w, NEW l \in DOMAIN w, k < l, w[k].of > 0, w[k] = w[l]
      PROVE  FALSE
  <2>1. k <= 2 * n /\ l <= 2 * n /\ k \in Nat /\ l \in Nat
    BY <1>9, <1>7, <1>1
  <2> DEFINE a == (k + 1) \div 2
             b == (l + 1) \div 2
  <2>2. a \in DOMAIN s /\ b \in DOMAIN s /\ w[k].of = s[a] /\ w[l].of = s[b]
    BY <2>1, <1>1, <1>2
  <2>3. k % 2 = l % 2
    <3>1. w[k].part = 2 - (k % 2) /\ w[l].part = 2 - (l % 2)
      BY <2>1, <1>2
    <3> QED BY <3>1, <1>5, <1>9
  <2>4. a < b
    <3>1. \A x, y \in Nat : x < y /\ x % 2 = y % 2 => (x + 1) \div 2 < (y + 1) \div 2
      OBVIOUS
    <3> QED BY <3>1, <2>1, <2>3, <1>9
  <2> HIDE DEF a, b
  <2>5. s[a] < s[b] /\ s[a] = s[b] /\ s[a] \in Nat
    BY <2>2, <2>4, <1>1, <1>9
  <2> QED BY <2>5
<1> QED BY <1>5, <1>6, <1>7, <1>8, <1>9 DEF Laid

\* What is written: the pieces of the buffer and a footer, or a header.
LEMMA Writes ==
  ASSUME NEW m \in Memory, NEW op
  PROVE  ToWrite(m, op) \in Seq(Piece) /\ Laid(ToWrite(m, op), m.cur, op \in Format)
<1> DEFINE w == ToWrite(m, op)
<1>1. CASE op \in Format
  <2>1. w = << >> \/ w = <<[of |-> 0, part |-> 1], [of |-> 0, part |-> 2]>>
    BY <1>1 DEF ToWrite, Pieces, Header
  <2>2. CASE w = << >>
    BY <2>2, <1>1 DEF Tidy, Laid
  <2>3. CASE w = <<[of |-> 0, part |-> 1], [of |-> 0, part |-> 2]>>
    <3>1. /\ w \in Seq(Piece) /\ Len(w) = 2 /\ DOMAIN w = {1, 2}
          /\ w[1] = [of |-> 0, part |-> 1] /\ w[2] = [of |-> 0, part |-> 2]
      BY <2>3 DEF Piece
    <3>2. Tidy(w)
      BY <3>1 DEF Tidy, Second
    <3> QED BY <3>1, <3>2, <1>1 DEF Laid
  <2> QED BY <2>1, <2>2, <2>3
<1>2. CASE op \notin Format
  <2> DEFINE h == IF op = "disable" /\ m.format = "json_with_metadata" THEN Pieces(Footer) ELSE << >>
             a == AllPieces(m.cur)
             n == Len(m.cur)
  <2>1. w = a \o h
    BY <1>2 DEF ToWrite
  <2>2. m.cur \in Seq(Nat) /\ m.cur \in Seq(Int) /\ n \in Nat /\ DOMAIN m.cur = 1 .. n
    BY DEF Memory
  <2>3. /\ a \in Seq(Piece) /\ Len(a) = 2 * n
        /\ \A k \in 1 .. 2 * n : /\ (k + 1) \div 2 \in 1 .. n
                                 /\ a[k] = [of |-> m.cur[(k + 1) \div 2], part |-> 2 - (k % 2)]
    BY <2>2, PiecesAre
  <2>4. h \in Seq(Piece) /\ Len(h) \in {0, 2} /\ \A k \in DOMAIN h : h[k] = [of |-> -1, part |-> k]
    BY Tails DEF Footer
  <2> HIDE DEF h, a, n
  <2>5. /\ w \in Seq(Piece) /\ Len(w) = 2 * n + Len(h)
        /\ DOMAIN w = 1 .. (2 * n + Len(h))
        /\ \A k \in 1 .. 2 * n : w[k] = a[k]
        /\ \A k \in DOMAIN w : k > 2 * n => k - 2 * n \in DOMAIN h /\ w[k] = h[k - 2 * n]
    BY <2>1, <2>2, <2>3, <2>4
  <2> HIDE DEF w
  <2>6. Twice(w, m.cur)
    <3>1. ASSUME NEW k \in DOMAIN w, k <= 2 * n
          PROVE  /\ (k + 1) \div 2 \in 1 .. n
                 /\ w[k].of = m.cur[(k + 1) \div 2] /\ w[k].part = 2 - (k % 2)
      <4>1. k \in 1 .. 2 * n
        BY <3>1, <2>2, <2>5
      <4> QED BY <4>1, <2>3, <2>5
    <3>2. ASSUME NEW k \in DOMAIN w, k > 2 * n
          PROVE  w[k].of = -1 /\ w[k].part = k - 2 * n
      BY <3>2, <2>4, <2>5
    <3>3. Len(w) \in {2 * n, 2 * n + 2}
      <4>1. Len(h) = 0 \/ Len(h) = 2
        BY <2>4
      <4>2. Len(w) = 2 * n + Len(h) /\ 2 * n + 0 = 2 * n
        BY <2>2, <2>5
      <4> QED BY <4>1, <4>2
    <3> QED BY <3>1, <3>2, <3>3 DEF Twice, n
  <2>7. Laid(w, m.cur, FALSE)
    <3>1. w \in Seq(Piece) /\ m.cur \in Seq(Nat) /\ Twice(w, m.cur)
      BY <2>2, <2>5, <2>6
    <3> QED BY ONLY <3>1, PiecesLast
  <2> QED BY <1>2, <2>5, <2>7 DEF w, Laid
<1> QED BY <1>1, <1>2
-------------------------------------------------------------------------------
(* The steps: what each does to its process, and that the types are kept        *)

\* A step of thread t of p puts x in the place of its call.
Calls1(p, t, x) ==
  /\ at'[p][t] = x
  /\ \A u \in Thread(p) : u # t => at'[p][u] = at[p][u]
  /\ \A q \in Proc : q # p => at'[q] = at[q]

AtTypes == DOMAIN at = Proc
           /\ \A p \in Proc : DOMAIN at[p] = Thread(p) /\ \A t \in Thread(p) : at[p][t] \in AtCall

LEMMA AtSteps ==
  ASSUME AtTypes, NEW p \in Proc, NEW t \in Thread(p), NEW x \in AtCall,
         at' = [at EXCEPT ![p] = [at[p] EXCEPT ![t] = x]]
  PROVE  AtTypes' /\ Calls1(p, t, x)
<1>1. DOMAIN at' = Proc /\ \A q \in Proc : q # p => at'[q] = at[q]
  BY DEF AtTypes
<1>2. at'[p] = [at[p] EXCEPT ![t] = x]
  BY DEF AtTypes
<1>3. /\ DOMAIN at'[p] = Thread(p) /\ at'[p][t] = x
      /\ \A u \in Thread(p) : u # t => at'[p][u] = at[p][u]
  BY <1>2 DEF AtTypes
<1> QED BY <1>1, <1>3 DEF AtTypes, Calls1

\* The four ways a step changes a call.
LEMMA AtForms ==
  ASSUME AtTypes, NEW p \in Proc, NEW t \in Thread(p)
  PROVE  /\ \A x : [at EXCEPT ![p][t] = x] = [at EXCEPT ![p] = [at[p] EXCEPT ![t] = x]]
         /\ \A s : [at EXCEPT ![p][t].pc = s]
                     = [at EXCEPT ![p] = [at[p] EXCEPT ![t] = [at[p][t] EXCEPT !.pc = s]]]
         /\ [at EXCEPT ![p][t].todo = Tail(@)]
              = [at EXCEPT ![p] = [at[p] EXCEPT ![t] = [at[p][t] EXCEPT !.todo = Tail(at[p][t].todo)]]]
         /\ \A w : [at EXCEPT ![p][t].pc = "write", ![p][t].todo = w]
                     = [at EXCEPT ![p] = [at[p] EXCEPT ![t] = [at[p][t] EXCEPT !.pc = "write", !.todo = w]]]
  BY DEF AtTypes, AtCall

\* The memory of p becomes m.
Mem1(p, m) == mem'[p] = m /\ \A q \in Proc : q # p => mem'[q] = mem[q]

LEMMA MemSteps ==
  ASSUME TypeOK, NEW p \in Proc, NEW m \in Memory, mem' = [mem EXCEPT ![p] = m]
  PROVE  mem' \in [Proc -> Memory] /\ Mem1(p, m)
BY DEF TypeOK, Mem1

LEMMA Mems ==
  ASSUME NEW m \in Memory
  PROVE  /\ Released(m) \in Memory /\ Released(m) = [m EXCEPT !.lock = "free"]
         /\ m.cur \in Seq(Nat)
         /\ \A s \in Seq(Nat) : [m EXCEPT !.cur = s] \in Memory
         /\ \A b \in BOOLEAN : /\ [m EXCEPT !.enabled = b] \in Memory /\ [m EXCEPT !.open = b] \in Memory
                               /\ [m EXCEPT !.shim = b] \in Memory /\ [m EXCEPT !.registered = b] \in Memory
                               /\ [m EXCEPT !.allowed = b] \in Memory
         /\ \A f \in Format : [m EXCEPT !.format = f] \in Memory
         /\ \A t \in {"main", "worker"} : [m EXCEPT !.lock = t] \in Memory
BY DEF Memory, Released

\* The values of a call.
Ops == Format \cup {"add", "flush", "disable"}
NewCall(o, no) == [op |-> o, pc |-> "body", no |-> no, todo |-> << >>]
LEMMA CallValues ==
  /\ \A o \in Ops, no \in Nat : NewCall(o, no) \in AtCall
  /\ \A x \in AtCall, s \in {"FileLock", "write"} : [x EXCEPT !.pc = s] \in AtCall
  /\ \A x \in AtCall, w \in Seq(Piece) : [x EXCEPT !.pc = "write", !.todo = w] \in AtCall
  /\ \A x \in AtCall, w \in Seq(Piece) : [x EXCEPT !.todo = w] \in AtCall
<1>1. \A o \in Ops, no \in Nat : NewCall(o, no) \in AtCall
  <2>1. << >> \in Seq(Piece)
    OBVIOUS
  <2> QED BY <2>1 DEF Ops, NewCall, AtCall
<1>2. \A x \in AtCall, s \in {"FileLock", "write"} : [x EXCEPT !.pc = s] \in AtCall
  BY DEF AtCall
<1>3. \A x \in AtCall, w \in Seq(Piece) : [x EXCEPT !.pc = "write", !.todo = w] \in AtCall
  BY DEF AtCall
<1>4. \A x \in AtCall, w \in Seq(Piece) : [x EXCEPT !.todo = w] \in AtCall
  BY DEF AtCall
<1> QED BY <1>1, <1>2, <1>3, <1>4

\* What a step of p leaves alone in the other processes.
Alone(p) == \A q \in Proc : q # p =>
  /\ life'[q] = life[q] /\ mem'[q] = mem[q] /\ at'[q] = at[q] /\ desc'[q] = desc[q]
  /\ (q \in spoiled') = (q \in spoiled)

LEMMA LockedStep ==
  ASSUME TypeOK, NEW p \in Proc, NEW t \in Thread(p), NEW op \in Ops, NEW no \in Nat,
         _locked(p, t, op, no)
  PROVE  /\ mem' \in [Proc -> Memory] /\ AtTypes'
         /\ mem[p].lock = "free" /\ Mem1(p, [mem[p] EXCEPT !.lock = t]) /\ Calls1(p, t, NewCall(op, no))
<1>1. t \in {"main", "worker"} /\ mem[p] \in Memory /\ AtTypes
  BY Threads DEF TypeOK, AtTypes
<1>2. mem' = [mem EXCEPT ![p] = [mem[p] EXCEPT !.lock = t]]
  BY DEF _locked, TypeOK
<1>3. at' = [at EXCEPT ![p] = [at[p] EXCEPT ![t] = NewCall(op, no)]]
  BY <1>1, AtForms DEF _locked, NewCall
<1>4. [mem[p] EXCEPT !.lock = t] \in Memory
  BY <1>1, Mems
<1>5. AtTypes' /\ Calls1(p, t, NewCall(op, no))
  BY <1>1, <1>3, AtSteps, CallValues
<1>6. mem' \in [Proc -> Memory] /\ Mem1(p, [mem[p] EXCEPT !.lock = t])
  BY <1>2, <1>4, MemSteps
<1> QED BY <1>5, <1>6 DEF _locked

LEMMA CallStep ==
  ASSUME TypeOK, NEW p \in Proc, NEW t \in Thread(p), Calls(p, t)
  PROVE  /\ TypeOK' /\ UNCHANGED <<life, file, flock, desc, events, spoiled>>
         /\ life[p] = "running" /\ at[p][t] = Idle /\ mem[p].lock = "free"
         /\ Mem1(p, [mem[p] EXCEPT !.lock = t])
         /\ \E op \in Ops, no \in Nat :
              /\ Calls1(p, t, NewCall(op, no))
              /\ op \in Format => no = calls + 1 /\ calls' = calls + 1
         /\ calls' \in {calls, calls + 1}
<1>1. PICK op \in Ops : Call(p, t, op) /\ calls' \in {calls, calls + 1} /\ (op \in Format => calls' = calls + 1)
  BY DEF Calls, Ops, Format
<1> DEFINE no == IF op \in Format THEN calls + 1 ELSE 0
<1>2. no \in Nat /\ calls' \in Nat
  BY <1>1 DEF TypeOK
<1>3. _locked(p, t, op, no) /\ UNCHANGED <<life, file, flock, desc, events, spoiled>>
      /\ life[p] = "running" /\ at[p][t] = Idle
  BY <1>1 DEF Call
<1>4. /\ mem' \in [Proc -> Memory] /\ AtTypes' /\ mem[p].lock = "free"
      /\ Mem1(p, [mem[p] EXCEPT !.lock = t]) /\ Calls1(p, t, NewCall(op, no))
  <2> HIDE DEF no
  <2> QED BY <1>2, <1>3, LockedStep
<1>5. TypeOK'
  BY <1>2, <1>3, <1>4 DEF TypeOK, AtTypes
<1> QED BY <1>1, <1>2, <1>3, <1>4, <1>5

LEMMA AddStep ==
  ASSUME TypeOK, NEW p \in Proc, NEW t \in Thread(p), add_trace_event(p, t)
  PROVE  /\ TypeOK' /\ UNCHANGED <<life, file, flock, desc, calls, spoiled>>
         /\ at[p][t].op = "add" /\ at[p][t].pc = "body" /\ Calls1(p, t, Idle)
         /\ \/ events' = events /\ Mem1(p, Released(mem[p]))
            \/ /\ events' = Append(events, <<p, t>>) /\ mem[p].enabled
               /\ \E s : /\ s = IF mem[p].registered THEN mem[p].cur ELSE << >>
                        /\ Mem1(p, [Released(mem[p]) EXCEPT !.registered = TRUE,
                                      !.cur = Append(s, Len(events) + 1)])
<1>1. mem[p] \in Memory /\ AtTypes /\ t \in {"main", "worker"}
  BY Threads DEF TypeOK, AtTypes
<1>2. at' = [at EXCEPT ![p] = [at[p] EXCEPT ![t] = Idle]]
  BY <1>1, AtForms DEF add_trace_event, Leave
<1>3. AtTypes' /\ Calls1(p, t, Idle)
  BY <1>1, <1>2, AtSteps, Idles
<1> DEFINE s == IF mem[p].registered THEN mem[p].cur ELSE << >>
           m == [Released(mem[p]) EXCEPT !.registered = TRUE, !.cur = Append(s, Len(events) + 1)]
<1>4. s \in Seq(Nat) /\ Append(s, Len(events) + 1) \in Seq(Nat)
  <2>1. s \in Seq(Nat)
    <3>1. mem[p].cur \in Seq(Nat)
      BY <1>1, Mems
    <3>2. << >> \in Seq(Nat)
      OBVIOUS
    <3> QED BY <3>1, <3>2
  <2>2. Len(events) + 1 \in Nat
    BY DEF TypeOK
  <2> QED BY <2>1, <2>2
<1>5. m \in Memory
  <2> HIDE DEF s
  <2> QED BY <1>1, <1>4 DEF Memory, Released
<1>6. CASE events' = events /\ mem' = [mem EXCEPT ![p] = Released(mem[p])]
  <2>1. mem' \in [Proc -> Memory] /\ Mem1(p, Released(mem[p]))
    BY <1>1, <1>6, Mems, MemSteps
  <2> QED BY <1>3, <1>6, <2>1 DEF add_trace_event, Here, TypeOK, AtTypes
<1>7. CASE events' = Append(events, <<p, t>>) /\ mem' = [mem EXCEPT ![p] = m] /\ mem[p].enabled
  <2>1. mem' \in [Proc -> Memory] /\ Mem1(p, m)
    BY <1>5, <1>7, MemSteps
  <2>2. events' \in Seq(Proc \X {"main", "worker"})
    BY <1>1, <1>7 DEF TypeOK
  <2> QED BY <1>3, <1>7, <2>1, <2>2 DEF add_trace_event, Here, TypeOK, AtTypes
<1>8. <1>6!1 \/ <1>7!1
  BY DEF add_trace_event, Inherited
<1> QED BY <1>6, <1>7, <1>8

LEMMA EnableStep ==
  ASSUME TypeOK, NEW p \in Proc, NEW t \in Thread(p), _trace_enable(p, t)
  PROVE  /\ TypeOK' /\ UNCHANGED <<life, file, flock, events, calls>>
         /\ at[p][t].op \in Format /\ at[p][t].pc = "body"
         /\ \E m \in Memory : /\ m = [mem[p] EXCEPT !.format = at[p][t].op]
              /\ \/ /\ mem[p].enabled \/ ~mem[p].allowed
                    /\ Mem1(p, Released(m)) /\ Calls1(p, t, Idle) /\ UNCHANGED <<desc, spoiled>>
                 \/ /\ ~mem[p].enabled /\ mem[p].allowed
                    /\ Mem1(p, [Released(m) EXCEPT !.enabled = TRUE]) /\ Calls1(p, t, Idle)
                    /\ spoiled' = spoiled \cup {p} /\ UNCHANGED desc
                 \/ /\ ~mem[p].enabled /\ mem[p].allowed
                    /\ Mem1(p, [m EXCEPT !.enabled = TRUE, !.open = TRUE])
                    /\ Calls1(p, t, [at[p][t] EXCEPT !.pc = "FileLock"])
                    /\ desc' = [desc EXCEPT ![p] = at[p][t].no] /\ UNCHANGED spoiled
<1> DEFINE m == [mem[p] EXCEPT !.format = at[p][t].op]
<1>1. mem[p] \in Memory /\ AtTypes /\ at[p][t] \in AtCall /\ at[p][t].op \in Format
      /\ at[p][t].pc = "body" /\ at[p][t].no \in Nat
  BY DEF TypeOK, AtTypes, AtCall, _trace_enable
<1>2. /\ m \in Memory /\ m.enabled = mem[p].enabled /\ m.allowed = mem[p].allowed
      /\ Released(m) \in Memory /\ [Released(m) EXCEPT !.enabled = TRUE] \in Memory
      /\ [m EXCEPT !.enabled = TRUE, !.open = TRUE] \in Memory
  BY <1>1 DEF Memory, Released
<1>3. UNCHANGED <<life, file, flock, events, calls>>
  BY DEF _trace_enable
<1>4. ASSUME NEW n \in Memory, mem' = [mem EXCEPT ![p] = n]
      PROVE  mem' \in [Proc -> Memory] /\ Mem1(p, n)
  BY <1>4, MemSteps
<1>5. Leave(p, t) => AtTypes' /\ Calls1(p, t, Idle)
  BY <1>1, AtForms, AtSteps, Idles DEF Leave
<1>6. Go(p, t, "FileLock") => AtTypes' /\ Calls1(p, t, [at[p][t] EXCEPT !.pc = "FileLock"])
  BY <1>1, AtForms, AtSteps, CallValues DEF Go
<1>7. \/ /\ mem[p].enabled \/ ~mem[p].allowed
         /\ mem' = [mem EXCEPT ![p] = Released(m)] /\ Leave(p, t) /\ UNCHANGED <<desc, spoiled>>
      \/ /\ ~mem[p].enabled /\ mem[p].allowed
         /\ mem' = [mem EXCEPT ![p] = [Released(m) EXCEPT !.enabled = TRUE]]
         /\ Leave(p, t) /\ spoiled' = spoiled \cup {p} /\ UNCHANGED desc
      \/ /\ ~mem[p].enabled /\ mem[p].allowed
         /\ mem' = [mem EXCEPT ![p] = [m EXCEPT !.enabled = TRUE, !.open = TRUE]]
         /\ desc' = [desc EXCEPT ![p] = at[p][t].no] /\ Go(p, t, "FileLock") /\ UNCHANGED spoiled
  <2> HIDE DEF m
  <2> QED BY <1>2 DEF _trace_enable, m
<1> HIDE DEF m
<1>8. mem' \in [Proc -> Memory] /\ AtTypes' /\ desc' \in [Proc -> Nat] /\ spoiled' \subseteq Proc
  <2>1. desc \in [Proc -> Nat] /\ spoiled \subseteq Proc
    BY DEF TypeOK
  <2> QED BY <1>1, <1>2, <1>4, <1>5, <1>6, <1>7, <2>1
<1>9. TypeOK'
  BY <1>3, <1>8 DEF TypeOK, AtTypes
<1>10. \/ /\ mem[p].enabled \/ ~mem[p].allowed
          /\ Mem1(p, Released(m)) /\ Calls1(p, t, Idle) /\ UNCHANGED <<desc, spoiled>>
       \/ /\ ~mem[p].enabled /\ mem[p].allowed
          /\ Mem1(p, [Released(m) EXCEPT !.enabled = TRUE]) /\ Calls1(p, t, Idle)
          /\ spoiled' = spoiled \cup {p} /\ UNCHANGED desc
       \/ /\ ~mem[p].enabled /\ mem[p].allowed
          /\ Mem1(p, [m EXCEPT !.enabled = TRUE, !.open = TRUE])
          /\ Calls1(p, t, [at[p][t] EXCEPT !.pc = "FileLock"])
          /\ desc' = [desc EXCEPT ![p] = at[p][t].no] /\ UNCHANGED spoiled
  BY <1>2, <1>4, <1>5, <1>6, <1>7
<1>11. m = [mem[p] EXCEPT !.format = at[p][t].op]
  BY DEF m
<1> QED BY <1>1, <1>2, <1>3, <1>9, <1>10, <1>11

LEMMA FlushStep ==
  ASSUME TypeOK, NEW p \in Proc, NEW t \in Thread(p), Flushes(p, t)
  PROVE  /\ TypeOK' /\ UNCHANGED <<life, file, flock, desc, events, calls, spoiled>>
         /\ at[p][t].op \in {"flush", "disable"} /\ at[p][t].pc = "body"
         /\ \E m \in Memory :
              /\ m = IF at[p][t].op = "disable" THEN [mem[p] EXCEPT !.enabled = FALSE] ELSE mem[p]
              /\ \/ /\ ~mem[p].enabled \/ (at[p][t].op = "disable" /\ ~mem[p].allowed)
                    /\ Mem1(p, Released(mem[p])) /\ Calls1(p, t, Idle)
                 \/ /\ mem[p].enabled /\ ~mem[p].open
                    /\ Mem1(p, Released(m)) /\ Calls1(p, t, Idle)
                 \/ /\ mem[p].enabled /\ (at[p][t].op = "disable" => mem[p].allowed) /\ mem[p].open
                    /\ Mem1(p, m) /\ Calls1(p, t, [at[p][t] EXCEPT !.pc = "FileLock"])
<1> DEFINE m == IF at[p][t].op = "disable" THEN [mem[p] EXCEPT !.enabled = FALSE] ELSE mem[p]
<1>1. mem[p] \in Memory /\ AtTypes /\ at[p][t] \in AtCall /\ at[p][t].op \in {"flush", "disable"}
      /\ at[p][t].pc = "body"
  BY DEF TypeOK, AtTypes, AtCall, Flushes
<1>2. m \in Memory /\ Released(m) \in Memory /\ Released(mem[p]) \in Memory
  <2>1. m \in Memory
    BY <1>1, Mems
  <2> HIDE DEF m
  <2> QED BY <1>1, <2>1, Mems
<1>3. UNCHANGED <<life, file, flock, desc, events, calls, spoiled>>
  BY DEF Flushes
<1>4. ASSUME NEW n \in Memory, mem' = [mem EXCEPT ![p] = n]
      PROVE  mem' \in [Proc -> Memory] /\ Mem1(p, n)
  BY <1>4, MemSteps
<1>5. Leave(p, t) => AtTypes' /\ Calls1(p, t, Idle)
  BY <1>1, AtForms, AtSteps, Idles DEF Leave
<1>6. Go(p, t, "FileLock") => AtTypes' /\ Calls1(p, t, [at[p][t] EXCEPT !.pc = "FileLock"])
  BY <1>1, AtForms, AtSteps, CallValues DEF Go
<1>7. \/ /\ ~mem[p].enabled \/ (at[p][t].op = "disable" /\ ~mem[p].allowed)
         /\ mem' = [mem EXCEPT ![p] = Released(mem[p])] /\ Leave(p, t)
      \/ /\ mem[p].enabled /\ ~mem[p].open
         /\ mem' = [mem EXCEPT ![p] = Released(m)] /\ Leave(p, t)
      \/ /\ mem[p].enabled /\ (at[p][t].op = "disable" => mem[p].allowed) /\ mem[p].open
         /\ mem' = [mem EXCEPT ![p] = m] /\ Go(p, t, "FileLock")
  BY DEF Flushes
<1>8. m = IF at[p][t].op = "disable" THEN [mem[p] EXCEPT !.enabled = FALSE] ELSE mem[p]
  OBVIOUS
<1> HIDE DEF m
<1>9. TypeOK'
  <2>1. mem' \in [Proc -> Memory] /\ AtTypes'
    BY <1>2, <1>4, <1>5, <1>6, <1>7
  <2> QED BY <2>1, <1>3 DEF TypeOK, AtTypes
<1>10. \/ /\ ~mem[p].enabled \/ (at[p][t].op = "disable" /\ ~mem[p].allowed)
          /\ Mem1(p, Released(mem[p])) /\ Calls1(p, t, Idle)
       \/ /\ mem[p].enabled /\ ~mem[p].open
          /\ Mem1(p, Released(m)) /\ Calls1(p, t, Idle)
       \/ /\ mem[p].enabled /\ (at[p][t].op = "disable" => mem[p].allowed) /\ mem[p].open
          /\ Mem1(p, m) /\ Calls1(p, t, [at[p][t] EXCEPT !.pc = "FileLock"])
  BY <1>2, <1>4, <1>5, <1>6, <1>7
<1> QED BY <1>1, <1>2, <1>3, <1>8, <1>9, <1>10

LEMMA LockStep ==
  ASSUME TypeOK, NEW p \in Proc, NEW t \in Thread(p), FileLock(p, t)
  PROVE  /\ TypeOK' /\ UNCHANGED <<life, mem, file, desc, events, calls, spoiled>>
         /\ at[p][t].pc = "FileLock" /\ flock \in {0, desc[p]} /\ flock' = desc[p]
         /\ \E w : /\ w = ToWrite(mem[p], at[p][t].op) /\ w \in Seq(Piece)
                   /\ Laid(w, mem[p].cur, at[p][t].op \in Format)
                   /\ Calls1(p, t, [at[p][t] EXCEPT !.pc = "write", !.todo = w])
<1> DEFINE w == ToWrite(mem[p], at[p][t].op)
<1>1. mem[p] \in Memory /\ AtTypes /\ at[p][t] \in AtCall
  BY DEF TypeOK, AtTypes
<1>2. w \in Seq(Piece) /\ Laid(w, mem[p].cur, at[p][t].op \in Format)
  BY <1>1, Writes
<1>3. at' = [at EXCEPT ![p][t].pc = "write", ![p][t].todo = w]
  BY DEF FileLock
<1> HIDE DEF w
<1>4. at' = [at EXCEPT ![p] = [at[p] EXCEPT ![t] = [at[p][t] EXCEPT !.pc = "write", !.todo = w]]]
  BY <1>1, <1>3 DEF AtTypes, AtCall
<1>5. AtTypes' /\ Calls1(p, t, [at[p][t] EXCEPT !.pc = "write", !.todo = w])
  BY <1>1, <1>2, <1>4, AtSteps, CallValues
<1>6. desc[p] \in Nat
  BY DEF TypeOK
<1> QED BY <1>2, <1>5, <1>6 DEF FileLock, LockIsMine, TypeOK, AtTypes, w

LEMMA WriteStep ==
  ASSUME TypeOK, NEW p \in Proc, NEW t \in Thread(p), Write(p, t)
  PROVE  /\ TypeOK' /\ UNCHANGED <<life, mem, flock, desc, events, calls, spoiled>>
         /\ at[p][t].pc = "write" /\ at[p][t].todo \in Seq(Piece) /\ at[p][t].todo # << >>
         /\ file' = Append(file, [of |-> at[p][t].todo[1].of, part |-> at[p][t].todo[1].part, by |-> p])
         /\ Calls1(p, t, [at[p][t] EXCEPT !.todo = Tail(at[p][t].todo)])
<1>1. AtTypes /\ at[p][t] \in AtCall
  BY DEF TypeOK, AtTypes
<1>2. at[p][t].todo \in Seq(Piece) /\ at[p][t].todo # << >> /\ at[p][t].pc = "write"
  BY <1>1 DEF Write, AtCall
<1>3. Tail(at[p][t].todo) \in Seq(Piece) /\ Head(at[p][t].todo) = at[p][t].todo[1]
      /\ at[p][t].todo[1] \in Piece
  BY <1>2
<1>4. at' = [at EXCEPT ![p] = [at[p] EXCEPT ![t] = [at[p][t] EXCEPT !.todo = Tail(at[p][t].todo)]]]
  BY <1>1, AtForms DEF Write
<1>5. AtTypes' /\ Calls1(p, t, [at[p][t] EXCEPT !.todo = Tail(at[p][t].todo)])
  BY <1>1, <1>3, <1>4, AtSteps, CallValues
<1>6. file' = Append(file, [of |-> at[p][t].todo[1].of, part |-> at[p][t].todo[1].part, by |-> p])
  BY <1>3 DEF Write
<1>7. file' \in Seq([of : Int, part : {1, 2}, by : Proc])
  <2>1. [of |-> at[p][t].todo[1].of, part |-> at[p][t].todo[1].part, by |-> p]
          \in [of : Int, part : {1, 2}, by : Proc]
    BY <1>3 DEF Piece
  <2> QED BY <2>1, <1>6 DEF TypeOK
<1>8. UNCHANGED <<life, mem, flock, desc, events, calls, spoiled>>
  BY DEF Write
<1>9. TypeOK'
  BY <1>5, <1>7, <1>8 DEF TypeOK, AtTypes
<1> QED BY <1>2, <1>5, <1>6, <1>8, <1>9

LEMMA WrittenStep ==
  ASSUME TypeOK, NEW p \in Proc, NEW t \in Thread(p), Written(p, t)
  PROVE  /\ TypeOK' /\ UNCHANGED <<life, file, events, calls, spoiled>>
         /\ at[p][t].pc = "write" /\ at[p][t].todo = << >> /\ Calls1(p, t, Idle)
         /\ flock' = IF flock = desc[p] THEN 0 ELSE flock
         /\ desc' = IF at[p][t].op = "disable" THEN [desc EXCEPT ![p] = 0] ELSE desc
         /\ \E m \in Memory :
              /\ Mem1(p, m)
              /\ m = [Released(mem[p]) EXCEPT
                        !.cur  = IF at[p][t].op \in Format THEN mem[p].cur ELSE << >>,
                        !.open = at[p][t].op # "disable",
                        !.shim = IF at[p][t].op = "flush" THEN mem[p].shim ELSE at[p][t].op # "disable"]
<1> DEFINE m == [Released(mem[p]) EXCEPT
                   !.cur  = IF at[p][t].op \in Format THEN mem[p].cur ELSE << >>,
                   !.open = at[p][t].op # "disable",
                   !.shim = IF at[p][t].op = "flush" THEN mem[p].shim ELSE at[p][t].op # "disable"]
<1>1. mem[p] \in Memory /\ AtTypes
  BY DEF TypeOK, AtTypes
<1>2. m \in Memory
  <2>1. mem[p].cur \in Seq(Nat) /\ << >> \in Seq(Nat)
    <3>1. << >> \in Seq(Nat)
      OBVIOUS
    <3> QED BY <3>1, <1>1, Mems
  <2>2. (IF at[p][t].op \in Format THEN mem[p].cur ELSE << >>) \in Seq(Nat)
    BY <2>1
  <2>3. mem[p].shim \in BOOLEAN
    BY <1>1 DEF Memory
  <2>4. (IF at[p][t].op = "flush" THEN mem[p].shim ELSE at[p][t].op # "disable") \in BOOLEAN
    BY <2>3
  <2> QED BY <1>1, <2>2, <2>4 DEF Memory, Released
<1>3. mem' = [mem EXCEPT ![p] = m]
  <2>1. Released(mem[p]).cur = mem[p].cur /\ Released(mem[p]).shim = mem[p].shim
    BY <1>1 DEF Released, Memory
  <2> QED BY <1>1, <2>1, Mems DEF Written, Remaining, TypeOK
<1> HIDE DEF m
<1>4. mem' \in [Proc -> Memory] /\ Mem1(p, m)
  BY <1>2, <1>3, MemSteps
<1>5. AtTypes' /\ Calls1(p, t, Idle)
  BY <1>1, AtForms, AtSteps, Idles DEF Leave, Written
<1>6. UNCHANGED <<life, file, events, calls, spoiled>> /\ at[p][t].pc = "write" /\ at[p][t].todo = << >>
      /\ flock' = (IF flock = desc[p] THEN 0 ELSE flock)
      /\ desc' = IF at[p][t].op = "disable" THEN [desc EXCEPT ![p] = 0] ELSE desc
  BY DEF Written
<1>7. TypeOK'
  BY <1>4, <1>5, <1>6 DEF TypeOK, AtTypes
<1> QED BY <1>2, <1>4, <1>5, <1>6, <1>7 DEF m

LEMMA ForkStep ==
  ASSUME Types, TypeOK, NEW p \in Proc, NEW t \in Thread(p), NEW c \in Child, Fork(p, t, c)
  PROVE  /\ TypeOK' /\ UNCHANGED <<at, file, flock, events, spoiled>>
         /\ p = Forker /\ p \in Program /\ p # c /\ c \in Proc /\ life[p] = "running" /\ life[c] = "unborn" /\ mem[p].shim
         /\ life' = [life EXCEPT ![c] = "running"] /\ desc' = [desc EXCEPT ![c] = desc[p]]
         /\ Mem1(c, [mem[p] EXCEPT !.allowed = FALSE, !.registered = FALSE]) /\ calls' = calls + 1
<1> DEFINE m == [mem[p] EXCEPT !.allowed = FALSE, !.registered = FALSE]
<1>1. mem[p] \in Memory /\ c \in Proc /\ p \in Program /\ p # c
  BY DEF TypeOK, Proc, Types, Fork
<1>2. m \in Memory
  BY <1>1 DEF Memory
<1>3. mem' \in [Proc -> Memory] /\ Mem1(c, m)
  <2>1. mem' = [mem EXCEPT ![c] = m]
    BY DEF Fork
  <2> HIDE DEF m
  <2> QED BY <1>1, <1>2, <2>1, MemSteps
<1>4. UNCHANGED <<at, file, flock, events, spoiled>> /\ calls' = calls + 1
      /\ p = Forker /\ life[p] = "running" /\ life[c] = "unborn" /\ mem[p].shim
      /\ life' = [life EXCEPT ![c] = "running"] /\ desc' = [desc EXCEPT ![c] = desc[p]]
  BY DEF Fork
<1>5. TypeOK'
  BY <1>1, <1>3, <1>4 DEF TypeOK
<1> QED BY <1>1, <1>3, <1>4, <1>5

LEMMA DeadStep ==
  ASSUME TypeOK, NEW p \in Proc, Dead(p)
  PROVE  /\ mem' \in [Proc -> Memory] /\ Mem1(p, NewMem) /\ flock' \in {0, flock}
         /\ life' = [life EXCEPT ![p] = "gone"] /\ desc' = [desc EXCEPT ![p] = 0]
         /\ life' \in [Proc -> {"unborn", "running", "ending", "gone"}] /\ desc' \in [Proc -> Nat]
         /\ \A q \in Proc : (q # p /\ life[q] \in {"running", "ending"} /\ mem[q].open /\ desc[q] = flock)
              => flock' = flock
<1>1. mem' = [mem EXCEPT ![p] = NewMem]
  BY DEF Dead
<1>2. mem' \in [Proc -> Memory] /\ Mem1(p, NewMem)
  BY <1>1, Fresh, MemSteps
<1> QED BY <1>2 DEF Dead, TypeOK

LEMMA ExitStep ==
  ASSUME TypeOK, NEW p \in Proc, Exit(p)
  PROVE  /\ TypeOK' /\ UNCHANGED <<file, events, calls, spoiled>>
         /\ life[p] = "running" /\ \A t \in Thread(p) : at[p][t] = Idle
         /\ \/ /\ IF p \in Child THEN mem[p].enabled ELSE mem[p].registered
               /\ mem[p].lock = "free" /\ Mem1(p, [mem[p] EXCEPT !.lock = "main"])
               /\ Calls1(p, "main", NewCall(IF p \in Child THEN "flush" ELSE "disable", 0))
               /\ life' = [life EXCEPT ![p] = "ending"] /\ UNCHANGED <<flock, desc>>
            \/ /\ ~(IF p \in Child THEN mem[p].enabled ELSE mem[p].registered)
               /\ Dead(p) /\ UNCHANGED at
<1> DEFINE op == IF p \in Child THEN "flush" ELSE "disable"
<1>1. op \in Ops /\ "main" \in Thread(p) /\ 0 \in Nat
  BY Threads DEF Ops
<1>2. \/ /\ IF p \in Child THEN mem[p].enabled ELSE mem[p].registered
         /\ _locked(p, "main", op, 0)
         /\ life' = [life EXCEPT ![p] = "ending"] /\ UNCHANGED <<flock, desc>>
      \/ /\ ~(IF p \in Child THEN mem[p].enabled ELSE mem[p].registered)
         /\ Dead(p) /\ UNCHANGED at
  BY DEF Exit, End
<1>3. UNCHANGED <<file, events, calls, spoiled>> /\ life[p] = "running"
      /\ \A t \in Thread(p) : at[p][t] = Idle
  BY DEF Exit
<1> HIDE DEF op
<1>4. ASSUME _locked(p, "main", op, 0), life' = [life EXCEPT ![p] = "ending"], UNCHANGED <<flock, desc>>
      PROVE  /\ TypeOK' /\ mem[p].lock = "free" /\ Mem1(p, [mem[p] EXCEPT !.lock = "main"])
             /\ Calls1(p, "main", NewCall(op, 0))
  <2>1. /\ mem' \in [Proc -> Memory] /\ AtTypes'
        /\ mem[p].lock = "free" /\ Mem1(p, [mem[p] EXCEPT !.lock = "main"])
        /\ Calls1(p, "main", NewCall(op, 0))
    BY <1>1, <1>4, LockedStep
  <2> QED BY <2>1, <1>3, <1>4 DEF TypeOK, AtTypes
<1>5. ASSUME Dead(p), UNCHANGED at PROVE TypeOK'
  <2>1. /\ mem' \in [Proc -> Memory] /\ flock' \in {0, flock}
        /\ life' \in [Proc -> {"unborn", "running", "ending", "gone"}] /\ desc' \in [Proc -> Nat]
    BY <1>5, DeadStep
  <2> QED BY <2>1, <1>3, <1>5 DEF TypeOK
<1> QED BY <1>2, <1>3, <1>4, <1>5 DEF op

LEMMA GoneStep ==
  ASSUME TypeOK, NEW p \in Proc, Gone(p)
  PROVE  /\ TypeOK' /\ UNCHANGED <<at, file, events, calls, spoiled>>
         /\ life[p] = "ending" /\ at[p]["main"] = Idle /\ Dead(p)
<1>1. /\ mem' \in [Proc -> Memory] /\ flock' \in {0, flock}
      /\ life' \in [Proc -> {"unborn", "running", "ending", "gone"}] /\ desc' \in [Proc -> Nat]
  BY DeadStep DEF Gone
<1> QED BY <1>1 DEF Gone, TypeOK

LEMMA TerminateStep ==
  ASSUME Types, TypeOK, NEW c \in Child, Terminate(c)
  PROVE  /\ TypeOK' /\ UNCHANGED <<file, events, calls>>
         /\ life[c] \in {"running", "ending"} /\ Dead(c) /\ spoiled' = spoiled \cup {c}
         /\ Calls1(c, "main", Idle) /\ Thread(c) = {"main"}
<1>1. /\ mem' \in [Proc -> Memory] /\ flock' \in {0, flock} /\ c \in Proc
      /\ life' \in [Proc -> {"unborn", "running", "ending", "gone"}] /\ desc' \in [Proc -> Nat]
  BY DeadStep DEF Terminate, Proc
<1>2. Thread(c) = {"main"} /\ AtTypes
  BY DEF Thread, Types, TypeOK, AtTypes
<1>3. at' = [at EXCEPT ![c] = [at[c] EXCEPT !["main"] = Idle]]
  BY <1>1, <1>2, AtForms DEF Terminate
<1>4. AtTypes' /\ Calls1(c, "main", Idle)
  BY <1>1, <1>2, <1>3, AtSteps, Idles
<1> QED BY <1>1, <1>2, <1>4 DEF Terminate, TypeOK, AtTypes
-------------------------------------------------------------------------------
(* The processes a step leaves alone keep their invariant                      *)

Entries == \A j \in DOMAIN file : file[j].of <= Len(events)

\* The log and the list of events grow by what p adds to them.
Grown(p) ==
  /\ \A e \in DOMAIN events : e \in DOMAIN events' /\ events'[e] = events[e]
  /\ \A e \in DOMAIN events' : e \notin DOMAIN events => events'[e][1] = p
  /\ \A j \in DOMAIN file : j \in DOMAIN file' /\ file'[j] = file[j]
  /\ \A j \in DOMAIN file' : j \notin DOMAIN file => file'[j].by = p

LEMMA Appends ==
  ASSUME NEW S, NEW s \in Seq(S), NEW x \in S
  PROVE  /\ Append(s, x) \in Seq(S) /\ Len(Append(s, x)) = Len(s) + 1 /\ Append(s, x)[Len(s) + 1] = x
         /\ \A i \in DOMAIN s : i \in DOMAIN Append(s, x) /\ Append(s, x)[i] = s[i]
         /\ \A i \in DOMAIN Append(s, x) : i \notin DOMAIN s => i = Len(s) + 1
OBVIOUS

LEMMA Elements == ASSUME NEW S, NEW s \in Seq(S) PROVE \A j \in DOMAIN s : s[j] \in S
OBVIOUS

PieceBy(p) == [of : Int, part : {1, 2}, by : {p}]
LEMMA Grows ==
  ASSUME TypeOK, NEW p \in Proc,
         events' = events \/ \E t \in {"main", "worker"} : events' = Append(events, <<p, t>>),
         file' = file \/ \E x \in PieceBy(p) : file' = Append(file, x)
  PROVE  Grown(p)
<1>1. /\ \A e \in DOMAIN events : e \in DOMAIN events' /\ events'[e] = events[e]
      /\ \A e \in DOMAIN events' : e \notin DOMAIN events => events'[e][1] = p
  <2>1. CASE events' = events
    BY <2>1
  <2>2. ASSUME NEW t \in {"main", "worker"}, events' = Append(events, <<p, t>>)
        PROVE  /\ \A e \in DOMAIN events : e \in DOMAIN events' /\ events'[e] = events[e]
               /\ \A e \in DOMAIN events' : e \notin DOMAIN events => events'[e][1] = p
    <3>1. events \in Seq(Proc \X {"main", "worker"}) /\ <<p, t>> \in Proc \X {"main", "worker"}
      BY DEF TypeOK
    <3> QED BY <2>2, <3>1, Appends
  <2> QED BY <2>1, <2>2
<1>2. /\ \A j \in DOMAIN file : j \in DOMAIN file' /\ file'[j] = file[j]
      /\ \A j \in DOMAIN file' : j \notin DOMAIN file => file'[j].by = p
  <2>1. CASE file' = file
    BY <2>1
  <2>2. ASSUME NEW x \in PieceBy(p), file' = Append(file, x)
        PROVE  /\ \A j \in DOMAIN file : j \in DOMAIN file' /\ file'[j] = file[j]
               /\ \A j \in DOMAIN file' : j \notin DOMAIN file => file'[j].by = p
    <3>1. file \in Seq([of : Int, part : {1, 2}, by : Proc]) /\ x \in [of : Int, part : {1, 2}, by : Proc]
          /\ x.by = p
      BY DEF TypeOK, PieceBy
    <3> QED BY <2>2, <3>1, Appends
  <2> QED BY <2>1, <2>2
<1> QED BY <1>1, <1>2 DEF Grown

LEMMA Indexes ==
  ASSUME TypeOK, Entries
  PROVE  \A j \in DOMAIN file : file[j].of > 0 => file[j].of \in DOMAIN events
<1>1. \A j \in DOMAIN file : file[j].of \in Int
  <2>1. file \in Seq([of : Int, part : {1, 2}, by : Proc])
    BY DEF TypeOK
  <2>2. \A j \in DOMAIN file : file[j] \in [of : Int, part : {1, 2}, by : Proc]
    BY <2>1, Elements
  <2> QED BY <2>2
<1>2. DOMAIN events = 1 .. Len(events)
  BY DEF TypeOK
<1> QED BY <1>1, <1>2 DEF Entries

\* The state of q is as it was.
Same(q) == /\ life'[q] = life[q] /\ mem'[q] = mem[q] /\ at'[q] = at[q]
           /\ (q \in spoiled') = (q \in spoiled)

LEMMA OthersStay ==
  ASSUME TypeOK, TypeOK', Entries, NEW p \in Proc, NEW q \in Proc, q # p,
         Grown(p), Same(q), ProcInv(q)
  PROVE  ProcInv(q)'
<1>1. Calling(q)'
  BY DEF Same, ProcInv, Calling, OneCall
<1>2. Flags(q)'
  BY DEF Same, ProcInv, Flags, Closing
<1>3. \A e \in DOMAIN events' : Recorder(e)' = q => e \in DOMAIN events /\ Recorder(e) = q
  BY DEF Grown, Recorder
<1>4. \A e \in DOMAIN events : e \in DOMAIN events' /\ Recorder(e)' = Recorder(e)
  BY DEF Grown, Recorder
<1>5. \A e \in DOMAIN events : InFile(e) => InFile(e)'
  BY DEF Grown, InFile
<1>6. Buffer(q)'
  BY <1>3, <1>4 DEF Same, ProcInv, Buffer
<1>7. Kept(q)'
  <2>1. \A i \in DOMAIN mem[q].cur : mem[q].cur[i] \in DOMAIN events
    BY DEF ProcInv, Buffer
  <2>2. Present(q)'
    BY <1>3, <1>5 DEF Same, ProcInv, Kept, Present
  <2>3. Covered(q)'
    BY <2>1, <1>5 DEF Same, ProcInv, Kept, Writing, Covered
  <2>4. AtEnd(q)'
    BY DEF Same, ProcInv, Kept, AtEnd
  <2> QED BY <2>2, <2>3, <2>4 DEF Kept
<1>8. \A of, part : Wrote(q, of, part)' => Wrote(q, of, part)
  BY DEF Grown, Wrote
<1>9. \A j \in DOMAIN file' : file'[j].by = q => j \in DOMAIN file /\ file'[j] = file[j]
  BY DEF Grown
<1>10. Once(q)'
  <2>1. ASSUME NEW i \in DOMAIN file', NEW j \in DOMAIN file', i < j, file'[j].of > 0, file'[j].by = q
        PROVE  file'[i] # file'[j]
    <3>1. j \in DOMAIN file /\ file'[j] = file[j] /\ file[j].of \in DOMAIN events
      BY <2>1, <1>9, Indexes
    <3>2. i \in DOMAIN file /\ file'[i] = file[i]
      <4>1. DOMAIN file = 1 .. Len(file) /\ DOMAIN file' \subseteq Nat \ {0} /\ Len(file) \in Nat
        <5>1. file \in Seq([of : Int, part : {1, 2}, by : Proc]) /\ file' \in Seq([of : Int, part : {1, 2}, by : Proc])
          BY DEF TypeOK
        <5>2. Len(file') \in Nat /\ DOMAIN file' = 1 .. Len(file')
          BY <5>1
        <5>3. DOMAIN file = 1 .. Len(file) /\ Len(file) \in Nat
          BY <5>1
        <5> QED BY <5>2, <5>3
      <4> QED BY <2>1, <3>1, <4>1 DEF Grown
    <3> QED BY <2>1, <3>1, <3>2 DEF ProcInv, Once, NoneTwice
  <2>2. NoneTwice(q)'
    BY <2>1 DEF NoneTwice
  <2>3. Unwritten(q)'
    BY <1>8 DEF Same, ProcInv, Once, Writing, Unwritten
  <2>4. ToDo(q)'
    BY <1>8 DEF Same, ProcInv, Once, ToDo
  <2> QED BY <2>2, <2>3, <2>4 DEF Once
<1>11. Own(q)'
  <2>1. /\ \A i \in DOMAIN mem[q].cur : mem[q].cur[i] \in DOMAIN events
        /\ \A j \in DOMAIN file : file[j].of > 0 => file[j].of \in DOMAIN events
    BY Indexes DEF ProcInv, Buffer
  <2> QED BY <2>1, <1>4, <1>9 DEF Same, ProcInv, Own, Sources
<1> QED BY <1>1, <1>2, <1>6, <1>7, <1>10, <1>11 DEF ProcInv
-------------------------------------------------------------------------------
(* The process that takes the step keeps its invariant                         *)

LEMMA Alike ==
  ASSUME NEW p \in Proc, NEW t \in Thread(p), NEW u \in Thread(p), t # u,
         Calling(p), at[p][t] # Idle
  PROVE  at[p][u] = Idle
BY DEF Calling, OneCall

\* A step that neither records nor writes, and leaves the buffer as it is.
Silent(p) == /\ UNCHANGED <<file, events>>
             /\ mem'[p].cur = mem[p].cur /\ mem'[p].registered = mem[p].registered

LEMMA SilentBuffer ==
  ASSUME NEW p \in Proc, Buffer(p), Own(p), Silent(p), life[p] # "gone",
         life'[p] \in {"running", "ending"}
  PROVE  Buffer(p)' /\ Own(p)'
<1>1. \A e \in DOMAIN events' : Recorder(e)' = p =>
        life'[p] # "unborn" /\ (mem'[p].registered \/ life'[p] = "gone")
  BY DEF Buffer, Silent, Recorder
<1>2. /\ \A i \in DOMAIN mem'[p].cur : mem'[p].cur[i] \in DOMAIN events'
      /\ \A i, j \in DOMAIN mem'[p].cur : i < j => mem'[p].cur[i] < mem'[p].cur[j]
      /\ (mem'[p].registered \/ p \in Program) =>
           \A i \in DOMAIN mem'[p].cur : events'[mem'[p].cur[i]][1] = p
  BY DEF Buffer, Silent, Recorder
<1>3. Own(p)'
  BY DEF Own, Silent, Recorder, Sources
<1> QED BY <1>1, <1>2, <1>3 DEF Buffer, Recorder

LEMMA SilentPresent ==
  ASSUME NEW p \in Proc, Present(p), Silent(p), life'[p] # "gone", p \in spoiled => p \in spoiled'
  PROVE  Present(p)'
<1>1. \A e \in DOMAIN events : InFile(e)' = InFile(e)
  BY DEF Silent, InFile
<1> QED BY <1>1 DEF Present, Silent, Recorder

\* A call that does not write has nothing to cover and nothing to do.
LEMMA SilentOnce ==
  ASSUME NEW p \in Proc, Once(p), Silent(p),
         \A t \in Thread(p) : at[p][t].pc # "write",
         \A t \in Thread(p) : at'[p][t].pc # "write"
  PROVE  Once(p)' /\ Covered(p)'
<1>1. NoneTwice(p)'
  BY DEF Once, NoneTwice, Silent, Recorder
<1>2. \A of, part : Wrote(p, of, part)' = Wrote(p, of, part)
  BY DEF Silent, Wrote
<1>3. Unwritten(p)'
  BY <1>2 DEF Once, Unwritten, Silent, Writing
<1>4. ToDo(p)' /\ Covered(p)'
  BY DEF ToDo, Covered, Writing
<1> QED BY <1>1, <1>3, <1>4 DEF Once

\* The lock of the memory is taken for a call.
LEMMA OwnCall ==
  ASSUME TypeOK, NEW p \in Proc, ProcInv(p), NEW t \in Thread(p), NEW op \in Ops, NEW no \in Nat,
         mem[p].lock = "free", Mem1(p, [mem[p] EXCEPT !.lock = t]), Calls1(p, t, NewCall(op, no)),
         life[p] = "running", UNCHANGED <<file, events, spoiled>>,
         \/ life'[p] = "running"
         \/ /\ life'[p] = "ending" /\ t = "main" /\ op = LastCall(p)
            /\ (p \in Child => mem[p].enabled)
  PROVE  ProcInv(p)'
<1>1. mem[p] \in Memory /\ t \in {"main", "worker"} /\ Thread(p) \subseteq {"main", "worker"}
  BY Threads DEF TypeOK
<1>2. /\ mem'[p] = [mem[p] EXCEPT !.lock = t] /\ at'[p][t] = NewCall(op, no)
      /\ \A u \in Thread(p) : u # t => at'[p][u] = at[p][u]
  BY DEF Mem1, Calls1
<1>3. \A u \in Thread(p) : at[p][u] = Idle
  BY <1>1 DEF ProcInv, Calling, OneCall
<1>4. /\ mem'[p].lock = t /\ mem'[p].cur = mem[p].cur /\ mem'[p].registered = mem[p].registered
      /\ mem'[p].enabled = mem[p].enabled /\ mem'[p].open = mem[p].open /\ mem'[p].shim = mem[p].shim
      /\ mem'[p].allowed = mem[p].allowed
  BY <1>1, <1>2 DEF Memory
<1>5. at'[p][t].op = op /\ at'[p][t].pc = "body" /\ op # "none"
  BY <1>2 DEF NewCall, Ops, Format
<1>6. Silent(p)
  BY <1>4 DEF Silent
<1>7. /\ \A u \in Thread(p) : at[p][u].pc = "none"
      /\ \A u \in Thread(p) : at'[p][u].pc \in {"none", "body"}
  BY <1>2, <1>3, <1>5, Idles
<1>8. Calling(p)'
  BY <1>2, <1>3, <1>4, <1>5 DEF Calling, OneCall
<1>9. Flags(p)'
  BY <1>4, <1>7 DEF ProcInv, Flags, Closing
<1>10. Buffer(p)' /\ Own(p)'
  BY <1>6, SilentBuffer DEF ProcInv
<1>11. Present(p)'
  BY <1>6, SilentPresent DEF ProcInv, Kept
<1>12. Once(p)' /\ Covered(p)'
  BY <1>6, <1>7, SilentOnce DEF ProcInv
<1>13. AtEnd(p)'
  BY <1>2, <1>3, <1>4, <1>5, Idles DEF AtEnd, LastCall
<1> QED BY <1>8, <1>9, <1>10, <1>11, <1>12, <1>13 DEF ProcInv, Kept

\* Add: refused, or the event is in the buffer.
LEMMA OwnAdd ==
  ASSUME Types, TypeOK, Entries, NEW p \in Proc, ProcInv(p), NEW t \in Thread(p), add_trace_event(p, t)
  PROVE  ProcInv(p)'
<1>1. mem[p] \in Memory /\ t \in {"main", "worker"} /\ Thread(p) \subseteq {"main", "worker"}
  BY Threads DEF TypeOK
<1>0. /\ UNCHANGED <<life, file, spoiled>> /\ at[p][t].op = "add" /\ at[p][t].pc = "body"
      /\ Calls1(p, t, Idle)
      /\ \/ events' = events /\ Mem1(p, Released(mem[p]))
         \/ /\ events' = Append(events, <<p, t>>) /\ mem[p].enabled
            /\ \E s : /\ s = IF mem[p].registered THEN mem[p].cur ELSE << >>
                     /\ Mem1(p, [Released(mem[p]) EXCEPT !.registered = TRUE,
                                   !.cur = Append(s, Len(events) + 1)])
  BY AddStep
<1>2. /\ UNCHANGED <<life, file, spoiled>> /\ at[p][t].op = "add" /\ at[p][t].pc = "body"
      /\ at'[p][t] = Idle /\ \A u \in Thread(p) : u # t => at'[p][u] = at[p][u]
  BY <1>0 DEF Calls1
<1>3. at[p][t] # Idle
  BY <1>2, Idles
<1>4. life[p] = "running" /\ \A u \in Thread(p) : u # t => at[p][u] = Idle
  <2>1. life[p] \in {"running", "ending"} /\ \A u \in Thread(p) : u # t => at[p][u] = Idle
    BY <1>3, Alike DEF ProcInv, Calling, OneCall
  <2>2. life[p] # "ending"
    <3>1. t = "main" => at[p]["main"].op # LastCall(p)
      BY <1>2 DEF LastCall
    <3> QED BY <1>3, <3>1 DEF ProcInv, Kept, AtEnd
  <2> QED BY <2>1, <2>2
<1>5. /\ \A u \in Thread(p) : at[p][u].pc \in {"none", "body"}
      /\ \A u \in Thread(p) : at'[p][u] = Idle /\ at'[p][u].pc = "none"
  BY <1>2, <1>4, Idles
<1>6. Calling(p)' /\ AtEnd(p)' /\ life'[p] = "running"
  BY <1>2, <1>4, <1>5 DEF Calling, OneCall, AtEnd
<1>7. CASE events' = events /\ mem'[p] = Released(mem[p])
  <2>1. /\ mem'[p].cur = mem[p].cur /\ mem'[p].registered = mem[p].registered
        /\ mem'[p].enabled = mem[p].enabled /\ mem'[p].open = mem[p].open /\ mem'[p].shim = mem[p].shim
        /\ mem'[p].allowed = mem[p].allowed
    BY <1>1, <1>7 DEF Memory, Released
  <2>2. Silent(p)
    BY <1>2, <1>7, <2>1 DEF Silent
  <2>3. Flags(p)'
    BY <1>2, <1>4, <1>5, <2>1 DEF ProcInv, Flags, Closing
  <2>4. Buffer(p)' /\ Own(p)'
    BY <1>4, <1>6, <2>2, SilentBuffer DEF ProcInv
  <2>5. Present(p)'
    BY <1>2, <1>6, <2>2, SilentPresent DEF ProcInv, Kept
  <2>6. Once(p)' /\ Covered(p)'
    BY <1>5, <2>2, SilentOnce DEF ProcInv
  <2> QED BY <1>6, <2>3, <2>4, <2>5, <2>6 DEF ProcInv, Kept
<1>8. ASSUME events' = Append(events, <<p, t>>), mem[p].enabled, NEW s,
             s = IF mem[p].registered THEN mem[p].cur ELSE << >>,
             mem'[p] = [Released(mem[p]) EXCEPT !.registered = TRUE, !.cur = Append(s, Len(events) + 1)]
      PROVE  ProcInv(p)'
  <2> DEFINE n == Len(events) + 1
             c == Append(s, n)
  <2>1. s \in Seq(Nat) /\ n \in Nat /\ Len(events) \in Nat /\ DOMAIN events = 1 .. Len(events)
    <3>1. mem[p].cur \in Seq(Nat)
      BY <1>1, Mems
    <3>2. << >> \in Seq(Nat)
      OBVIOUS
    <3>3. s \in Seq(Nat)
      BY <3>1, <3>2, <1>8
    <3> QED BY <3>3 DEF TypeOK
  <2>2. /\ DOMAIN s = 1 .. Len(s) /\ Len(s) \in Nat /\ DOMAIN c = 1 .. (Len(s) + 1)
        /\ c[Len(s) + 1] = n /\ \A i \in DOMAIN s : c[i] = s[i]
    BY <2>1
  <2>3. /\ mem'[p].cur = c /\ mem'[p].registered = TRUE
        /\ mem'[p].enabled = mem[p].enabled /\ mem'[p].open = mem[p].open /\ mem'[p].shim = mem[p].shim
        /\ mem'[p].allowed = mem[p].allowed
    <3>1. c \in Seq(Nat)
      BY <2>1
    <3> HIDE DEF c
    <3>2. mem'[p] = [[mem[p] EXCEPT !.lock = "free"] EXCEPT !.registered = TRUE, !.cur = c]
      BY <1>8 DEF c, n, Released
    <3> QED BY <1>1, <3>1, <3>2 DEF Memory
  <2>4. /\ \A e \in DOMAIN events : e \in DOMAIN events' /\ events'[e] = events[e] /\ e < n
        /\ n \in DOMAIN events' /\ events'[n] = <<p, t>> /\ events'[n][1] = p
        /\ \A e \in DOMAIN events' : e \in DOMAIN events \/ e = n
    <3>1. events \in Seq(Proc \X {"main", "worker"}) /\ <<p, t>> \in Proc \X {"main", "worker"}
      BY <1>1 DEF TypeOK
    <3> QED BY <1>8, <3>1, <2>1, Appends
  <2>5. /\ \A i \in DOMAIN s : s[i] \in DOMAIN events /\ events[s[i]][1] = p
        /\ \A i, j \in DOMAIN s : i < j => s[i] < s[j]
    BY <1>8 DEF ProcInv, Buffer, Recorder
  <2>6. \A e \in DOMAIN events : events[e][1] = p => mem[p].registered
    BY <1>4 DEF ProcInv, Buffer, Recorder
  <2> HIDE DEF n, c
  <2>7. Flags(p)'
    BY <1>2, <1>4, <1>8, <2>3 DEF ProcInv, Flags
  <2>8. \A i \in DOMAIN c : c[i] \in DOMAIN events' /\ events'[c[i]][1] = p
    <3>1. \A i \in DOMAIN c : i \in DOMAIN s \/ i = Len(s) + 1
      BY <2>2
    <3> QED BY <3>1, <2>2, <2>4, <2>5
  <2>9. \A i, j \in DOMAIN c : i < j => c[i] < c[j]
    <3>1. ASSUME NEW i \in DOMAIN c, NEW j \in DOMAIN c, i < j PROVE c[i] < c[j]
      <4>1. i \in DOMAIN s /\ (j \in DOMAIN s \/ j = Len(s) + 1)
        BY <2>2, <3>1
      <4>2. CASE j \in DOMAIN s
        BY <4>1, <4>2, <3>1, <2>2, <2>5
      <4>3. CASE j = Len(s) + 1
        BY <4>1, <4>3, <2>2, <2>4, <2>5
      <4> QED BY <4>1, <4>2, <4>3
    <3> QED BY <3>1
  <2>10. Buffer(p)'
    BY <1>6, <2>3, <2>8, <2>9 DEF Buffer, Recorder
  <2>11. Present(p)'
    <3>1. ASSUME p \notin spoiled', NEW e \in DOMAIN events', events'[e][1] = p
          PROVE  InFile(e)' \/ \E i \in DOMAIN c : c[i] = e
      <4>1. CASE e = n
        <5>1. Len(s) + 1 \in DOMAIN c
          BY <2>2
        <5> QED BY <4>1, <5>1, <2>2
      <4>2. CASE e \in DOMAIN events
        <5>1. events[e][1] = p /\ mem[p].registered /\ s = mem[p].cur
          BY <4>2, <3>1, <2>4, <2>6, <1>8
        <5>2. InFile(e) \/ \E i \in DOMAIN s : s[i] = e
          BY <4>2, <5>1, <3>1, <1>2 DEF ProcInv, Kept, Present, Recorder
        <5>3. InFile(e)' = InFile(e)
          BY <1>2 DEF InFile
        <5>4. \A i \in DOMAIN s : i \in DOMAIN c /\ c[i] = s[i]
          BY <2>2
        <5> QED BY <5>2, <5>3, <5>4
      <4> QED BY <4>1, <4>2, <2>4
    <3> QED BY <3>1, <1>6, <2>3 DEF Present, Recorder
  <2>12. Covered(p)' /\ ToDo(p)'
    BY <1>5 DEF Covered, ToDo, Writing
  <2>13. NoneTwice(p)'
    <3>1. file' = file
      BY <1>2
    <3>2. NoneTwice(p)
      BY DEF ProcInv, Once
    <3> QED BY ONLY <3>1, <3>2 DEF NoneTwice
  <2>14. Unwritten(p)'
    <3>1. \A of, part : Wrote(p, of, part)' = Wrote(p, of, part)
      BY <1>2 DEF Wrote
    <3>2. ASSUME NEW i \in DOMAIN c, NEW part \in {1, 2}, Wrote(p, c[i], part) PROVE FALSE
      <4>1. CASE i = Len(s) + 1
        <5>1. PICK j \in DOMAIN file : file[j].of = n
          BY <4>1, <3>2, <2>2 DEF Wrote
        <5> QED BY <5>1, <2>1, <2>4, Indexes DEF n
      <4>2. CASE i \in DOMAIN s
        <5>1. mem[p].registered /\ s = mem[p].cur
          BY <4>2, <1>8, <2>2, <2>5, <2>6
        <5>2. \A u \in Thread(p) : ~Writing(p, u)
          BY <1>5 DEF Writing
        <5> QED BY <4>2, <5>1, <5>2, <3>2, <2>2 DEF ProcInv, Once, Unwritten
      <4> QED BY <4>1, <4>2, <2>2
    <3> QED BY <3>1, <3>2, <2>3 DEF Unwritten
  <2>15. Own(p)'
    <3>1. \A j \in DOMAIN file : file[j].of > 0 => file[j].of \in DOMAIN events
      BY Indexes
    <3>2. file' = file /\ life' = life
      BY <1>2
    <3> QED BY <3>1, <3>2, <2>3, <2>4, <2>8 DEF ProcInv, Own, Recorder, Sources
  <2> QED BY <1>6, <2>7, <2>10, <2>11, <2>12, <2>13, <2>14, <2>15 DEF ProcInv, Kept, Once
<1>9. CASE events' = events /\ Mem1(p, Released(mem[p]))
  BY <1>7, <1>9 DEF Mem1
<1> QED BY <1>0, <1>8, <1>9 DEF Mem1

\* A call in its body: nobody writes, and its process is running unless the call is
\* the last one.
LEMMA InBody ==
  ASSUME TypeOK, NEW p \in Proc, ProcInv(p), NEW t \in Thread(p),
         at[p][t].pc \in {"body", "FileLock"}
  PROVE  /\ at[p][t] # Idle /\ mem[p].lock = t /\ life[p] \in {"running", "ending"}
         /\ \A u \in Thread(p) : u # t => at[p][u] = Idle
         /\ \A u \in Thread(p) : at[p][u].pc # "write"
         /\ life[p] = "ending" => t = "main" /\ at[p][t].op = LastCall(p)
<1>1. at[p][t] # Idle
  BY Idles
<1>2. /\ mem[p].lock = t /\ life[p] \in {"running", "ending"}
      /\ \A u \in Thread(p) : u # t => at[p][u] = Idle
  BY <1>1, Alike DEF ProcInv, Calling, OneCall
<1>3. \A u \in Thread(p) : at[p][u].pc # "write"
  BY <1>2, Idles
<1>4. life[p] = "ending" => t = "main" /\ at[p][t].op = LastCall(p)
  BY <1>1 DEF ProcInv, Kept, AtEnd
<1> QED BY <1>1, <1>2, <1>3, <1>4

LEMMA OwnEnable ==
  ASSUME Types, TypeOK, NEW p \in Proc, ProcInv(p), NEW t \in Thread(p), _trace_enable(p, t)
  PROVE  ProcInv(p)'
<1>1. PICK m \in Memory :
        /\ m = [mem[p] EXCEPT !.format = at[p][t].op]
        /\ \/ /\ mem[p].enabled \/ ~mem[p].allowed
              /\ Mem1(p, Released(m)) /\ Calls1(p, t, Idle) /\ UNCHANGED <<desc, spoiled>>
           \/ /\ ~mem[p].enabled /\ mem[p].allowed
              /\ Mem1(p, [Released(m) EXCEPT !.enabled = TRUE]) /\ Calls1(p, t, Idle)
              /\ spoiled' = spoiled \cup {p} /\ UNCHANGED desc
           \/ /\ ~mem[p].enabled /\ mem[p].allowed
              /\ Mem1(p, [m EXCEPT !.enabled = TRUE, !.open = TRUE])
              /\ Calls1(p, t, [at[p][t] EXCEPT !.pc = "FileLock"])
              /\ desc' = [desc EXCEPT ![p] = at[p][t].no] /\ UNCHANGED spoiled
  BY EnableStep
<1>2. UNCHANGED <<life, file, flock, events, calls>> /\ at[p][t].op \in Format /\ at[p][t].pc = "body"
  BY EnableStep
<1>3. /\ at[p][t] # Idle /\ mem[p].lock = t /\ life[p] = "running"
      /\ \A u \in Thread(p) : u # t => at[p][u] = Idle
      /\ \A u \in Thread(p) : at[p][u].pc # "write"
  BY <1>2, InBody DEF LastCall, Format
<1>4. mem[p] \in Memory /\ at[p][t] \in AtCall /\ mem[p].enabled \in BOOLEAN /\ Thread(p) \subseteq {"main", "worker"}
  BY Threads DEF TypeOK, Memory
<1>5. /\ m.cur = mem[p].cur /\ m.registered = mem[p].registered /\ m.lock = mem[p].lock
      /\ m.enabled = mem[p].enabled /\ m.open = mem[p].open /\ m.shim = mem[p].shim
      /\ m.allowed = mem[p].allowed
  BY <1>1, <1>4 DEF Memory
<1>6. ASSUME Silent(p), \A u \in Thread(p) : at'[p][u].pc # "write", p \in spoiled => p \in spoiled'
      PROVE  Buffer(p)' /\ Own(p)' /\ Kept(p)' /\ Once(p)'
  <2>1. Buffer(p)' /\ Own(p)' /\ Present(p)'
    BY <1>2, <1>3, <1>6, SilentBuffer, SilentPresent DEF ProcInv, Kept
  <2>2. Once(p)' /\ Covered(p)'
    BY <1>3, <1>6, SilentOnce DEF ProcInv
  <2>3. AtEnd(p)'
    BY <1>2, <1>3 DEF AtEnd
  <2> QED BY <2>1, <2>2, <2>3 DEF Kept
<1>7. CASE /\ mem[p].enabled \/ ~mem[p].allowed
           /\ Mem1(p, Released(m)) /\ Calls1(p, t, Idle) /\ UNCHANGED <<desc, spoiled>>
  <2>1. /\ mem'[p].cur = mem[p].cur /\ mem'[p].registered = mem[p].registered
        /\ mem'[p].enabled = mem[p].enabled /\ mem'[p].open = mem[p].open /\ mem'[p].shim = mem[p].shim
        /\ mem'[p].allowed = mem[p].allowed
    BY <1>5, <1>7 DEF Memory, Released, Mem1
  <2>2. \A u \in Thread(p) : at'[p][u] = Idle /\ at'[p][u].pc = "none"
    BY <1>3, <1>7, Idles DEF Calls1
  <2>3. Calling(p)'
    BY <2>2 DEF Calling, OneCall
  <2>4. Flags(p)'
    BY <1>2, <1>3, <1>7, <2>1, <2>2 DEF ProcInv, Flags, Closing, Format
  <2> QED BY <1>2, <1>6, <1>7, <2>1, <2>2, <2>3, <2>4 DEF ProcInv, Silent
<1>8. CASE /\ ~mem[p].enabled /\ mem[p].allowed
           /\ Mem1(p, [Released(m) EXCEPT !.enabled = TRUE]) /\ Calls1(p, t, Idle)
           /\ spoiled' = spoiled \cup {p} /\ UNCHANGED desc
  <2>1. /\ mem'[p].cur = mem[p].cur /\ mem'[p].registered = mem[p].registered
        /\ mem'[p].enabled = TRUE /\ mem'[p].open = mem[p].open /\ mem'[p].shim = mem[p].shim
        /\ mem'[p].allowed = mem[p].allowed
    BY <1>5, <1>8 DEF Memory, Released, Mem1
  <2>2. \A u \in Thread(p) : at'[p][u] = Idle /\ at'[p][u].pc = "none"
    BY <1>3, <1>8, Idles DEF Calls1
  <2>3. Calling(p)'
    BY <2>2 DEF Calling, OneCall
  <2>4. p \in Program /\ ~mem[p].shim /\ p \notin Child
    <3>1. p \notin Child
      BY <1>3, <1>8 DEF ProcInv, Flags
    <3>2. ~Closing(p)
      BY <1>2, <1>3, Idles DEF Closing, Format
    <3> QED BY <1>8, <3>1, <3>2 DEF ProcInv, Flags, Proc
  <2>5. Flags(p)'
    BY <1>8, <2>1, <2>4 DEF ProcInv, Flags
  <2> QED BY <1>2, <1>6, <1>8, <2>1, <2>2, <2>3, <2>5 DEF ProcInv, Silent
<1>9. CASE /\ ~mem[p].enabled /\ mem[p].allowed
           /\ Mem1(p, [m EXCEPT !.enabled = TRUE, !.open = TRUE])
           /\ Calls1(p, t, [at[p][t] EXCEPT !.pc = "FileLock"])
           /\ UNCHANGED spoiled
  <2>1. /\ mem'[p].cur = mem[p].cur /\ mem'[p].registered = mem[p].registered /\ mem'[p].lock = t
        /\ mem'[p].enabled = TRUE /\ mem'[p].open = TRUE /\ mem'[p].shim = mem[p].shim
        /\ mem'[p].allowed = TRUE
    BY <1>3, <1>5, <1>9 DEF Memory, Mem1
  <2>2. /\ at'[p][t].pc = "FileLock" /\ at'[p][t].op = at[p][t].op
        /\ \A u \in Thread(p) : u # t => at'[p][u] = Idle
    BY <1>3, <1>4, <1>9 DEF Calls1, AtCall
  <2>3. \A u \in Thread(p) : at'[p][u].pc # "write"
    BY <2>2, Idles
  <2>4. Calling(p)'
    BY <1>2, <1>3, <2>1, <2>2 DEF Calling, OneCall, Format
  <2>5. p \notin Child
    BY <1>3, <1>9 DEF ProcInv, Flags
  <2>6. Flags(p)'
    BY <2>1, <2>5 DEF ProcInv, Flags
  <2> QED BY <1>2, <1>6, <1>9, <2>1, <2>3, <2>4, <2>6 DEF ProcInv, Silent
<1> QED BY <1>1, <1>7, <1>8, <1>9

LEMMA OwnFlush ==
  ASSUME Types, TypeOK, NEW p \in Proc, ProcInv(p), NEW t \in Thread(p), Flushes(p, t)
  PROVE  ProcInv(p)'
<1>1. PICK m \in Memory :
        /\ m = IF at[p][t].op = "disable" THEN [mem[p] EXCEPT !.enabled = FALSE] ELSE mem[p]
        /\ \/ /\ ~mem[p].enabled \/ (at[p][t].op = "disable" /\ ~mem[p].allowed)
              /\ Mem1(p, Released(mem[p])) /\ Calls1(p, t, Idle)
           \/ /\ mem[p].enabled /\ ~mem[p].open
              /\ Mem1(p, Released(m)) /\ Calls1(p, t, Idle)
           \/ /\ mem[p].enabled /\ (at[p][t].op = "disable" => mem[p].allowed) /\ mem[p].open
              /\ Mem1(p, m) /\ Calls1(p, t, [at[p][t] EXCEPT !.pc = "FileLock"])
  BY FlushStep
<1>2. /\ UNCHANGED <<life, file, events, spoiled>> /\ at[p][t].op \in {"flush", "disable"}
      /\ at[p][t].pc = "body"
  BY FlushStep
<1>3. /\ at[p][t] # Idle /\ mem[p].lock = t /\ life[p] \in {"running", "ending"}
      /\ \A u \in Thread(p) : u # t => at[p][u] = Idle
      /\ \A u \in Thread(p) : at[p][u].pc # "write"
      /\ life[p] = "ending" => t = "main" /\ at[p][t].op = LastCall(p)
  BY <1>2, InBody
<1>4. mem[p] \in Memory /\ at[p][t] \in AtCall /\ mem[p].enabled \in BOOLEAN /\ Thread(p) \subseteq {"main", "worker"}
  BY Threads DEF TypeOK, Memory
<1>5. /\ m.cur = mem[p].cur /\ m.registered = mem[p].registered /\ m.lock = mem[p].lock
      /\ m.enabled = (IF at[p][t].op = "disable" THEN FALSE ELSE mem[p].enabled)
      /\ m.open = mem[p].open /\ m.shim = mem[p].shim /\ m.allowed = mem[p].allowed
  BY <1>1, <1>4 DEF Memory
<1>6. ASSUME Silent(p), \A u \in Thread(p) : at'[p][u].pc # "write"
      PROVE  Buffer(p)' /\ Own(p)' /\ Present(p)' /\ Covered(p)' /\ Once(p)'
  <2>1. Buffer(p)' /\ Own(p)' /\ Present(p)'
    BY <1>2, <1>3, <1>6, SilentBuffer, SilentPresent DEF ProcInv, Kept
  <2>2. Once(p)' /\ Covered(p)'
    BY <1>3, <1>6, SilentOnce DEF ProcInv
  <2> QED BY <2>1, <2>2
<1>7. ~Closing(p)
  BY <1>2, <1>3, Idles DEF Closing
<1>8. Calls1(p, t, Idle) => \A u \in Thread(p) : at'[p][u] = Idle /\ at'[p][u].pc = "none"
  BY <1>3, Idles DEF Calls1
<1>9. CASE /\ ~mem[p].enabled \/ (at[p][t].op = "disable" /\ ~mem[p].allowed)
           /\ Mem1(p, Released(mem[p])) /\ Calls1(p, t, Idle)
  <2>1. /\ mem'[p].cur = mem[p].cur /\ mem'[p].registered = mem[p].registered
        /\ mem'[p].enabled = mem[p].enabled /\ mem'[p].open = mem[p].open /\ mem'[p].shim = mem[p].shim
        /\ mem'[p].allowed = mem[p].allowed
    BY <1>4, <1>9 DEF Memory, Released, Mem1
  <2>2. \A u \in Thread(p) : at'[p][u] = Idle /\ at'[p][u].pc = "none"
    BY <1>8, <1>9
  <2>3. Calling(p)'
    BY <2>2 DEF Calling, OneCall
  <2>4. Flags(p)'
    BY <1>2, <1>7, <2>1, <2>2 DEF ProcInv, Flags, Closing
  <2>5. AtEnd(p)'
    <3>1. ASSUME life[p] = "ending" PROVE (p \in Child => mem[p].enabled) /\ (p \notin spoiled => mem[p].cur = << >>)
      <4>1. p \in Child => mem[p].enabled
        BY <3>1 DEF ProcInv, Kept, AtEnd
      <4>2. p \notin Child /\ p \in Program /\ ~mem[p].enabled
        <5>1. p \in Child => at[p][t].op = "flush"
          BY <3>1, <1>3 DEF LastCall
        <5>2. p \in Program => mem[p].allowed
          BY DEF ProcInv, Flags
        <5> QED BY <4>1, <5>1, <5>2, <1>9 DEF Proc
      <4> QED BY <4>1, <4>2, <1>7 DEF ProcInv, Flags
    <3>2. "main" \in Thread(p)
      BY Threads
    <3> QED BY <3>1, <3>2, <1>2, <2>1, <2>2 DEF AtEnd
  <2> QED BY <1>2, <1>6, <1>9, <2>1, <2>2, <2>3, <2>4, <2>5 DEF ProcInv, Silent, Kept
<1>10. CASE mem[p].enabled /\ ~mem[p].open /\ Mem1(p, Released(m)) /\ Calls1(p, t, Idle)
  <2>1. /\ mem'[p].cur = mem[p].cur /\ mem'[p].registered = mem[p].registered
        /\ mem'[p].enabled = (IF at[p][t].op = "disable" THEN FALSE ELSE mem[p].enabled)
        /\ mem'[p].open = mem[p].open /\ mem'[p].shim = mem[p].shim
        /\ mem'[p].allowed = mem[p].allowed
    BY <1>5, <1>10 DEF Memory, Released, Mem1
  <2>2. \A u \in Thread(p) : at'[p][u] = Idle /\ at'[p][u].pc = "none"
    BY <1>8, <1>10
  <2>3. Calling(p)'
    BY <2>2 DEF Calling, OneCall
  <2>4. p \notin Child /\ p \in spoiled /\ ~mem[p].shim
    BY <1>10 DEF ProcInv, Flags
  <2>5. Flags(p)'
    BY <1>2, <1>10, <2>1, <2>4 DEF ProcInv, Flags
  <2>6. AtEnd(p)'
    <3>1. "main" \in Thread(p)
      BY Threads
    <3> QED BY <3>1, <1>2, <2>2, <2>4 DEF AtEnd
  <2> QED BY <1>2, <1>6, <1>10, <2>1, <2>2, <2>3, <2>5, <2>6 DEF ProcInv, Silent, Kept
<1>11. CASE /\ mem[p].enabled /\ (at[p][t].op = "disable" => mem[p].allowed) /\ mem[p].open
            /\ Mem1(p, m) /\ Calls1(p, t, [at[p][t] EXCEPT !.pc = "FileLock"])
  <2>1. /\ mem'[p].cur = mem[p].cur /\ mem'[p].registered = mem[p].registered /\ mem'[p].lock = t
        /\ mem'[p].enabled = (IF at[p][t].op = "disable" THEN FALSE ELSE TRUE)
        /\ mem'[p].open = TRUE /\ mem'[p].shim = mem[p].shim /\ mem'[p].allowed = mem[p].allowed
    BY <1>3, <1>5, <1>11 DEF Memory, Mem1
  <2>2. /\ at'[p][t].pc = "FileLock" /\ at'[p][t].op = at[p][t].op
        /\ \A u \in Thread(p) : u # t => at'[p][u] = Idle
    BY <1>3, <1>4, <1>11 DEF Calls1, AtCall
  <2>3. \A u \in Thread(p) : at'[p][u].pc # "write"
    BY <2>2, Idles
  <2>4. Calling(p)'
    BY <1>2, <1>3, <1>11, <2>1, <2>2 DEF Calling, OneCall
  <2>5. p \in Child => at[p][t].op # "disable"
    BY <1>3, <1>11 DEF ProcInv, Flags
  <2>6. Flags(p)'
    <3>1. at[p][t].op = "disable" => Closing(p)'
      BY <2>2 DEF Closing
    <3> QED BY <1>2, <1>11, <2>1, <2>5, <3>1 DEF ProcInv, Flags
  <2>7. AtEnd(p)'
    <3>1. life[p] = "ending" => /\ at'[p]["main"] # Idle /\ at'[p]["main"].op = LastCall(p)
                                /\ \A u \in Thread(p) : u # "main" => at'[p][u] = Idle
      BY <1>3, <2>2, Idles
    <3> QED BY <3>1, <1>2, <2>1, <2>5, <1>11 DEF ProcInv, Kept, AtEnd, LastCall
  <2> QED BY <1>2, <1>6, <1>11, <2>1, <2>3, <2>4, <2>6, <2>7 DEF ProcInv, Silent, Kept
<1> QED BY <1>1, <1>9, <1>10, <1>11

LEMMA OwnLock ==
  ASSUME Types, TypeOK, NEW p \in Proc, ProcInv(p), NEW t \in Thread(p), FileLock(p, t)
  PROVE  ProcInv(p)'
<1>1. PICK w : /\ w \in Seq(Piece) /\ Laid(w, mem[p].cur, at[p][t].op \in Format)
               /\ Calls1(p, t, [at[p][t] EXCEPT !.pc = "write", !.todo = w])
  BY LockStep
<1>2. UNCHANGED <<life, mem, file, events, spoiled>> /\ at[p][t].pc = "FileLock"
  BY LockStep
<1>3. /\ at[p][t] # Idle /\ mem[p].lock = t /\ life[p] \in {"running", "ending"}
      /\ \A u \in Thread(p) : u # t => at[p][u] = Idle
      /\ \A u \in Thread(p) : at[p][u].pc # "write"
      /\ life[p] = "ending" => t = "main" /\ at[p][t].op = LastCall(p)
  BY <1>2, InBody
<1>4. mem[p] \in Memory /\ at[p][t] \in AtCall
  BY DEF TypeOK
<1>5. /\ at'[p][t].pc = "write" /\ at'[p][t].op = at[p][t].op /\ at'[p][t].todo = w
      /\ \A u \in Thread(p) : u # t => at'[p][u] = Idle
  BY <1>1, <1>3, <1>4 DEF Calls1, AtCall
<1>6. Silent(p)
  BY <1>2 DEF Silent
<1>7. Calling(p)'
  BY <1>2, <1>3, <1>5 DEF ProcInv, Calling, OneCall
<1>8. Flags(p)'
  <2>1. Closing(p)' = Closing(p)
    BY <1>2, <1>3, <1>5, Idles DEF Closing
  <2> QED BY <2>1, <1>2 DEF ProcInv, Flags
<1>9. Buffer(p)' /\ Own(p)' /\ Present(p)'
  BY <1>2, <1>3, <1>6, SilentBuffer, SilentPresent DEF ProcInv, Kept
<1>10. Covered(p)'
  <2>1. ASSUME NEW u \in Thread(p), Writing(p, u)', NEW i \in DOMAIN mem[p].cur
        PROVE  \E k \in DOMAIN at'[p][u].todo : at'[p][u].todo[k] = [of |-> mem[p].cur[i], part |-> 2]
    <3>1. u = t /\ at[p][t].op \notin Format
      BY <2>1, <1>5, Idles DEF Writing
    <3> QED BY <2>1, <3>1, <1>1, <1>5 DEF Laid
  <2> QED BY <2>1, <1>2 DEF Covered
<1>11. AtEnd(p)'
  <2>1. life[p] = "ending" => /\ at'[p]["main"] # Idle /\ at'[p]["main"].op = LastCall(p)
                              /\ \A u \in Thread(p) : u # "main" => at'[p][u] = Idle
    BY <1>3, <1>5, Idles
  <2> QED BY <2>1, <1>2 DEF ProcInv, Kept, AtEnd
<1>12. NoneTwice(p)'
  BY <1>2 DEF ProcInv, Once, NoneTwice, Recorder
<1>13. \A of, part : Wrote(p, of, part)' = Wrote(p, of, part)
  BY <1>2 DEF Wrote
<1>14. \A u \in Thread(p) : ~Writing(p, u)
  BY <1>3 DEF Writing
<1>15. Unwritten(p)'
  BY <1>2, <1>13, <1>14 DEF ProcInv, Once, Unwritten
<1>16. ToDo(p)'
  <2>1. ASSUME NEW k \in DOMAIN w, w[k].of > 0
        PROVE  /\ at[p][t].op \notin Format /\ \E i \in DOMAIN mem[p].cur : mem[p].cur[i] = w[k].of
               /\ ~Wrote(p, w[k].of, w[k].part)
    <3>1. at[p][t].op \notin Format /\ \E i \in DOMAIN mem[p].cur : mem[p].cur[i] = w[k].of
      BY <2>1, <1>1 DEF Laid
    <3>2. w[k].part \in {1, 2}
      <4>1. w[k] \in Piece
        BY <1>1, <2>1, Elements
      <4> QED BY <4>1 DEF Piece
    <3> QED BY <3>1, <3>2, <1>14 DEF ProcInv, Once, Unwritten
  <2>2. ASSUME NEW k \in DOMAIN w, NEW l \in DOMAIN w, k < l, w[k].of > 0 PROVE w[k] # w[l]
    <3>1. \A i, j \in DOMAIN mem[p].cur : i < j => mem[p].cur[i] < mem[p].cur[j]
      BY DEF ProcInv, Buffer
    <3> QED BY <2>2, <3>1, <1>1 DEF Laid
  <2>3. \A u \in Thread(p) : at'[p][u].pc = "write" => u = t
    BY <1>5, Idles
  <2> QED BY <2>1, <2>2, <2>3, <1>2, <1>5, <1>13 DEF ToDo
<1> QED BY <1>7, <1>8, <1>9, <1>10, <1>11, <1>12, <1>15, <1>16 DEF ProcInv, Kept, Once

\* What a thread that writes is bound to.
LEMMA InWrite ==
  ASSUME TypeOK, NEW p \in Proc, ProcInv(p), NEW t \in Thread(p), at[p][t].pc = "write"
  PROVE  /\ at[p][t] # Idle /\ mem[p].lock = t /\ life[p] \in {"running", "ending"}
         /\ \A u \in Thread(p) : u # t => at[p][u] = Idle
         /\ life[p] = "ending" => t = "main" /\ at[p][t].op = LastCall(p)
         /\ at[p][t].op \notin {"none", "add"} /\ mem[p].open
         /\ at[p][t].op = "disable" <=> ~mem[p].enabled
         /\ at[p][t].op # "flush" => mem[p].allowed
<1>1. at[p][t] # Idle
  BY Idles
<1>2. /\ mem[p].lock = t /\ life[p] \in {"running", "ending"}
      /\ \A u \in Thread(p) : u # t => at[p][u] = Idle
  BY <1>1, Alike DEF ProcInv, Calling, OneCall
<1>3. life[p] = "ending" => t = "main" /\ at[p][t].op = LastCall(p)
  BY <1>1 DEF ProcInv, Kept, AtEnd
<1>4. /\ at[p][t].op \notin {"none", "add"} /\ mem[p].open
      /\ at[p][t].op = "disable" <=> ~mem[p].enabled
      /\ at[p][t].op # "flush" => mem[p].allowed
  BY <1>1 DEF ProcInv, Calling, OneCall
<1> QED BY <1>1, <1>2, <1>3, <1>4

LEMMA SamePiece == \A a, b \in Piece : a.of = b.of /\ a.part = b.part => a = b
BY DEF Piece

LEMMA TailOf ==
  ASSUME NEW S, NEW s \in Seq(S), s # << >>
  PROVE  /\ 1 \in DOMAIN s /\ s[1] \in S /\ DOMAIN Tail(s) \subseteq Nat
         /\ \A k \in DOMAIN Tail(s) : k + 1 \in DOMAIN s /\ 1 < k + 1 /\ Tail(s)[k] = s[k + 1]
         /\ \A k \in DOMAIN s : k = 1 \/ (k - 1 \in DOMAIN Tail(s) /\ Tail(s)[k - 1] = s[k])
<1>1. Len(s) \in Nat /\ DOMAIN s = 1 .. Len(s) /\ Len(s) # 0
  OBVIOUS
<1>2. DOMAIN Tail(s) = 1 .. (Len(s) - 1) /\ \A k \in 1 .. (Len(s) - 1) : Tail(s)[k] = s[k + 1]
  BY <1>1
<1>3. \A k \in DOMAIN s : k = 1 \/ (k - 1 \in 1 .. (Len(s) - 1) /\ (k - 1) + 1 = k)
  BY <1>1
<1>4. \A k \in DOMAIN s : k = 1 \/ (k - 1 \in DOMAIN Tail(s) /\ Tail(s)[k - 1] = s[k])
  BY <1>2, <1>3
<1>5. \A k \in DOMAIN Tail(s) : k \in Nat /\ k + 1 \in DOMAIN s /\ 1 < k + 1
  BY <1>1, <1>2
<1>6. 1 \in DOMAIN s /\ s[1] \in S
  BY <1>1
<1> QED BY <1>2, <1>4, <1>5, <1>6

LEMMA OwnWrite ==
  ASSUME Types, TypeOK, Entries, NEW p \in Proc, ProcInv(p), NEW t \in Thread(p), Write(p, t)
  PROVE  ProcInv(p)'
<1> DEFINE todo == at[p][t].todo
           x == [of |-> todo[1].of, part |-> todo[1].part, by |-> p]
<1>1. /\ UNCHANGED <<life, mem, events, spoiled>>
      /\ at[p][t].pc = "write" /\ todo \in Seq(Piece) /\ todo # << >>
      /\ file' = Append(file, x) /\ Calls1(p, t, [at[p][t] EXCEPT !.todo = Tail(todo)])
  BY WriteStep
<1>2. /\ at[p][t] # Idle /\ mem[p].lock = t /\ life[p] \in {"running", "ending"}
      /\ \A u \in Thread(p) : u # t => at[p][u] = Idle
      /\ life[p] = "ending" => t = "main" /\ at[p][t].op = LastCall(p)
  BY <1>1, InWrite
<1>3. mem[p] \in Memory /\ at[p][t] \in AtCall
  BY DEF TypeOK
<1>4. /\ at'[p][t].pc = "write" /\ at'[p][t].op = at[p][t].op /\ at'[p][t].todo = Tail(todo)
      /\ \A u \in Thread(p) : u # t => at'[p][u] = Idle
  BY <1>1, <1>2, <1>3 DEF Calls1, AtCall
<1>5. /\ 1 \in DOMAIN todo /\ todo[1] \in Piece
      /\ DOMAIN Tail(todo) \subseteq Nat
      /\ \A k \in DOMAIN Tail(todo) : k + 1 \in DOMAIN todo /\ 1 < k + 1 /\ Tail(todo)[k] = todo[k + 1]
      /\ \A k \in DOMAIN todo : k = 1 \/ (k - 1 \in DOMAIN Tail(todo) /\ Tail(todo)[k - 1] = todo[k])
  BY <1>1, TailOf
<1>6. /\ \A j \in DOMAIN file : j \in DOMAIN file' /\ file'[j] = file[j]
      /\ \A j \in DOMAIN file' : j \in DOMAIN file \/ (j = Len(file) + 1 /\ file'[j] = x)
      /\ Len(file) + 1 \in DOMAIN file' /\ file'[Len(file) + 1] = x
      /\ DOMAIN file = 1 .. Len(file) /\ DOMAIN file' = 1 .. (Len(file) + 1) /\ Len(file) \in Nat
  <2>1. file \in Seq([of : Int, part : {1, 2}, by : Proc]) /\ x \in [of : Int, part : {1, 2}, by : Proc]
    BY <1>5 DEF TypeOK, Piece
  <2> HIDE DEF x
  <2> QED BY <1>1, <2>1
<1>7. \A e : InFile(e) => InFile(e)'
  BY <1>6 DEF InFile
<1>8. Calling(p)'
  BY <1>1, <1>2, <1>4 DEF ProcInv, Calling, OneCall
<1>9. Flags(p)'
  <2>1. Closing(p)' = Closing(p)
    BY <1>1, <1>2, <1>4, Idles DEF Closing
  <2> QED BY <2>1, <1>1 DEF ProcInv, Flags
<1>10. Buffer(p)'
  BY <1>1 DEF ProcInv, Buffer, Recorder
<1>11. Present(p)'
  BY <1>1, <1>7 DEF ProcInv, Kept, Present, Recorder
<1>12. Covered(p)'
  <2>1. ASSUME NEW i \in DOMAIN mem[p].cur, Writing(p, t)
        PROVE  \/ InFile(mem[p].cur[i])'
               \/ \E k \in DOMAIN Tail(todo) : Tail(todo)[k] = [of |-> mem[p].cur[i], part |-> 2]
    <3>1. CASE InFile(mem[p].cur[i])
      BY <3>1, <1>1, <1>6 DEF InFile
    <3>2. ASSUME NEW k \in DOMAIN todo, todo[k] = [of |-> mem[p].cur[i], part |-> 2]
          PROVE  \/ InFile(mem[p].cur[i])'
                 \/ \E l \in DOMAIN Tail(todo) : Tail(todo)[l] = [of |-> mem[p].cur[i], part |-> 2]
      <4>1. CASE k = 1
        <5>1. x.of = mem[p].cur[i] /\ x.part = 2
          BY <4>1, <3>2
        <5> QED BY <5>1, <1>1, <1>6 DEF InFile
      <4>2. CASE k # 1
        <5>1. k - 1 \in DOMAIN Tail(todo) /\ Tail(todo)[k - 1] = todo[k]
          BY <4>2, <1>5
        <5> QED BY <5>1, <3>2
      <4> QED BY <4>1, <4>2
    <3> QED BY <2>1, <3>1, <3>2 DEF ProcInv, Kept, Covered
  <2>2. \A u \in Thread(p) : Writing(p, u)' => u = t /\ Writing(p, t)
    BY <1>1, <1>4, Idles DEF Writing
  <2> HIDE DEF todo, x
  <2> QED BY <2>1, <2>2, <1>1, <1>4 DEF Covered, InFile
<1>13. AtEnd(p)'
  <2>1. life[p] = "ending" => /\ at'[p]["main"] # Idle /\ at'[p]["main"].op = LastCall(p)
                              /\ \A u \in Thread(p) : u # "main" => at'[p][u] = Idle
    BY <1>2, <1>4, Idles
  <2> QED BY <2>1, <1>1 DEF ProcInv, Kept, AtEnd
<1>14. ToDo(p)
  BY DEF ProcInv, Once
<1>15. NoneTwice(p)'
  <2>1. ASSUME x.of > 0, NEW i \in DOMAIN file PROVE file[i] # x
    <3>1. ~Wrote(p, x.of, x.part)
      BY <2>1, <1>1, <1>5, <1>14 DEF ToDo
    <3> QED BY <3>1 DEF Wrote
  <2>2. ASSUME NEW i \in DOMAIN file', NEW j \in DOMAIN file', i < j, file'[j].of > 0, file'[j].by = p
        PROVE  file'[i] # file'[j]
    <3>1. CASE j \in DOMAIN file
      <4>1. i \in DOMAIN file /\ file'[i] = file[i] /\ file'[j] = file[j]
        BY <2>2, <3>1, <1>6
      <4> QED BY <2>2, <3>1, <4>1 DEF ProcInv, Once, NoneTwice, Recorder
    <3>2. CASE j = Len(file) + 1
      <4>1. i \in DOMAIN file /\ file'[i] = file[i] /\ file'[j] = x
        BY <2>2, <3>2, <1>6
      <4> HIDE DEF x
      <4> QED BY <2>1, <2>2, <4>1
    <3> QED BY <3>1, <3>2, <1>6
  <2> QED BY <2>2, <1>1 DEF NoneTwice, Recorder
<1>16. Unwritten(p)'
  <2>1. ASSUME \A u \in Thread(p) : ~Writing(p, u)', NEW i \in DOMAIN mem[p].cur,
               NEW part \in {1, 2}, NEW j \in DOMAIN file', file'[j] = [of |-> mem[p].cur[i], part |-> part, by |-> p]
        PROVE  FALSE
    <3>1. \A u \in Thread(p) : ~Writing(p, u)
      BY <2>1, <1>1, <1>2, <1>4, Idles DEF Writing
    <3>2. at[p][t].op \in Format
      BY <1>1, <3>1 DEF Writing
    <3>3. ~(todo[1].of > 0)
      BY <3>2, <1>1, <1>5, <1>14 DEF ToDo
    <3>4. mem[p].cur[i] > 0
      <4>1. mem[p].cur[i] \in DOMAIN events
        BY DEF ProcInv, Buffer
      <4>2. DOMAIN events \subseteq Nat \ {0}
        BY DEF TypeOK
      <4> QED BY <4>1, <4>2
    <3>5. j \in DOMAIN file /\ file'[j] = file[j]
      <4>1. file'[j].of = mem[p].cur[i]
        BY <2>1
      <4> QED BY <4>1, <3>3, <3>4, <1>6
    <3> QED BY <2>1, <3>1, <3>5 DEF ProcInv, Once, Unwritten, Wrote
  <2> QED BY <2>1, <1>1 DEF Unwritten, Wrote
<1>17. ToDo(p)'
  <2>1. ASSUME NEW k \in DOMAIN Tail(todo), Tail(todo)[k].of > 0
        PROVE  /\ at[p][t].op \notin Format
               /\ \E i \in DOMAIN mem[p].cur : mem[p].cur[i] = Tail(todo)[k].of
               /\ \A j \in DOMAIN file' :
                    file'[j] # [of |-> Tail(todo)[k].of, part |-> Tail(todo)[k].part, by |-> p]
    <3>1. k + 1 \in DOMAIN todo /\ Tail(todo)[k] = todo[k + 1] /\ todo[k + 1].of > 0 /\ 1 < k + 1
      BY <2>1, <1>5
    <3>2. /\ at[p][t].op \notin Format /\ \E i \in DOMAIN mem[p].cur : mem[p].cur[i] = todo[k + 1].of
          /\ ~Wrote(p, todo[k + 1].of, todo[k + 1].part)
      BY <3>1, <1>1, <1>14 DEF ToDo
    <3>3. ~(todo[1].of = todo[k + 1].of /\ todo[1].part = todo[k + 1].part)
      <4>1. todo[k + 1] \in Piece
        BY <3>1, <1>1, Elements
      <4>2. ASSUME todo[1].of = todo[k + 1].of, todo[1].part = todo[k + 1].part PROVE FALSE
        <5>1. todo[1] = todo[k + 1]
          <6>1. todo[1] \in Piece
            BY <1>5
          <6> QED BY <6>1, <4>1, <4>2, SamePiece
        <5> QED BY <5>1, <3>1, <1>1, <1>5, <1>14 DEF ToDo
      <4> QED BY <4>2
    <3>4. ASSUME NEW j \in DOMAIN file', file'[j] = [of |-> todo[k + 1].of, part |-> todo[k + 1].part, by |-> p]
          PROVE  j \in DOMAIN file /\ file'[j] = file[j]
      <4>1. file'[j].of = todo[k + 1].of /\ file'[j].part = todo[k + 1].part
        BY <3>4
      <4>2. file'[j] # x
        BY <4>1, <3>3
      <4> HIDE DEF x
      <4> QED BY <4>2, <1>6
    <3> QED BY <3>1, <3>2, <3>4 DEF Wrote
  <2>2. ASSUME NEW k \in DOMAIN Tail(todo), NEW l \in DOMAIN Tail(todo), k < l, Tail(todo)[k].of > 0
        PROVE  Tail(todo)[k] # Tail(todo)[l]
    <3>1. k + 1 < l + 1
      BY <2>2, <1>5
    <3> QED BY <2>2, <3>1, <1>1, <1>5, <1>14 DEF ToDo
  <2>3. \A u \in Thread(p) : at'[p][u].pc = "write" => u = t
    BY <1>4, Idles
  <2>4. mem' = mem /\ at'[p][t].op = at[p][t].op /\ at'[p][t].todo = Tail(todo)
    BY <1>1, <1>4
  <2> HIDE DEF todo, x
  <2>5. /\ \A k \in DOMAIN at'[p][t].todo : at'[p][t].todo[k].of > 0 =>
             /\ at'[p][t].op \notin Format
             /\ \E i \in DOMAIN mem'[p].cur : mem'[p].cur[i] = at'[p][t].todo[k].of
             /\ \A j \in DOMAIN file' :
                  file'[j] # [of |-> at'[p][t].todo[k].of, part |-> at'[p][t].todo[k].part, by |-> p]
        /\ \A k, l \in DOMAIN at'[p][t].todo : k < l /\ at'[p][t].todo[k].of > 0
              => at'[p][t].todo[k] # at'[p][t].todo[l]
    BY <2>1, <2>2, <2>4
  <2> QED BY <2>3, <2>5 DEF ToDo, Wrote
<1>18. Own(p)'
  <2>1. ASSUME x.of > 0 PROVE events[x.of][1] \in Sources(p)
    <3>1. PICK k \in DOMAIN mem[p].cur : mem[p].cur[k] = x.of
      BY <2>1, <1>1, <1>5, <1>14 DEF ToDo
    <3> QED BY <3>1 DEF ProcInv, Own, Recorder
  <2> HIDE DEF x
  <2> QED BY <2>1, <1>1, <1>2, <1>6 DEF ProcInv, Own, Recorder, Sources
<1> QED BY <1>8, <1>9, <1>10, <1>11, <1>12, <1>13, <1>15, <1>16, <1>17, <1>18 DEF ProcInv, Kept, Once

LEMMA OwnWritten ==
  ASSUME Types, TypeOK, NEW p \in Proc, ProcInv(p), NEW t \in Thread(p), Written(p, t)
  PROVE  ProcInv(p)'
<1>1. /\ UNCHANGED <<life, file, events, spoiled>>
      /\ at[p][t].pc = "write" /\ at[p][t].todo = << >> /\ Calls1(p, t, Idle)
  BY WrittenStep
<1>2. PICK m \in Memory :
        /\ Mem1(p, m)
        /\ m = [Released(mem[p]) EXCEPT
                  !.cur  = IF at[p][t].op \in Format THEN mem[p].cur ELSE << >>,
                  !.open = at[p][t].op # "disable",
                  !.shim = IF at[p][t].op = "flush" THEN mem[p].shim ELSE at[p][t].op # "disable"]
  BY WrittenStep
<1>3. /\ at[p][t] # Idle /\ life[p] \in {"running", "ending"}
      /\ \A u \in Thread(p) : u # t => at[p][u] = Idle
      /\ life[p] = "ending" => t = "main" /\ at[p][t].op = LastCall(p)
      /\ mem[p].open
      /\ at[p][t].op = "disable" <=> ~mem[p].enabled
      /\ at[p][t].op # "flush" => mem[p].allowed
  BY <1>1, InWrite
<1>4. mem[p] \in Memory
  BY DEF TypeOK
<1>5. /\ mem'[p].cur = (IF at[p][t].op \in Format THEN mem[p].cur ELSE << >>)
      /\ mem'[p].open = (at[p][t].op # "disable")
      /\ mem'[p].shim = (IF at[p][t].op = "flush" THEN mem[p].shim ELSE at[p][t].op # "disable")
      /\ mem'[p].registered = mem[p].registered /\ mem'[p].enabled = mem[p].enabled
      /\ mem'[p].allowed = mem[p].allowed
  BY <1>2, <1>4 DEF Memory, Released, Mem1
<1>6. \A u \in Thread(p) : at'[p][u] = Idle /\ at'[p][u].pc = "none"
  BY <1>1, <1>3, Idles DEF Calls1
<1>7. Calling(p)'
  BY <1>6 DEF Calling, OneCall
<1>8. Flags(p)'
  <2>1. CASE at[p][t].op = "disable"
    <3>1. ~mem'[p].enabled /\ ~mem'[p].open /\ ~mem'[p].shim /\ mem'[p].cur = << >>
      BY <2>1, <1>3, <1>5 DEF Format
    <3> QED BY <2>1, <3>1, <1>1, <1>5 DEF ProcInv, Flags
  <2>2. CASE at[p][t].op # "disable"
    <3>1. mem'[p].enabled /\ mem'[p].open
      BY <2>2, <1>3, <1>5
    <3> QED BY <2>2, <3>1, <1>1, <1>5 DEF ProcInv, Flags
  <2> QED BY <2>1, <2>2
<1>9. CASE at[p][t].op \in Format
  <2>1. mem'[p].cur = mem[p].cur /\ \A u \in Thread(p) : ~Writing(p, u)
    BY <1>3, <1>5, <1>9, Idles DEF Writing
  <2>2. Silent(p)
    BY <2>1, <1>1, <1>5 DEF Silent
  <2>3. Buffer(p)' /\ Own(p)' /\ Present(p)'
    BY <2>2, <1>1, <1>3, SilentBuffer, SilentPresent DEF ProcInv, Kept
  <2>4. NoneTwice(p)'
    BY <1>1 DEF ProcInv, Once, NoneTwice, Recorder
  <2>5. Unwritten(p)'
    <3>1. \A of, part : Wrote(p, of, part)' = Wrote(p, of, part)
      BY <1>1 DEF Wrote
    <3> QED BY <2>1, <3>1, <1>5 DEF ProcInv, Once, Unwritten
  <2>6. ToDo(p)' /\ Covered(p)'
    BY <1>6 DEF ToDo, Covered, Writing
  <2>7. AtEnd(p)'
    BY <1>1, <1>3, <1>9 DEF AtEnd, LastCall, Format
  <2> QED BY <2>3, <2>4, <2>5, <2>6, <2>7, <1>7, <1>8 DEF ProcInv, Kept, Once
<1>10. CASE at[p][t].op \notin Format
  <2>1. mem'[p].cur = << >> /\ Writing(p, t) /\ DOMAIN mem'[p].cur = {}
    BY <1>1, <1>5, <1>10 DEF Writing
  <2>2. Buffer(p)'
    <3>1. \A e \in DOMAIN events' : Recorder(e)' = p =>
            life'[p] # "unborn" /\ (mem'[p].registered \/ life'[p] = "gone")
      BY <1>1, <1>5 DEF ProcInv, Buffer, Recorder
    <3> QED BY <2>1, <3>1 DEF Buffer, Recorder
  <2>3. \A i \in DOMAIN mem[p].cur : InFile(mem[p].cur[i])
    <3>1. \A i \in DOMAIN mem[p].cur :
            \/ InFile(mem[p].cur[i])
            \/ \E k \in DOMAIN at[p][t].todo : at[p][t].todo[k] = [of |-> mem[p].cur[i], part |-> 2]
      BY <2>1 DEF ProcInv, Kept, Covered
    <3>2. DOMAIN at[p][t].todo = {}
      BY <1>1
    <3> QED BY <3>1, <3>2
  <2>4. Present(p)'
    <3>1. \A e \in DOMAIN events : (p \notin spoiled /\ Recorder(e) = p) => InFile(e)
      BY <2>3 DEF ProcInv, Kept, Present
    <3> QED BY <3>1, <1>1 DEF Present, InFile, Recorder
  <2>5. NoneTwice(p)'
    BY <1>1 DEF ProcInv, Once, NoneTwice, Recorder
  <2>6. Unwritten(p)'
    BY <2>1 DEF Unwritten
  <2>7. ToDo(p)' /\ Covered(p)'
    BY <1>6 DEF ToDo, Covered, Writing
  <2>8. AtEnd(p)'
    <3>1. "main" \in Thread(p)
      BY Threads
    <3>2. life[p] = "ending" /\ p \in Child => mem[p].enabled
      BY DEF ProcInv, Kept, AtEnd
    <3> QED BY <3>1, <3>2, <2>1, <1>1, <1>5, <1>6 DEF AtEnd
  <2>9. Own(p)'
    BY <2>1, <1>1 DEF ProcInv, Own, Recorder, Sources
  <2> QED BY <2>2, <2>4, <2>5, <2>6, <2>7, <2>8, <2>9, <1>7, <1>8 DEF ProcInv, Kept, Once
<1> QED BY <1>9, <1>10

LEMMA OwnFork ==
  ASSUME Types, TypeOK, Entries, NEW p \in Proc, ProcInv(p), NEW t \in Thread(p), NEW c \in Child,
         Fork(p, t, c), ProcInv(c)
  PROVE  ProcInv(c)'
<1>1. /\ UNCHANGED <<at, file, flock, events, spoiled>>
      /\ c \in Proc /\ life[c] = "unborn" /\ mem[p].shim
      /\ life' = [life EXCEPT ![c] = "running"]
      /\ Mem1(c, [mem[p] EXCEPT !.allowed = FALSE, !.registered = FALSE])
  BY ForkStep
<1>2. c \notin Program /\ mem[p] \in Memory
  BY DEF Types, TypeOK
<1>3. life'[c] = "running"
  BY <1>1 DEF TypeOK
<1>4. /\ mem'[c].cur = mem[p].cur /\ mem'[c].registered = FALSE /\ mem'[c].enabled = mem[p].enabled
      /\ mem'[c].open = mem[p].open /\ mem'[c].allowed = FALSE
  BY <1>1, <1>2 DEF Memory, Mem1
<1>5. \A u \in Thread(c) : at'[c][u] = Idle /\ at'[c][u].pc = "none"
  BY <1>1, Idles DEF ProcInv, Calling, OneCall
<1>6. \A e \in DOMAIN events : Recorder(e) # c
  BY <1>1 DEF ProcInv, Buffer
<1>7. Calling(c)' /\ AtEnd(c)' /\ Covered(c)' /\ ToDo(c)'
  BY <1>3, <1>5 DEF Calling, OneCall, AtEnd, Covered, ToDo, Writing
<1>8. Flags(c)'
  BY <1>1, <1>2, <1>4 DEF ProcInv, Flags
<1>9. Buffer(c)'
  <2>1. /\ \A i \in DOMAIN mem[p].cur : mem[p].cur[i] \in DOMAIN events
        /\ \A i, j \in DOMAIN mem[p].cur : i < j => mem[p].cur[i] < mem[p].cur[j]
    BY DEF ProcInv, Buffer
  <2> QED BY <2>1, <1>1, <1>2, <1>4, <1>6 DEF Buffer, Recorder
<1>10. Present(c)'
  BY <1>1, <1>6 DEF Present, Recorder
<1>11. \A j \in DOMAIN file : file[j].by # c
  BY <1>1 DEF ProcInv, Own
<1>12. NoneTwice(c)' /\ Unwritten(c)'
  BY <1>1, <1>11 DEF NoneTwice, Unwritten, Wrote
<1>13. Own(c)'
  <2>1. p = Forker /\ p \notin Child
    BY DEF Fork, Types
  <2> QED BY <2>1, <1>1, <1>4, <1>11 DEF ProcInv, Own, Recorder, Sources
<1> QED BY <1>7, <1>8, <1>9, <1>10, <1>12, <1>13 DEF ProcInv, Kept, Once

\* A process that is gone has lost nothing that it should have written.
LEMMA OwnDead ==
  ASSUME TypeOK, NEW p \in Proc, ProcInv(p), life[p] # "unborn", Dead(p), UNCHANGED <<file, events>>,
         \A u \in Thread(p) : at'[p][u] = Idle,
         \A e \in DOMAIN events : (p \notin spoiled' /\ Recorder(e) = p) => InFile(e)
  PROVE  ProcInv(p)'
<1>1. mem'[p] = NewMem /\ life'[p] = "gone"
  BY DeadStep DEF Mem1, TypeOK
<1>2. /\ mem'[p].cur = << >> /\ DOMAIN mem'[p].cur = {} /\ ~mem'[p].registered /\ ~mem'[p].enabled
      /\ ~mem'[p].open /\ ~mem'[p].shim /\ mem'[p].allowed
  BY <1>1, Fresh
<1>3. \A u \in Thread(p) : at'[p][u].pc = "none"
  BY Idles
<1>4. Calling(p)' /\ AtEnd(p)' /\ Covered(p)' /\ ToDo(p)'
  BY <1>1, <1>3 DEF Calling, OneCall, AtEnd, Covered, ToDo, Writing
<1>5. Flags(p)'
  BY <1>1, <1>2 DEF Flags
<1>6. Buffer(p)'
  BY <1>1, <1>2 DEF Buffer
<1>7. Present(p)'
  BY DEF Present, Recorder, InFile
<1>8. NoneTwice(p)' /\ Unwritten(p)'
  BY <1>2 DEF ProcInv, Once, NoneTwice, Unwritten, Recorder
<1>9. Own(p)'
  BY <1>1, <1>2 DEF ProcInv, Own, Recorder, Sources
<1> QED BY <1>4, <1>5, <1>6, <1>7, <1>8, <1>9 DEF ProcInv, Kept, Once
-------------------------------------------------------------------------------
(* The file                                                                    *)

LEMMA EntriesStay ==
  ASSUME TypeOK, TypeOK', Entries, file' = file,
         events' = events \/ Len(events') = Len(events) + 1
  PROVE  Entries'
<1>1. Len(events) \in Nat
  BY DEF TypeOK
<1>2. \A j \in DOMAIN file : file[j].of \in Int
  <2>1. file \in Seq([of : Int, part : {1, 2}, by : Proc])
    BY DEF TypeOK
  <2>2. \A j \in DOMAIN file : file[j] \in [of : Int, part : {1, 2}, by : Proc]
    BY <2>1, Elements
  <2> QED BY <2>2
<1> QED BY <1>1, <1>2 DEF Entries

LEMMA EntriesWritten ==
  ASSUME TypeOK, Entries, NEW p \in Proc, ProcInv(p), NEW t \in Thread(p), Write(p, t)
  PROVE  Entries'
<1> DEFINE x == [of |-> at[p][t].todo[1].of, part |-> at[p][t].todo[1].part, by |-> p]
<1>1. /\ UNCHANGED events /\ at[p][t].pc = "write" /\ at[p][t].todo \in Seq(Piece)
      /\ at[p][t].todo # << >> /\ file' = Append(file, x)
  BY WriteStep
<1>2. 1 \in DOMAIN at[p][t].todo /\ at[p][t].todo[1] \in Piece
  BY <1>1, TailOf
<1>3. /\ Len(events) \in Nat /\ DOMAIN events = 1 .. Len(events)
      /\ file \in Seq([of : Int, part : {1, 2}, by : Proc]) /\ x \in [of : Int, part : {1, 2}, by : Proc]
  BY <1>2 DEF TypeOK, Piece
<1>4. x.of <= Len(events)
  <2>1. CASE at[p][t].todo[1].of > 0
    <3>1. PICK i \in DOMAIN mem[p].cur : mem[p].cur[i] = x.of
      BY <2>1, <1>1, <1>2 DEF ProcInv, Once, ToDo
    <3>2. mem[p].cur[i] \in DOMAIN events
      BY DEF ProcInv, Buffer
    <3> HIDE DEF x
    <3> QED BY <3>1, <3>2, <1>3
  <2>2. CASE ~(at[p][t].todo[1].of > 0)
    <3>1. x.of \in Int /\ ~(x.of > 0)
      BY <2>2, <1>2 DEF Piece
    <3> QED BY <3>1, <1>3
  <2> QED BY <2>1, <2>2
<1> HIDE DEF x
<1>5. \A j \in DOMAIN file' : (j \in DOMAIN file /\ file'[j] = file[j]) \/ file'[j] = x
  BY <1>1, <1>3, Appends
<1> QED BY <1>1, <1>4, <1>5 DEF Entries

\* A step that opens nothing.
LEMMA NumberedStays ==
  ASSUME TypeOK, Numbered, calls' \in {calls, calls + 1},
         \A q \in Program : \/ mem'[q].open = mem[q].open /\ desc'[q] = desc[q]
                            \/ ~mem'[q].open /\ desc'[q] = 0,
         \A q \in Program : \A u \in Thread(q) : Opens(q, u)' => Opens(q, u) /\ at'[q][u].no = at[q][u].no
  PROVE  Numbered'
<1>1. /\ calls \in Nat /\ calls <= calls' /\ calls' \in Nat
      /\ \A q \in Program : desc[q] \in Nat /\ (desc'[q] = desc[q] \/ desc'[q] = 0)
  BY DEF TypeOK, Proc
<1>2. \A q \in Program : (mem'[q].open <=> desc'[q] # 0) /\ desc'[q] <= calls'
  BY <1>1 DEF Numbered
<1>3. \A q, r \in Program : q # r /\ desc'[q] # 0 => desc'[q] # desc'[r]
  BY <1>1 DEF Numbered
<1>4. \A q \in Program : \A u \in Thread(q) : Opens(q, u)' =>
        /\ at'[q][u].no \in 1 .. calls'
        /\ \A r \in Program : desc'[r] # at'[q][u].no
        /\ \A r \in Program : \A v \in Thread(r) :
             (q # r \/ u # v) /\ Opens(r, v)' => at'[r][v].no # at'[q][u].no
  BY <1>1 DEF Numbered
<1> QED BY <1>2, <1>3, <1>4 DEF Numbered, Opens

\* The number of a new call is new.
LEMMA NumberedCall ==
  ASSUME TypeOK, Numbered, NEW p \in Proc, NEW t \in Thread(p), NEW op \in Ops, NEW no \in Nat,
         Calls1(p, t, NewCall(op, no)), calls' \in {calls, calls + 1},
         op \in Format => no = calls + 1 /\ calls' = calls + 1,
         UNCHANGED desc, \A q \in Program : mem'[q].open = mem[q].open
  PROVE  Numbered'
<1>1. /\ calls \in Nat /\ calls <= calls' /\ calls' \in Nat /\ \A q \in Program : desc[q] \in Nat
  BY DEF TypeOK, Proc
<1>2. at'[p][t].op = op /\ at'[p][t].no = no
  BY DEF Calls1, NewCall
<1>3. \A q \in Program : \A u \in Thread(q) : Opens(q, u)' =>
        \/ Opens(q, u) /\ at'[q][u].no = at[q][u].no
        \/ q = p /\ u = t /\ at'[q][u].no = calls + 1 /\ calls' = calls + 1
  <2>1. ASSUME NEW q \in Program, NEW u \in Thread(q), Opens(q, u)', ~(q = p /\ u = t)
        PROVE  Opens(q, u) /\ at'[q][u].no = at[q][u].no
    <3>1. at'[q][u] = at[q][u]
      BY <2>1 DEF Calls1, Proc
    <3> QED BY <2>1, <3>1 DEF Opens
  <2>2. ASSUME NEW q \in Program, NEW u \in Thread(q), Opens(q, u)', q = p /\ u = t
        PROVE  at'[q][u].no = calls + 1 /\ calls' = calls + 1
    BY <2>2, <1>2 DEF Opens
  <2> QED BY <2>1, <2>2
<1>4. \A q \in Program : (mem'[q].open <=> desc'[q] # 0) /\ desc'[q] <= calls'
  BY <1>1 DEF Numbered
<1>5. \A q, r \in Program : q # r /\ desc'[q] # 0 => desc'[q] # desc'[r]
  BY DEF Numbered
<1>6. \A q \in Program : \A u \in Thread(q) : Opens(q, u) =>
        /\ at[q][u].no \in 1 .. calls
        /\ \A r \in Program : desc[r] # at[q][u].no
        /\ \A r \in Program : \A v \in Thread(r) :
             (q # r \/ u # v) /\ Opens(r, v) => at[r][v].no # at[q][u].no
  BY DEF Numbered
<1>7. \A q \in Program : \A u \in Thread(q) : Opens(q, u)' =>
        /\ at'[q][u].no \in 1 .. calls'
        /\ \A r \in Program : desc'[r] # at'[q][u].no
  BY <1>1, <1>3, <1>6 DEF Numbered
<1>8. \A q \in Program : \A u \in Thread(q) : Opens(q, u)' =>
        \A r \in Program : \A v \in Thread(r) :
          (q # r \/ u # v) /\ Opens(r, v)' => at'[r][v].no # at'[q][u].no
  BY <1>1, <1>3, <1>6
<1> QED BY <1>4, <1>5, <1>7, <1>8 DEF Numbered, Opens

LEMMA NumberedEnable ==
  ASSUME TypeOK, Numbered, NEW p \in Proc, NEW t \in Thread(p), NEW m,
         Opens(p, t), Mem1(p, m), m.open = TRUE, UNCHANGED calls,
         Calls1(p, t, [at[p][t] EXCEPT !.pc = "FileLock"]), desc' = [desc EXCEPT ![p] = at[p][t].no]
  PROVE  Numbered'
<1>1. calls \in Nat /\ at[p][t] \in AtCall /\ at[p][t].no \in Nat /\ \A q \in Program : desc[q] \in Nat
  BY DEF TypeOK, Proc, AtCall
<1>2. at'[p][t].pc = "FileLock"
  BY <1>1 DEF Calls1, AtCall
<1>3. \A q \in Program : \A u \in Thread(q) : Opens(q, u)' =>
        Opens(q, u) /\ at'[q][u].no = at[q][u].no /\ ~(q = p /\ u = t)
  <2>1. ASSUME NEW q \in Program, NEW u \in Thread(q), Opens(q, u)'
        PROVE  Opens(q, u) /\ at'[q][u].no = at[q][u].no /\ ~(q = p /\ u = t)
    <3>1. ~(q = p /\ u = t)
      BY <2>1, <1>2 DEF Opens
    <3>2. at'[q][u] = at[q][u]
      BY <3>1 DEF Calls1, Proc
    <3> QED BY <2>1, <3>1, <3>2 DEF Opens
  <2> QED BY <2>1
<1>4. \A q \in Program : IF q = p THEN desc'[q] = at[p][t].no /\ mem'[q].open = TRUE
                                  ELSE desc'[q] = desc[q] /\ mem'[q].open = mem[q].open
  BY DEF TypeOK, Mem1, Proc
<1>5. \A q \in Program : \A u \in Thread(q) : Opens(q, u) =>
        /\ at[q][u].no \in 1 .. calls
        /\ \A r \in Program : desc[r] # at[q][u].no
        /\ \A r \in Program : \A v \in Thread(r) :
             (q # r \/ u # v) /\ Opens(r, v) => at[r][v].no # at[q][u].no
  BY DEF Numbered
<1>6. \A q \in Program : (mem'[q].open <=> desc'[q] # 0) /\ desc'[q] <= calls'
  BY <1>1, <1>4, <1>5 DEF Numbered
<1>7. \A q, r \in Program : q # r /\ desc'[q] # 0 => desc'[q] # desc'[r]
  BY <1>4, <1>5 DEF Numbered
<1>8. \A q \in Program : \A u \in Thread(q) : Opens(q, u)' =>
        /\ at'[q][u].no \in 1 .. calls'
        /\ \A r \in Program : desc'[r] # at'[q][u].no
  <2>1. ASSUME NEW q \in Program, NEW u \in Thread(q), Opens(q, u)', NEW r \in Program
        PROVE  at'[q][u].no \in 1 .. calls' /\ desc'[r] # at'[q][u].no
    <3>1. Opens(q, u) /\ at'[q][u].no = at[q][u].no /\ ~(q = p /\ u = t)
      BY <2>1, <1>3
    <3>2. p \in Program => at[p][t].no # at[q][u].no
      BY <3>1, <1>5
    <3> QED BY <3>1, <3>2, <1>4, <1>5
  <2> QED BY <2>1
<1>9. \A q \in Program : \A u \in Thread(q) : Opens(q, u)' =>
        \A r \in Program : \A v \in Thread(r) :
          (q # r \/ u # v) /\ Opens(r, v)' => at'[r][v].no # at'[q][u].no
  BY <1>3, <1>5
<1> QED BY <1>6, <1>7, <1>8, <1>9 DEF Numbered, Opens

\* What a writer with these pieces to write holds, where l has the lock of the file.
Holds(p, todo, l, d) ==
  /\ l = d /\ d # 0 /\ Tidy(todo) /\ Len(todo) % 2 = Len(file) % 2
  /\ Len(file) % 2 = 1 => /\ todo # << >> /\ file[Len(file)].by = p
                          /\ todo[1].of = file[Len(file)].of

\* Writers as they were, and what they hold.
LEMMA PairsStay ==
  ASSUME Pairs, file' = file,
         \A p \in Proc : \A t \in Thread(p) :
           /\ at'[p][t].pc = "write" => at[p][t].pc = "write"
           /\ at[p][t].pc = "write" => /\ at'[p][t] = at[p][t]
                                       /\ flock' = flock /\ desc'[p] = desc[p]
  PROVE  Pairs'
<1>1. /\ \A i \in DOMAIN file : file[i].part = IF i % 2 = 1 THEN 1 ELSE 2
      /\ \A i \in DOMAIN file : i % 2 = 0 => file[i].of = file[i - 1].of /\ file[i].by = file[i - 1].by
      /\ (\A p \in Proc : \A t \in Thread(p) : at[p][t].pc # "write") => Len(file) % 2 = 0
  BY DEF Pairs
<1>2. \A p \in Proc : \A t \in Thread(p) : at'[p][t].pc = "write" =>
        at[p][t].pc = "write" /\ at'[p][t] = at[p][t] /\ flock' = flock /\ desc'[p] = desc[p]
  OBVIOUS
<1>3. (\A p \in Proc : \A t \in Thread(p) : at'[p][t].pc # "write") => Len(file) % 2 = 0
  BY <1>1
<1>4. \A p \in Proc : \A t \in Thread(p) : at'[p][t].pc = "write" =>
       /\ flock' = desc'[p] /\ desc'[p] # 0
       /\ Tidy(at'[p][t].todo) /\ Len(at'[p][t].todo) % 2 = Len(file) % 2
       /\ Len(file) % 2 = 1 => /\ at'[p][t].todo # << >> /\ file[Len(file)].by = p
                               /\ at'[p][t].todo[1].of = file[Len(file)].of
  <2>1. ASSUME NEW p \in Proc, NEW t \in Thread(p), at'[p][t].pc = "write"
        PROVE  Holds(p, at'[p][t].todo, flock', desc'[p])
    <3>1. at[p][t].pc = "write" /\ at'[p][t] = at[p][t] /\ flock' = flock /\ desc'[p] = desc[p]
      BY <2>1, <1>2
    <3>2. Holds(p, at[p][t].todo, flock, desc[p])
      BY <3>1 DEF Pairs, Holds
    <3> QED BY <3>1, <3>2
  <2> QED BY <2>1 DEF Holds
<1> QED BY <1>1, <1>3, <1>4 DEF Pairs

\* Without forks only programs are in a call.
LEMMA WritersAre ==
  ASSUME TypeOK, Unforked, NEW p \in Proc, NEW t \in Thread(p), Calling(p), at[p][t] # Idle
  PROVE  p \in Program
BY DEF Calling, OneCall, Unforked, Proc

\* The lock of the file is for one writer.
LEMMA OneWriter ==
  ASSUME Types, TypeOK, Unforked, Pairs, Numbered, \A p \in Proc : Calling(p),
         NEW p \in Proc, NEW t \in Thread(p), at[p][t].pc \in {"FileLock", "write"}, flock \in {0, desc[p]},
         NEW q \in Proc, NEW u \in Thread(q), at[q][u].pc = "write"
  PROVE  q = p /\ u = t
<1>1. at[p][t] # Idle /\ at[q][u] # Idle
  BY Idles
<1>2. p \in Program /\ q \in Program
  BY <1>1, WritersAre
<1>3. flock = desc[q] /\ desc[q] # 0
  BY DEF Pairs
<1>4. q = p
  BY <1>2, <1>3 DEF Numbered
<1>5. u = t
  BY <1>1, <1>4 DEF Calling, OneCall
<1> QED BY <1>4, <1>5

LEMMA PairsLocked ==
  ASSUME Types, TypeOK, TypeOK', Unforked, Pairs, Numbered, \A q \in Proc : Calling(q),
         NEW p \in Proc, NEW t \in Thread(p), FileLock(p, t)
  PROVE  Pairs'
<1>1. PICK w : /\ w \in Seq(Piece) /\ Laid(w, mem[p].cur, at[p][t].op \in Format)
               /\ Calls1(p, t, [at[p][t] EXCEPT !.pc = "write", !.todo = w])
  BY LockStep
<1>2. /\ UNCHANGED <<mem, file, desc>> /\ at[p][t].pc = "FileLock"
      /\ flock \in {0, desc[p]} /\ flock' = desc[p]
  BY LockStep
<1>3. \A q \in Proc : \A u \in Thread(q) : at[q][u].pc # "write"
  BY <1>2, OneWriter
<1>4. at'[p][t].todo = w /\ \A q \in Proc : \A u \in Thread(q) : at'[q][u].pc = "write" => q = p /\ u = t
  <2>1. at[p][t] \in AtCall
    BY DEF TypeOK
  <2>2. at'[p][t].todo = w
    BY <1>1, <2>1 DEF Calls1, AtCall
  <2> QED BY <1>1, <1>3, <2>2 DEF Calls1
<1>5. desc[p] # 0
  <2>1. at[p][t] # Idle
    BY <1>2, Idles
  <2>2. p \in Program /\ mem[p].open
    BY <1>2, <2>1, WritersAre DEF Calling, OneCall
  <2> QED BY <2>2 DEF Numbered
<1>6. Len(file) % 2 = 0 /\ Len(w) % 2 = 0 /\ Tidy(w)
  BY <1>1, <1>3 DEF Pairs, Laid
<1>7. /\ \A i \in DOMAIN file : file[i].part = IF i % 2 = 1 THEN 1 ELSE 2
      /\ \A i \in DOMAIN file : i % 2 = 0 => file[i].of = file[i - 1].of /\ file[i].by = file[i - 1].by
  BY DEF Pairs
<1>8. /\ \A i \in DOMAIN file' : file'[i].part = IF i % 2 = 1 THEN 1 ELSE 2
      /\ \A i \in DOMAIN file' : i % 2 = 0 => file'[i].of = file'[i - 1].of /\ file'[i].by = file'[i - 1].by
      /\ Len(file') % 2 = 0
  BY <1>2, <1>6, <1>7
<1>9. Holds(p, w, desc[p], desc[p])
  BY <1>5, <1>6 DEF Holds
<1>10. \A q \in Proc : \A u \in Thread(q) : at'[q][u].pc = "write" =>
         Holds(q, at'[q][u].todo, flock', desc'[q])
  BY <1>2, <1>4, <1>9
<1>11. ~(\A q \in Proc : \A u \in Thread(q) : at'[q][u].pc # "write") \/ Len(file') % 2 = 0
  BY <1>8
<1> QED BY <1>2, <1>8, <1>10, <1>11 DEF Pairs, Holds

\* The next piece is the one the file waits for.
LEMMA PairsWritten ==
  ASSUME Types, TypeOK, TypeOK', Unforked, Pairs, Numbered, \A q \in Proc : Calling(q),
         NEW p \in Proc, NEW t \in Thread(p), Write(p, t)
  PROVE  Pairs'
<1> DEFINE todo == at[p][t].todo
           rest == Tail(todo)
           x == [of |-> todo[1].of, part |-> todo[1].part, by |-> p]
           n == Len(file)
           k == Len(todo)
<1>1. /\ UNCHANGED <<flock, desc>> /\ at[p][t].pc = "write" /\ todo \in Seq(Piece) /\ todo # << >>
      /\ file' = Append(file, x) /\ Calls1(p, t, [at[p][t] EXCEPT !.todo = rest])
  BY WriteStep
<1>2. /\ 1 \in DOMAIN todo /\ todo[1] \in Piece /\ DOMAIN rest \subseteq Nat
      /\ \A i \in DOMAIN rest : i + 1 \in DOMAIN todo /\ rest[i] = todo[i + 1]
      /\ k \in Nat /\ k > 0 /\ DOMAIN todo = 1 .. k /\ Len(rest) = k - 1 /\ DOMAIN rest = 1 .. (k - 1)
  BY <1>1, TailOf
<1>3. /\ flock = desc[p] /\ desc[p] # 0 /\ Tidy(todo) /\ k % 2 = n % 2
      /\ n % 2 = 1 => file[n].by = p /\ todo[1].of = file[n].of
      /\ \A i \in DOMAIN file : file[i].part = IF i % 2 = 1 THEN 1 ELSE 2
      /\ \A i \in DOMAIN file : i % 2 = 0 => file[i].of = file[i - 1].of /\ file[i].by = file[i - 1].by
  BY <1>1 DEF Pairs
<1>4. /\ n \in Nat /\ DOMAIN file = 1 .. n /\ DOMAIN file' = 1 .. (n + 1) /\ Len(file') = n + 1
      /\ file'[n + 1] = x /\ \A i \in 1 .. n : file'[i] = file[i]
  <2>1. file \in Seq([of : Int, part : {1, 2}, by : Proc]) /\ x \in [of : Int, part : {1, 2}, by : Proc]
    BY <1>2 DEF TypeOK, Piece
  <2> HIDE DEF x
  <2> QED BY <1>1, <2>1
<1>5. /\ at'[p][t].pc = "write" /\ at'[p][t].todo = rest
      /\ \A q \in Proc : \A u \in Thread(q) : at'[q][u].pc = "write" => q = p /\ u = t
  <2>1. at[p][t] \in AtCall
    BY DEF TypeOK
  <2>2. at'[p][t].pc = "write" /\ at'[p][t].todo = rest
    BY <1>1, <2>1 DEF Calls1, AtCall
  <2>3. \A q \in Proc : \A u \in Thread(q) : at[q][u].pc = "write" => q = p /\ u = t
    BY <1>1, <1>3, OneWriter
  <2> QED BY <1>1, <2>2, <2>3 DEF Calls1
<1>6. x.of = todo[1].of /\ x.part = todo[1].part /\ x.by = p
  OBVIOUS
<1>7. /\ \A i \in DOMAIN todo : todo[i].part = IF (k - i) % 2 = 0 THEN 2 ELSE 1
      /\ \A i \in DOMAIN todo : (k - i) % 2 # 0 => i + 1 \in DOMAIN todo /\ todo[i + 1].of = todo[i].of
  BY <1>3 DEF Tidy, Second
<1> HIDE DEF x, n, k, rest, todo
<1>8. \A a, b \in Nat : /\ a % 2 \in {0, 1}
                        /\ (a % 2 = b % 2 /\ a > 0) => ((a - 1) % 2 = 0 <=> b % 2 = 1)
                        /\ (a + 1) % 2 = 1 <=> a % 2 = 0
                        /\ (a + 1) % 2 = 0 <=> a % 2 = 1
                        /\ (a % 2 = b % 2 /\ a > 0) => (a - 1) % 2 = (b + 1) % 2
  OBVIOUS
<1>9. /\ x.part = (IF (n + 1) % 2 = 1 THEN 1 ELSE 2)
      /\ (n + 1) % 2 = 0 => x.of = file[n].of /\ file[n].by = p
  <2>1. x.part = (IF (k - 1) % 2 = 0 THEN 2 ELSE 1)
    BY <1>2, <1>6, <1>7
  <2>2. (k - 1) % 2 = 0 <=> n % 2 = 1
    BY <1>2, <1>3, <1>4, <1>8
  <2>3. n % 2 \in {0, 1} /\ ((n + 1) % 2 = 1 <=> n % 2 = 0) /\ ((n + 1) % 2 = 0 <=> n % 2 = 1)
    BY <1>4, <1>8
  <2> QED BY <2>1, <2>2, <2>3, <1>3, <1>6
<1>10. /\ \A i \in DOMAIN file' : file'[i].part = IF i % 2 = 1 THEN 1 ELSE 2
       /\ \A i \in DOMAIN file' : i % 2 = 0 => file'[i].of = file'[i - 1].of /\ file'[i].by = file'[i - 1].by
  <2>1. ASSUME NEW i \in DOMAIN file'
        PROVE  /\ file'[i].part = IF i % 2 = 1 THEN 1 ELSE 2
               /\ i % 2 = 0 => file'[i].of = file'[i - 1].of /\ file'[i].by = file'[i - 1].by
    <3>1. CASE i \in 1 .. n
      <4>1. i % 2 = 0 => i - 1 \in 1 .. n
        BY <3>1, <1>4
      <4> QED BY <3>1, <4>1, <1>3, <1>4
    <3>2. CASE i = n + 1
      <4>1. i % 2 = 0 => i - 1 = n /\ n \in 1 .. n
        BY <3>2, <1>4
      <4> QED BY <3>2, <4>1, <1>4, <1>6, <1>9
    <3> QED BY <3>1, <3>2, <1>4
  <2> QED BY <2>1
<1>11. Tidy(rest)
  <2>1. ASSUME NEW i \in DOMAIN rest
        PROVE  /\ rest[i].part = IF (Len(rest) - i) % 2 = 0 THEN 2 ELSE 1
               /\ (Len(rest) - i) % 2 # 0 => i + 1 \in DOMAIN rest /\ rest[i + 1].of = rest[i].of
    <3>1. /\ i \in Nat /\ i + 1 \in DOMAIN todo /\ rest[i] = todo[i + 1] /\ Len(rest) - i = k - (i + 1)
      BY <1>2
    <3>2. ASSUME (k - (i + 1)) % 2 # 0 PROVE i + 1 \in DOMAIN rest /\ rest[i + 1].of = rest[i].of
      <4>1. i + 1 + 1 \in DOMAIN todo /\ todo[i + 1 + 1].of = todo[i + 1].of
        BY <3>1, <3>2, <1>7
      <4>2. i + 1 \in DOMAIN rest
        BY <3>1, <4>1, <1>2
      <4> QED BY <3>1, <4>1, <4>2, <1>2
    <3> QED BY <3>1, <3>2, <1>7
  <2> QED BY <2>1 DEF Tidy, Second
<1>12. /\ Len(rest) % 2 = Len(file') % 2
       /\ Len(file') % 2 = 1 => /\ rest # << >> /\ file'[Len(file')].by = p
                                /\ rest[1].of = file'[Len(file')].of
  <2>1. Len(rest) % 2 = (n + 1) % 2
    BY <1>2, <1>3, <1>4, <1>8
  <2>2. ASSUME (n + 1) % 2 = 1 PROVE rest # << >> /\ rest[1].of = x.of
    <3>1. (k - 1) % 2 # 0
      BY <2>1, <2>2, <1>2
    <3>2. 1 + 1 \in DOMAIN todo /\ todo[1 + 1].of = todo[1].of
      BY <3>1, <1>2, <1>7
    <3>3. 1 \in DOMAIN rest
      BY <3>2, <1>2
    <3>4. rest[1] = todo[1 + 1] /\ rest # << >>
      BY <3>3, <1>2
    <3> QED BY <3>2, <3>4, <1>6
  <2> QED BY <2>1, <2>2, <1>4, <1>6
<1>13. \A q \in Proc : \A u \in Thread(q) : at'[q][u].pc = "write" =>
       /\ flock' = desc'[q] /\ desc'[q] # 0
       /\ Tidy(at'[q][u].todo) /\ Len(at'[q][u].todo) % 2 = Len(file') % 2
       /\ Len(file') % 2 = 1 => /\ at'[q][u].todo # << >> /\ file'[Len(file')].by = q
                                /\ at'[q][u].todo[1].of = file'[Len(file')].of
  BY <1>1, <1>3, <1>5, <1>11, <1>12
<1>14. ~(\A q \in Proc : \A u \in Thread(q) : at'[q][u].pc # "write")
  BY <1>5
<1> QED BY <1>10, <1>13, <1>14 DEF Pairs

LEMMA PairsEnd ==
  ASSUME Types, TypeOK, Unforked, Pairs, Numbered, \A q \in Proc : Calling(q),
         NEW p \in Proc, NEW t \in Thread(p), Written(p, t)
  PROVE  Pairs'
<1>1. UNCHANGED file /\ at[p][t].pc = "write" /\ at[p][t].todo = << >> /\ Calls1(p, t, Idle)
  BY WrittenStep
<1>2. \A q \in Proc : \A u \in Thread(q) : at'[q][u].pc # "write"
  <2>1. flock \in {0, desc[p]}
    BY <1>1 DEF Pairs
  <2>2. \A q \in Proc : \A u \in Thread(q) : at[q][u].pc = "write" => q = p /\ u = t
    BY <1>1, <2>1, OneWriter
  <2> QED BY <1>1, <2>2, Idles DEF Calls1
<1>3. Len(file) % 2 = 0
  <2>1. Len(at[p][t].todo) % 2 = Len(file) % 2 /\ Len(at[p][t].todo) = 0
    BY <1>1 DEF Pairs
  <2> QED BY <2>1
<1>4. /\ \A i \in DOMAIN file : file[i].part = IF i % 2 = 1 THEN 1 ELSE 2
      /\ \A i \in DOMAIN file : i % 2 = 0 => file[i].of = file[i - 1].of /\ file[i].by = file[i - 1].by
  BY DEF Pairs
<1> QED BY <1>1, <1>2, <1>3, <1>4 DEF Pairs

-------------------------------------------------------------------------------
(* The steps keep the invariant                                                *)

\* Only process p takes the step.
LEMMA Frame ==
  ASSUME TypeOK, NEW p \in Proc,
         life' = life \/ \E x : life' = [life EXCEPT ![p] = x],
         mem' = mem \/ \E m : Mem1(p, m),
         at' = at \/ \E t \in Thread(p) : \E x : Calls1(p, t, x),
         spoiled' \in {spoiled, spoiled \cup {p}}
  PROVE  \A q \in Proc : q # p => Same(q)
<1> SUFFICES ASSUME NEW q \in Proc, q # p PROVE Same(q)
  OBVIOUS
<1>1. life'[q] = life[q]
  BY DEF TypeOK
<1>2. mem'[q] = mem[q]
  BY DEF Mem1
<1>3. at'[q] = at[q]
  BY DEF Calls1
<1> QED BY <1>1, <1>2, <1>3 DEF Same

LEMMA Assembled ==
  ASSUME LogInv, TypeOK', Entries', Numbered', Unforked' => Pairs',
         NEW p \in Proc, Grown(p), \A q \in Proc : q # p => Same(q), ProcInv(p)'
  PROVE  LogInv'
<1>1. TypeOK /\ Entries /\ \A q \in Proc : ProcInv(q)
  BY DEF LogInv, FileInv, Entries
<1>2. \A q \in Proc : ProcInv(q)'
  <2>1. ASSUME NEW q \in Proc, q # p PROVE ProcInv(q)'
    BY <1>1, <2>1, OthersStay
  <2> QED BY <2>1
<1>3. FileInv'
  BY DEF FileInv, Entries
<1> QED BY <1>2, <1>3 DEF LogInv

LEMMA Parts ==
  ASSUME LogInv
  PROVE  /\ TypeOK /\ Entries /\ Numbered /\ (Unforked => Pairs)
         /\ \A q \in Proc : ProcInv(q) /\ Calling(q)
BY DEF LogInv, FileInv, Entries, ProcInv

\* A step that starts no writing and ends none.
LEMMA FileKept ==
  ASSUME TypeOK, Unforked => Pairs, NEW p \in Proc, NEW t \in Thread(p), NEW x,
         at[p][t].pc # "write", x.pc # "write", Calls1(p, t, x), UNCHANGED <<file, flock>>,
         Unforked' => Unforked,
         \A q \in Proc : \A u \in Thread(q) : at[q][u].pc = "write" => desc'[q] = desc[q]
  PROVE  Unforked' => Pairs'
<1>1. \A q \in Proc : \A u \in Thread(q) :
        \/ at'[q][u] = at[q][u]
        \/ at'[q][u].pc # "write" /\ at[q][u].pc # "write"
  BY DEF Calls1
<1>2. \A q \in Proc : \A u \in Thread(q) :
           /\ at'[q][u].pc = "write" => at[q][u].pc = "write"
           /\ at[q][u].pc = "write" => /\ at'[q][u] = at[q][u]
                                       /\ flock' = flock /\ desc'[q] = desc[q]
  BY <1>1
<1> QED BY <1>2, PairsStay

\* A step of a call that opens nothing.
LEMMA NumbersKept ==
  ASSUME TypeOK, Numbered, NEW p \in Proc, NEW t \in Thread(p), NEW x, Calls1(p, t, x),
         ~(x.op \in Format /\ x.pc = "body"), UNCHANGED <<calls, desc>>,
         \A q \in Proc : mem'[q].open = mem[q].open
  PROVE  Numbered'
<1>1. \A q \in Program : \A u \in Thread(q) : Opens(q, u)' => Opens(q, u) /\ at'[q][u].no = at[q][u].no
  <2>1. ASSUME NEW q \in Program, NEW u \in Thread(q), Opens(q, u)'
        PROVE  Opens(q, u) /\ at'[q][u].no = at[q][u].no
    <3>1. at'[q][u] = at[q][u]
      BY <2>1 DEF Calls1, Proc, Opens
    <3> QED BY <2>1, <3>1 DEF Opens
  <2> QED BY <2>1
<1>2. \A q \in Program : mem'[q].open = mem[q].open /\ desc'[q] = desc[q]
  BY DEF Proc
<1> QED BY <1>1, <1>2, NumberedStays

LEMMA KeptByCalls ==
  ASSUME Types, LogInv, NEW p \in Proc, NEW t \in Thread(p), Calls(p, t)
  PROVE  LogInv'
<1>0. /\ TypeOK /\ Entries /\ Numbered /\ (Unforked => Pairs) /\ ProcInv(p)
      /\ mem[p] \in Memory /\ t \in {"main", "worker"}
  BY Parts, Threads DEF TypeOK
<1>1. /\ TypeOK' /\ UNCHANGED <<life, file, flock, desc, events, spoiled>>
      /\ life[p] = "running" /\ at[p][t] = Idle /\ mem[p].lock = "free"
      /\ Mem1(p, [mem[p] EXCEPT !.lock = t]) /\ calls' \in {calls, calls + 1}
  BY <1>0, CallStep
<1>2. PICK op \in Ops, no \in Nat : /\ Calls1(p, t, NewCall(op, no))
                                    /\ op \in Format => no = calls + 1 /\ calls' = calls + 1
  BY <1>0, CallStep
<1>3. ProcInv(p)'
  BY <1>0, <1>1, <1>2, OwnCall
<1>4. Grown(p) /\ Entries' /\ \A q \in Proc : q # p => Same(q)
  BY <1>0, <1>1, <1>2, Grows, EntriesStay, Frame
<1>5. \A q \in Program : mem'[q].open = mem[q].open
  BY <1>0, <1>1 DEF Mem1, Memory, Proc
<1>6. Numbered'
  BY <1>0, <1>1, <1>2, <1>5, NumberedCall
<1>7. at[p][t].pc # "write" /\ NewCall(op, no).pc # "write"
  BY <1>1, Idles DEF NewCall
<1>8. Unforked' => Pairs'
  <2>1. Unforked' => Unforked
    BY <1>1 DEF Unforked
  <2> QED BY <1>0, <1>1, <1>2, <1>7, <2>1, FileKept
<1> QED BY <1>1, <1>3, <1>4, <1>6, <1>8, Assembled

\* What a step that changes other parts of the memory leaves of it.
LEMMA Others ==
  ASSUME NEW r \in Memory, NEW s, NEW o \in BOOLEAN, NEW h
  PROVE  /\ [r EXCEPT !.registered = TRUE, !.cur = s].open = r.open
         /\ [r EXCEPT !.cur = s, !.open = o, !.shim = h].open = o
BY DEF Memory

LEMMA KeptByAdd ==
  ASSUME Types, LogInv, NEW p \in Proc, NEW t \in Thread(p), add_trace_event(p, t)
  PROVE  LogInv'
<1>0. /\ TypeOK /\ Entries /\ Numbered /\ (Unforked => Pairs) /\ ProcInv(p)
      /\ mem[p] \in Memory /\ t \in {"main", "worker"}
  BY Parts, Threads DEF TypeOK
<1>1. /\ TypeOK' /\ UNCHANGED <<life, file, flock, desc, calls, spoiled>>
      /\ at[p][t].pc = "body" /\ Calls1(p, t, Idle)
  BY <1>0, AddStep
<1>2. PICK m : Mem1(p, m) /\ m.open = mem[p].open
  <2>1. CASE Mem1(p, Released(mem[p]))
    BY <1>0, <2>1 DEF Released, Memory
  <2>2. ASSUME NEW s, Mem1(p, [Released(mem[p]) EXCEPT !.registered = TRUE,
                                     !.cur = Append(s, Len(events) + 1)])
        PROVE  \E m : Mem1(p, m) /\ m.open = mem[p].open
    <3>1. Released(mem[p]) \in Memory /\ Released(mem[p]).open = mem[p].open
      BY <1>0 DEF Released, Memory
    <3> DEFINE r == Released(mem[p])
               l == Append(s, Len(events) + 1)
               n == [r EXCEPT !.registered = TRUE, !.cur = l]
    <3>2. Mem1(p, n)
      BY <2>2
    <3> HIDE DEF r, l
    <3>3. n.open = r.open
      BY <3>1, Others DEF r
    <3> HIDE DEF n
    <3> QED BY <3>1, <3>2, <3>3 DEF r
  <2> QED BY <1>0, <2>1, <2>2, AddStep
<1>3. events' = events \/ events' = Append(events, <<p, t>>)
  BY <1>0, AddStep
<1>4. ProcInv(p)'
  BY <1>0, OwnAdd
<1>5. Grown(p) /\ \A q \in Proc : q # p => Same(q)
  BY <1>0, <1>1, <1>2, <1>3, Grows, Frame
<1>6. Entries'
  <2>1. events \in Seq(Proc \X {"main", "worker"})
    BY <1>0 DEF TypeOK
  <2>2. events' = events \/ Len(events') = Len(events) + 1
    BY <2>1, <1>3
  <2> QED BY <1>0, <1>1, <2>2, EntriesStay
<1>7. ~(Idle.op \in Format /\ Idle.pc = "body") /\ Idle.pc # "write" /\ at[p][t].pc # "write"
  BY <1>1, Idles
<1>8. Numbered'
  <2>1. \A q \in Proc : mem'[q].open = mem[q].open
    BY <1>2 DEF Mem1
  <2> QED BY <1>0, <1>1, <1>7, <2>1, NumbersKept
<1>9. Unforked' => Pairs'
  <2>1. Unforked' => Unforked
    BY <1>1 DEF Unforked
  <2> QED BY <1>0, <1>1, <1>7, <2>1, FileKept
<1> QED BY <1>1, <1>4, <1>5, <1>6, <1>8, <1>9, Assembled

LEMMA KeptByEnable ==
  ASSUME Types, LogInv, NEW p \in Proc, NEW t \in Thread(p), _trace_enable(p, t)
  PROVE  LogInv'
<1>0. /\ TypeOK /\ Entries /\ Numbered /\ (Unforked => Pairs) /\ ProcInv(p)
      /\ mem[p] \in Memory /\ at[p][t] \in AtCall
  BY Parts DEF TypeOK
<1>1. /\ TypeOK' /\ UNCHANGED <<life, file, flock, events, calls>>
      /\ at[p][t].op \in Format /\ at[p][t].pc = "body"
  BY <1>0, EnableStep
<1>2. ProcInv(p)'
  BY <1>0, OwnEnable
<1>3. PICK m, x : /\ Mem1(p, m) /\ Calls1(p, t, x) /\ spoiled' \in {spoiled, spoiled \cup {p}}
                  /\ \/ m.open = mem[p].open /\ UNCHANGED desc /\ x = Idle
                     \/ /\ m.open = TRUE /\ desc' = [desc EXCEPT ![p] = at[p][t].no]
                        /\ x = [at[p][t] EXCEPT !.pc = "FileLock"]
  <2>1. PICK m \in Memory : /\ m = [mem[p] EXCEPT !.format = at[p][t].op]
              /\ \/ /\ mem[p].enabled \/ ~mem[p].allowed
                    /\ Mem1(p, Released(m)) /\ Calls1(p, t, Idle) /\ UNCHANGED <<desc, spoiled>>
                 \/ /\ ~mem[p].enabled /\ mem[p].allowed
                    /\ Mem1(p, [Released(m) EXCEPT !.enabled = TRUE]) /\ Calls1(p, t, Idle)
                    /\ spoiled' = spoiled \cup {p} /\ UNCHANGED desc
                 \/ /\ ~mem[p].enabled /\ mem[p].allowed
                    /\ Mem1(p, [m EXCEPT !.enabled = TRUE, !.open = TRUE])
                    /\ Calls1(p, t, [at[p][t] EXCEPT !.pc = "FileLock"])
                    /\ desc' = [desc EXCEPT ![p] = at[p][t].no] /\ UNCHANGED spoiled
    BY <1>0, EnableStep
  <2>2. /\ Released(m).open = mem[p].open /\ [Released(m) EXCEPT !.enabled = TRUE].open = mem[p].open
        /\ [m EXCEPT !.enabled = TRUE, !.open = TRUE].open = TRUE
    BY <1>0, <2>1 DEF Released, Memory
  <2>3. CASE Mem1(p, Released(m)) /\ Calls1(p, t, Idle) /\ UNCHANGED <<desc, spoiled>>
    BY <2>2, <2>3
  <2>4. CASE /\ Mem1(p, [Released(m) EXCEPT !.enabled = TRUE]) /\ Calls1(p, t, Idle)
             /\ spoiled' = spoiled \cup {p} /\ UNCHANGED desc
    BY <2>2, <2>4
  <2>5. CASE /\ Mem1(p, [m EXCEPT !.enabled = TRUE, !.open = TRUE])
             /\ Calls1(p, t, [at[p][t] EXCEPT !.pc = "FileLock"])
             /\ desc' = [desc EXCEPT ![p] = at[p][t].no] /\ UNCHANGED spoiled
    BY <2>2, <2>5
  <2> QED BY <2>1, <2>3, <2>4, <2>5
<1>4. Grown(p) /\ Entries' /\ \A q \in Proc : q # p => Same(q)
  BY <1>0, <1>1, <1>3, Grows, EntriesStay, Frame
<1>5. x.pc # "write" /\ at[p][t].pc # "write" /\ ~(x.op \in Format /\ x.pc = "body")
  BY <1>0, <1>1, <1>3, Idles DEF AtCall
<1>6. Numbered'
  <2>1. CASE m.open = mem[p].open /\ UNCHANGED desc /\ x = Idle
    <3>1. \A q \in Proc : mem'[q].open = mem[q].open
      BY <1>3, <2>1 DEF Mem1
    <3> QED BY <1>0, <1>1, <1>3, <1>5, <2>1, <3>1, NumbersKept
  <2>2. CASE /\ m.open = TRUE /\ desc' = [desc EXCEPT ![p] = at[p][t].no]
             /\ x = [at[p][t] EXCEPT !.pc = "FileLock"]
    <3>1. Opens(p, t)
      BY <1>1 DEF Opens
    <3> QED BY <1>0, <1>1, <1>3, <2>2, <3>1, NumberedEnable
  <2> QED BY <1>3, <2>1, <2>2
<1>7. Unforked' => Pairs'
  <2>1. Unforked' => Unforked
    BY <1>1 DEF Unforked
  <2>2. \A u \in Thread(p) : at[p][u].pc # "write"
    BY <1>0, <1>1, InBody
  <2>3. \A q \in Proc : q # p => desc'[q] = desc[q]
    BY <1>0, <1>3 DEF TypeOK
  <2>4. \A q \in Proc : \A u \in Thread(q) : at[q][u].pc = "write" => desc'[q] = desc[q]
    BY <2>2, <2>3
  <2> QED BY <1>0, <1>1, <1>3, <1>5, <2>1, <2>4, FileKept
<1> QED BY <1>1, <1>2, <1>4, <1>6, <1>7, Assembled

LEMMA KeptByFlush ==
  ASSUME Types, LogInv, NEW p \in Proc, NEW t \in Thread(p), Flushes(p, t)
  PROVE  LogInv'
<1>0. /\ TypeOK /\ Entries /\ Numbered /\ (Unforked => Pairs) /\ ProcInv(p)
      /\ mem[p] \in Memory /\ at[p][t] \in AtCall
  BY Parts DEF TypeOK
<1>1. /\ TypeOK' /\ UNCHANGED <<life, file, flock, desc, events, calls, spoiled>>
      /\ at[p][t].pc = "body"
  BY <1>0, FlushStep
<1>2. ProcInv(p)'
  BY <1>0, OwnFlush
<1>3. PICK m, x : /\ Mem1(p, m) /\ Calls1(p, t, x) /\ m.open = mem[p].open
                  /\ x \in {Idle, [at[p][t] EXCEPT !.pc = "FileLock"]}
  <2>1. PICK m \in Memory :
              /\ m = IF at[p][t].op = "disable" THEN [mem[p] EXCEPT !.enabled = FALSE] ELSE mem[p]
              /\ \/ Mem1(p, Released(mem[p])) /\ Calls1(p, t, Idle)
                 \/ Mem1(p, Released(m)) /\ Calls1(p, t, Idle)
                 \/ Mem1(p, m) /\ Calls1(p, t, [at[p][t] EXCEPT !.pc = "FileLock"])
    BY <1>0, FlushStep
  <2>2. m.open = mem[p].open /\ Released(m).open = mem[p].open /\ Released(mem[p]).open = mem[p].open
    BY <1>0, <2>1 DEF Released, Memory
  <2> QED BY <2>1, <2>2
<1>4. Grown(p) /\ Entries' /\ \A q \in Proc : q # p => Same(q)
  BY <1>0, <1>1, <1>3, Grows, EntriesStay, Frame
<1>5. x.pc # "write" /\ at[p][t].pc # "write" /\ ~(x.op \in Format /\ x.pc = "body")
  BY <1>0, <1>1, <1>3, Idles DEF AtCall
<1>6. Numbered'
  <2>1. \A q \in Proc : mem'[q].open = mem[q].open
    BY <1>3 DEF Mem1
  <2> QED BY <1>0, <1>1, <1>3, <1>5, <2>1, NumbersKept
<1>7. Unforked' => Pairs'
  <2>1. Unforked' => Unforked
    BY <1>1 DEF Unforked
  <2> QED BY <1>0, <1>1, <1>3, <1>5, <2>1, FileKept
<1> QED BY <1>1, <1>2, <1>4, <1>6, <1>7, Assembled

LEMMA KeptByLock ==
  ASSUME Types, LogInv, NEW p \in Proc, NEW t \in Thread(p), FileLock(p, t)
  PROVE  LogInv'
<1>0. /\ TypeOK /\ Entries /\ Numbered /\ (Unforked => Pairs) /\ ProcInv(p)
      /\ at[p][t] \in AtCall /\ \A q \in Proc : Calling(q)
  BY Parts DEF TypeOK
<1>1. TypeOK' /\ UNCHANGED <<life, mem, file, desc, events, calls, spoiled>>
  BY <1>0, LockStep
<1>2. PICK w : Calls1(p, t, [at[p][t] EXCEPT !.pc = "write", !.todo = w])
  BY <1>0, LockStep
<1>3. ProcInv(p)'
  BY <1>0, OwnLock
<1>4. Grown(p) /\ Entries' /\ \A q \in Proc : q # p => Same(q)
  BY <1>0, <1>1, <1>2, Grows, EntriesStay, Frame
<1>5. Numbered'
  <2>1. [at[p][t] EXCEPT !.pc = "write", !.todo = w].pc = "write"
    BY <1>0 DEF AtCall
  <2> QED BY <1>0, <1>1, <1>2, <2>1, NumbersKept
<1>6. Unforked' => Pairs'
  <2>1. Unforked' => Unforked
    BY <1>1 DEF Unforked
  <2> QED BY <1>0, <1>1, <2>1, PairsLocked
<1> QED BY <1>1, <1>3, <1>4, <1>5, <1>6, Assembled

LEMMA KeptByWrite ==
  ASSUME Types, LogInv, NEW p \in Proc, NEW t \in Thread(p), Write(p, t)
  PROVE  LogInv'
<1>0. /\ TypeOK /\ Entries /\ Numbered /\ (Unforked => Pairs) /\ ProcInv(p)
      /\ at[p][t] \in AtCall /\ \A q \in Proc : Calling(q)
  BY Parts DEF TypeOK
<1> DEFINE x == [of |-> at[p][t].todo[1].of, part |-> at[p][t].todo[1].part, by |-> p]
<1>1. /\ TypeOK' /\ UNCHANGED <<life, mem, flock, desc, events, calls, spoiled>>
      /\ at[p][t].pc = "write" /\ at[p][t].todo \in Seq(Piece) /\ at[p][t].todo # << >>
      /\ file' = Append(file, x)
      /\ Calls1(p, t, [at[p][t] EXCEPT !.todo = Tail(at[p][t].todo)])
  BY <1>0, WriteStep
<1>2. x \in PieceBy(p)
  <2>1. at[p][t].todo[1] \in Piece
    BY <1>1, TailOf
  <2> QED BY <2>1 DEF PieceBy, Piece
<1>3. ProcInv(p)'
  BY <1>0, OwnWrite
<1>4. Entries'
  BY <1>0, EntriesWritten
<1> HIDE DEF x
<1>5. Grown(p) /\ \A q \in Proc : q # p => Same(q)
  BY <1>0, <1>1, <1>2, Grows, Frame
<1>6. Numbered'
  <2>1. [at[p][t] EXCEPT !.todo = Tail(at[p][t].todo)].pc = "write"
    BY <1>0, <1>1 DEF AtCall
  <2> QED BY <1>0, <1>1, <2>1, NumbersKept
<1>7. Unforked' => Pairs'
  <2>1. Unforked' => Unforked
    BY <1>1 DEF Unforked
  <2> QED BY <1>0, <1>1, <2>1, PairsWritten
<1> QED BY <1>1, <1>3, <1>4, <1>5, <1>6, <1>7, Assembled

LEMMA KeptByWritten ==
  ASSUME Types, LogInv, NEW p \in Proc, NEW t \in Thread(p), Written(p, t)
  PROVE  LogInv'
<1>0. /\ TypeOK /\ Entries /\ Numbered /\ (Unforked => Pairs) /\ ProcInv(p)
      /\ mem[p] \in Memory /\ \A q \in Proc : Calling(q)
  BY Parts DEF TypeOK
<1>1. /\ TypeOK' /\ UNCHANGED <<life, file, events, calls, spoiled>>
      /\ at[p][t].pc = "write" /\ Calls1(p, t, Idle)
      /\ desc' = IF at[p][t].op = "disable" THEN [desc EXCEPT ![p] = 0] ELSE desc
  BY <1>0, WrittenStep
<1>2. PICK m : /\ Mem1(p, m)
               /\ IF at[p][t].op = "disable" THEN m.open = FALSE ELSE m.open = TRUE
  <2>1. PICK m \in Memory :
          /\ Mem1(p, m)
          /\ m = [Released(mem[p]) EXCEPT
                    !.cur  = IF at[p][t].op \in Format THEN mem[p].cur ELSE << >>,
                    !.open = at[p][t].op # "disable",
                    !.shim = IF at[p][t].op = "flush" THEN mem[p].shim ELSE at[p][t].op # "disable"]
    BY <1>0, WrittenStep
  <2>2. Released(mem[p]) \in Memory /\ (at[p][t].op # "disable") \in BOOLEAN
    BY <1>0 DEF Released, Memory
  <2> DEFINE r == Released(mem[p])
             l == IF at[p][t].op \in Format THEN mem[p].cur ELSE << >>
             o == at[p][t].op # "disable"
             h == IF at[p][t].op = "flush" THEN mem[p].shim ELSE at[p][t].op # "disable"
  <2>3. m = [r EXCEPT !.cur = l, !.open = o, !.shim = h] /\ r \in Memory /\ o \in BOOLEAN
    BY <2>1, <2>2
  <2> HIDE DEF r, l, o, h
  <2>4. m.open = o
    BY <2>3, Others
  <2>5. IF at[p][t].op = "disable" THEN m.open = FALSE ELSE m.open = TRUE
    BY <2>4 DEF o
  <2>6. Mem1(p, m)
    BY <2>1
  <2> QED BY <2>5, <2>6
<1>3. ProcInv(p)'
  BY <1>0, OwnWritten
<1>4. Grown(p) /\ Entries' /\ \A q \in Proc : q # p => Same(q)
  BY <1>0, <1>1, <1>2, Grows, EntriesStay, Frame
<1>5. Numbered'
  <2>1. \A q \in Program : \/ mem'[q].open = mem[q].open /\ desc'[q] = desc[q]
                           \/ ~mem'[q].open /\ desc'[q] = 0
    <3>1. ASSUME NEW q \in Program, q # p
          PROVE  mem'[q].open = mem[q].open /\ desc'[q] = desc[q]
      BY <1>0, <1>1, <1>2, <3>1 DEF Mem1, Proc, TypeOK
    <3>2. CASE at[p][t].op = "disable"
      <4>1. ~mem'[p].open /\ desc'[p] = 0
        BY <1>0, <1>1, <1>2, <3>2 DEF Mem1, TypeOK
      <4> QED BY <3>1, <4>1
    <3>3. CASE at[p][t].op # "disable"
      <4>1. mem[p].open = TRUE
        BY <1>0, <1>1, InWrite DEF Memory
      <4>2. mem'[p].open = mem[p].open /\ desc'[p] = desc[p]
        BY <1>1, <1>2, <3>3, <4>1 DEF Mem1
      <4> QED BY <3>1, <4>2
    <3> QED BY <3>2, <3>3
  <2>2. \A q \in Program : \A u \in Thread(q) : Opens(q, u)' => Opens(q, u) /\ at'[q][u].no = at[q][u].no
    <3>1. ASSUME NEW q \in Program, NEW u \in Thread(q), Opens(q, u)' PROVE at'[q][u] = at[q][u]
      BY <1>1, <3>1, Idles DEF Calls1, Proc, Opens
    <3> QED BY <3>1 DEF Opens
  <2> QED BY <1>0, <1>1, <2>1, <2>2, NumberedStays
<1>6. Unforked' => Pairs'
  <2>1. Unforked' => Unforked
    BY <1>1 DEF Unforked
  <2> QED BY <1>0, <2>1, PairsEnd
<1> QED BY <1>1, <1>3, <1>4, <1>5, <1>6, Assembled

LEMMA KeptByFork ==
  ASSUME Types, LogInv, NEW p \in Proc, NEW t \in Thread(p), NEW c \in Child, Fork(p, t, c)
  PROVE  LogInv'
<1>0. c \in Proc /\ TypeOK /\ Entries /\ Numbered /\ ProcInv(p) /\ ProcInv(c)
  BY Parts DEF Proc
<1>1. /\ TypeOK' /\ UNCHANGED <<at, file, flock, events, spoiled>> /\ calls' = calls + 1
      /\ life' = [life EXCEPT ![c] = "running"] /\ desc' = [desc EXCEPT ![c] = desc[p]]
      /\ Mem1(c, [mem[p] EXCEPT !.allowed = FALSE, !.registered = FALSE])
  BY <1>0, ForkStep
<1>2. ProcInv(c)'
  BY <1>0, OwnFork
<1>3. Grown(c) /\ Entries' /\ \A q \in Proc : q # c => Same(q)
  BY <1>0, <1>1, Grows, EntriesStay, Frame
<1>4. Numbered'
  <2>1. \A q \in Program : mem'[q].open = mem[q].open /\ desc'[q] = desc[q]
    BY <1>0, <1>1 DEF Types, Mem1, TypeOK, Proc
  <2>2. \A q \in Program : \A u \in Thread(q) : Opens(q, u)' => Opens(q, u) /\ at'[q][u].no = at[q][u].no
    BY <1>1 DEF Opens
  <2> QED BY <1>0, <1>1, <2>1, <2>2, NumberedStays
<1>5. ~Unforked'
  BY <1>0, <1>1 DEF Unforked, TypeOK
<1> QED BY <1>0, <1>1, <1>2, <1>3, <1>4, <1>5, Assembled

\* The end of a process whose events are in the file, but for one that was killed.
LEMMA KeptByDeath ==
  ASSUME Types, LogInv, TypeOK', NEW p \in Proc, life[p] # "unborn", Dead(p), UNCHANGED <<file, events, calls>>,
         spoiled' \in {spoiled, spoiled \cup {p}},
         UNCHANGED at \/ Calls1(p, "main", Idle), \A u \in Thread(p) : at'[p][u] = Idle,
         \A e \in DOMAIN events : (p \notin spoiled' /\ Recorder(e) = p) => InFile(e),
         p \in Child \/ \A u \in Thread(p) : at[p][u] = Idle
  PROVE  LogInv'
<1>0. /\ TypeOK /\ Entries /\ Numbered /\ (Unforked => Pairs) /\ ProcInv(p)
      /\ \A q \in Proc : Calling(q)
  BY Parts
<1>1. /\ Mem1(p, NewMem) /\ life' = [life EXCEPT ![p] = "gone"] /\ desc' = [desc EXCEPT ![p] = 0]
      /\ \A q \in Proc : (q # p /\ life[q] \in {"running", "ending"} /\ mem[q].open /\ desc[q] = flock)
           => flock' = flock
  BY <1>0, DeadStep
<1>2. ProcInv(p)'
  BY <1>0, OwnDead
<1>3. Grown(p) /\ Entries' /\ \A q \in Proc : q # p => Same(q)
  <2>1. \A q \in Proc : q # p => Same(q)
    BY <1>0, <1>1, Frame, Threads
  <2> QED BY <1>0, <2>1, Grows, EntriesStay
<1>4. Numbered'
  <2>1. \A q \in Program : \/ mem'[q].open = mem[q].open /\ desc'[q] = desc[q]
                           \/ ~mem'[q].open /\ desc'[q] = 0
    BY <1>0, <1>1, Fresh DEF Mem1, TypeOK, Proc
  <2>2. \A q \in Program : \A u \in Thread(q) : Opens(q, u)' => Opens(q, u) /\ at'[q][u].no = at[q][u].no
    <3>1. ASSUME NEW q \in Program, NEW u \in Thread(q), Opens(q, u)' PROVE at'[q][u] = at[q][u]
      <4>1. q # p
        BY <3>1, Idles DEF Opens
      <4> QED BY <1>3, <4>1 DEF Same, Proc
    <3> QED BY <3>1 DEF Opens
  <2> QED BY <1>0, <2>1, <2>2, NumberedStays
<1>5. Unforked' => Pairs'
  <2> SUFFICES ASSUME Unforked' PROVE Pairs'
    OBVIOUS
  <2>1. p \notin Child /\ Unforked
    BY <1>0, <1>1 DEF Unforked, TypeOK, Proc
  <2>2. \A q \in Proc : \A u \in Thread(q) : at'[q][u].pc = "write" => at[q][u].pc = "write"
    BY <1>3, Idles DEF Same
  <2>3. ASSUME NEW q \in Proc, NEW u \in Thread(q), at[q][u].pc = "write"
        PROVE  at'[q][u] = at[q][u] /\ flock' = flock /\ desc'[q] = desc[q]
    <3>1. q # p
      BY <2>1, <2>3, Idles
    <3>2. /\ at[q][u] # Idle /\ life[q] \in {"running", "ending"} /\ mem[q].open
      BY <1>0, <2>3, Idles DEF Calling, OneCall
    <3>3. flock = desc[q]
      BY <1>0, <2>1, <2>3 DEF Pairs
    <3> QED BY <1>0, <1>1, <1>3, <3>1, <3>2, <3>3 DEF Same, TypeOK
  <2> QED BY <1>0, <2>1, <2>2, <2>3, PairsStay
<1> QED BY <1>2, <1>3, <1>4, <1>5, Assembled

LEMMA KeptByExit ==
  ASSUME Types, LogInv, NEW p \in Proc, Exit(p)
  PROVE  LogInv'
<1>0. /\ TypeOK /\ Entries /\ Numbered /\ (Unforked => Pairs) /\ ProcInv(p)
      /\ mem[p] \in Memory /\ "main" \in Thread(p)
  BY Parts, Threads DEF TypeOK
<1>1. /\ TypeOK' /\ UNCHANGED <<file, events, calls, spoiled>>
      /\ life[p] = "running" /\ \A t \in Thread(p) : at[p][t] = Idle
  BY <1>0, ExitStep
<1> DEFINE op == IF p \in Child THEN "flush" ELSE "disable"
           asked == IF p \in Child THEN mem[p].enabled ELSE mem[p].registered
<1>2. CASE /\ asked /\ mem[p].lock = "free" /\ Mem1(p, [mem[p] EXCEPT !.lock = "main"])
           /\ Calls1(p, "main", NewCall(op, 0))
           /\ life' = [life EXCEPT ![p] = "ending"] /\ UNCHANGED <<flock, desc>>
  <2>1. op \in Ops /\ op \notin Format /\ op = LastCall(p) /\ 0 \in Nat
    BY DEF Ops, Format, LastCall
  <2>2. life'[p] = "ending" /\ (p \in Child => mem[p].enabled)
    BY <1>0, <1>2 DEF TypeOK
  <2> HIDE DEF op
  <2>3. ProcInv(p)'
    BY <1>0, <1>1, <1>2, <2>1, <2>2, OwnCall
  <2>4. Grown(p) /\ Entries' /\ \A q \in Proc : q # p => Same(q)
    BY <1>0, <1>1, <1>2, Grows, EntriesStay, Frame
  <2>5. NewCall(op, 0).pc # "write" /\ ~(NewCall(op, 0).op \in Format /\ NewCall(op, 0).pc = "body")
    BY <2>1 DEF NewCall
  <2>6. Numbered'
    <3>1. \A q \in Proc : mem'[q].open = mem[q].open
      BY <1>0, <1>2 DEF Mem1, Memory
    <3> QED BY <1>0, <1>1, <1>2, <2>5, <3>1, NumbersKept
  <2>7. Unforked' => Pairs'
    <3>1. Unforked' => Unforked
      BY <1>0, <1>2, <2>2 DEF Unforked, TypeOK, Proc
    <3>2. at[p]["main"].pc # "write"
      BY <1>0, <1>1, Idles
    <3> QED BY <1>0, <1>1, <1>2, <2>5, <3>1, <3>2, FileKept
  <2> QED BY <1>1, <2>3, <2>4, <2>6, <2>7, Assembled
<1>3. CASE ~asked /\ Dead(p) /\ UNCHANGED at
  <2>1. ~mem[p].registered
    BY <1>0, <1>3 DEF ProcInv, Flags, Proc
  <2>2. \A e \in DOMAIN events : Recorder(e) # p
    BY <1>0, <1>1, <2>1 DEF ProcInv, Buffer
  <2> QED BY <1>0, <1>1, <1>3, <2>2, KeptByDeath
<1> QED BY <1>0, <1>2, <1>3, ExitStep

LEMMA KeptByGone ==
  ASSUME Types, LogInv, NEW p \in Proc, Gone(p)
  PROVE  LogInv'
<1>0. TypeOK /\ ProcInv(p)
  BY Parts
<1>1. /\ TypeOK' /\ UNCHANGED <<at, file, events, calls, spoiled>>
      /\ life[p] = "ending" /\ at[p]["main"] = Idle /\ Dead(p)
  BY <1>0, GoneStep
<1>2. /\ \A t \in Thread(p) : at[p][t] = Idle
      /\ p \notin spoiled => mem[p].cur = << >>
  BY <1>0, <1>1 DEF ProcInv, Kept, AtEnd
<1>3. \A e \in DOMAIN events : (p \notin spoiled /\ Recorder(e) = p) => InFile(e)
  BY <1>0, <1>2 DEF ProcInv, Kept, Present
<1> QED BY <1>1, <1>2, <1>3, KeptByDeath

LEMMA KeptByTerminate ==
  ASSUME Types, LogInv, NEW c \in Child, Terminate(c)
  PROVE  LogInv'
<1>0. TypeOK /\ c \in Proc
  BY Parts DEF Proc
<1>1. /\ TypeOK' /\ UNCHANGED <<file, events, calls>>
      /\ life[c] \in {"running", "ending"} /\ Dead(c) /\ spoiled' = spoiled \cup {c}
      /\ Calls1(c, "main", Idle) /\ Thread(c) = {"main"}
  BY <1>0, TerminateStep
<1>2. \A u \in Thread(c) : at'[c][u] = Idle
  BY <1>1 DEF Calls1
<1> QED BY <1>0, <1>1, <1>2, KeptByDeath

LEMMA LogNext ==
  ASSUME Types, LogInv, [Next]_vars
  PROVE  LogInv'
<1>1. ASSUME NEW p \in Proc, NEW t \in Thread(p),
             \/ Calls(p, t) \/ add_trace_event(p, t) \/ _trace_enable(p, t)
             \/ Flushes(p, t) \/ FileLock(p, t) \/ Write(p, t) \/ Written(p, t)
             \/ \E c \in Child : Fork(p, t, c)
      PROVE  LogInv'
  BY <1>1, KeptByCalls, KeptByAdd, KeptByEnable, KeptByFlush, KeptByLock, KeptByWrite,
     KeptByWritten, KeptByFork
<1>2. ASSUME NEW p \in Proc, Exit(p) \/ Gone(p) \/ Terminate(p)
      PROVE  LogInv'
  <2>1. Terminate(p) => p \in Child
    BY DEF Terminate
  <2> QED BY <1>2, <2>1, KeptByExit, KeptByGone, KeptByTerminate
<1>3. CASE UNCHANGED vars
  <2>1. /\ life' = life /\ mem' = mem /\ at' = at /\ file' = file /\ flock' = flock
        /\ desc' = desc /\ events' = events /\ calls' = calls /\ spoiled' = spoiled
    BY <1>3 DEF vars
  <2>2. TypeOK /\ FileInv /\ \A p \in Proc : ProcInv(p)
    BY DEF LogInv
  <2>3. TypeOK'
    BY <2>1, <2>2 DEF TypeOK
  <2>4. FileInv'
    <3>1. /\ Numbered' /\ (Unforked' = Unforked) /\ (Pairs' = Pairs)
      BY <2>1, <2>2 DEF FileInv, Numbered, Opens, Unforked, Pairs
    <3> QED BY <2>1, <2>2, <3>1 DEF FileInv
  <2>5. \A p \in Proc : ProcInv(p)'
    <3>1. ASSUME NEW p \in Proc PROVE ProcInv(p)'
      <4>1. Calling(p)' /\ Flags(p)' /\ Buffer(p)'
        BY <2>1, <2>2 DEF ProcInv, Calling, OneCall, Flags, Closing, Buffer, Recorder
      <4>2. Present(p)' /\ Covered(p)' /\ AtEnd(p)'
        BY <2>1, <2>2 DEF ProcInv, Kept, Present, Covered, AtEnd, Writing, InFile, Recorder
      <4>3. NoneTwice(p)' /\ Unwritten(p)' /\ ToDo(p)'
        BY <2>1, <2>2 DEF ProcInv, Once, NoneTwice, Unwritten, ToDo, Writing, Wrote, Recorder
      <4>4. Own(p)'
        BY <2>1, <2>2 DEF ProcInv, Own, Recorder, Sources
      <4> QED BY <4>1, <4>2, <4>3, <4>4 DEF ProcInv, Kept, Once
    <3> QED BY <3>1
  <2> QED BY <2>3, <2>4, <2>5 DEF LogInv
<1> QED BY <1>1, <1>2, <1>3 DEF Next

LEMMA LogInit ==
  ASSUME Types, Init
  PROVE  LogInv
<1>1. /\ \A p \in Proc : life[p] \in {"running", "unborn"} /\ mem[p] = NewMem /\ desc[p] = 0
      /\ \A p \in Proc : (p \in Child => life[p] = "unborn")
      /\ \A p \in Proc : \A t \in Thread(p) : at[p][t] = Idle
      /\ file = << >> /\ events = << >> /\ calls = 0 /\ spoiled = {}
      /\ DOMAIN file = {} /\ DOMAIN events = {} /\ Len(file) = 0
  BY DEF Init, Types
<1>2. TypeOK
  <2>1. /\ life \in [Proc -> {"unborn", "running", "ending", "gone"}] /\ mem \in [Proc -> Memory]
        /\ DOMAIN at = Proc
        /\ \A p \in Proc : DOMAIN at[p] = Thread(p) /\ \A t \in Thread(p) : at[p][t] \in AtCall
    BY Idles, Fresh DEF Init
  <2> QED BY <2>1 DEF Init, TypeOK
<1>3. FileInv
  <2>1. Numbered
    BY <1>1, Idles, Fresh DEF Numbered, Opens, Proc
  <2>2. Pairs
    <3>1. \A p \in Proc : \A t \in Thread(p) : at[p][t].pc # "write"
      BY <1>1, Idles
    <3>2. Len(file) % 2 = 0
      BY <1>1
    <3> QED BY <1>1, <3>1, <3>2 DEF Pairs
  <2> QED BY <1>1, <2>1, <2>2 DEF FileInv
<1>4. ASSUME NEW p \in Proc PROVE ProcInv(p)
  <2>1. mem[p].cur = << >> /\ DOMAIN mem[p].cur = {}
    BY <1>1, Fresh
  <2>2. Calling(p) /\ Flags(p) /\ Buffer(p)
    BY <1>1, <2>1, Idles, Fresh DEF Calling, OneCall, Flags, Closing, Buffer
  <2>3. Kept(p)
    BY <1>1, <2>1, Idles DEF Kept, Present, Covered, Writing, AtEnd
  <2>4. Once(p)
    BY <1>1, <2>1, Idles, Fresh DEF Once, NoneTwice, Unwritten, ToDo
  <2>5. Own(p)
    BY <1>1, <2>1 DEF Own
  <2> QED BY <2>2, <2>3, <2>4, <2>5 DEF ProcInv
<1> QED BY <1>2, <1>3, <1>4 DEF LogInv

LEMMA LogHolds ==
  ASSUME Types, LogInv
  PROVE  LogIsKept
<1>1. /\ file \in Seq([of : Int, part : {1, 2}, by : Proc]) /\ events \in Seq(Proc \X {"main", "worker"})
      /\ mem \in [Proc -> Memory]
  BY DEF LogInv, TypeOK
<1>2. \A e \in DOMAIN events : Recorder(e) \in Proc
  <2>1. \A e \in DOMAIN events : events[e] \in Proc \X {"main", "worker"}
    BY <1>1, Elements
  <2> QED BY <2>1 DEF Recorder
<1>3. \A j \in DOMAIN file : file[j].by \in Proc
  <2>1. \A j \in DOMAIN file : file[j] \in [of : Int, part : {1, 2}, by : Proc]
    BY <1>1, Elements
  <2> QED BY <2>1
<1>4. WholeWithoutFork
  <2> SUFFICES ASSUME Unforked, NEW i \in DOMAIN file,
                      (IF file[i].part = 1 THEN i + 1 ELSE i - 1) \in DOMAIN file
               PROVE  LET mate == IF file[i].part = 1 THEN i + 1 ELSE i - 1 IN
                      /\ file[mate].of = file[i].of /\ file[mate].by = file[i].by
                      /\ file[mate].part # file[i].part
    BY DEF WholeWithoutFork, Whole, Unforked
  <2>1. /\ \A k \in DOMAIN file : file[k].part = IF k % 2 = 1 THEN 1 ELSE 2
        /\ \A k \in DOMAIN file : k % 2 = 0 => file[k].of = file[k - 1].of /\ file[k].by = file[k - 1].by
    BY DEF LogInv, FileInv, Pairs
  <2>2. /\ i \in Nat /\ i - 1 + 1 = i /\ i + 1 - 1 = i
    BY <1>1
  <2>3. \A n \in Nat : /\ n % 2 \in {0, 1} /\ (n % 2 = 1 => (n + 1) % 2 = 0)
                       /\ (n % 2 = 0 => (n - 1) % 2 = 1)
    OBVIOUS
  <2>4. CASE i % 2 = 1
    <3>1. file[i].part = 1 /\ i + 1 \in DOMAIN file /\ (i + 1) % 2 = 0
      BY <2>1, <2>2, <2>3, <2>4
    <3>2. file[i + 1].part = 2 /\ file[i + 1].of = file[i].of /\ file[i + 1].by = file[i].by
      BY <2>1, <2>2, <3>1
    <3> QED BY <3>1, <3>2
  <2>5. CASE i % 2 = 0
    <3>1. file[i].part = 2 /\ i - 1 \in DOMAIN file /\ (i - 1) % 2 = 1
      BY <2>1, <2>2, <2>3, <2>5
    <3>2. file[i - 1].part = 1 /\ file[i].of = file[i - 1].of /\ file[i].by = file[i - 1].by
      BY <2>1, <2>5, <3>1
    <3> QED BY <3>1, <3>2
  <2> QED BY <2>2, <2>3, <2>4, <2>5
<1>5. NothingLost
  <2>1. ASSUME NEW e \in DOMAIN events, Recorder(e) \notin spoiled
        PROVE  InFile(e) \/ (life[Recorder(e)] # "gone" /\ Contains(mem[Recorder(e)].cur, e))
    <3>1. Present(Recorder(e))
      BY <1>2 DEF LogInv, ProcInv, Kept
    <3>2. mem[Recorder(e)].cur \in Seq(Nat)
      BY <1>1, <1>2 DEF Memory
    <3> QED BY <2>1, <3>1, <3>2 DEF Present, Contains
  <2> QED BY <2>1 DEF NothingLost
<1>6. EventsGoOnce
  <2>1. ASSUME NEW j \in DOMAIN file, file[j].of > 0, NEW i \in 1 .. (j - 1)
        PROVE  file[i] # file[j]
    <3>1. NoneTwice(file[j].by)
      BY <1>3 DEF LogInv, ProcInv, Once
    <3>2. i \in DOMAIN file /\ i < j
      BY <1>1
    <3> QED BY <2>1, <3>1, <3>2 DEF NoneTwice
  <2>2. ASSUME NEW c \in Child, mem[c].registered, NEW e \in Range(mem[c].cur)
        PROVE  Recorder(e) = c
    <3>1. Buffer(c)
      BY DEF LogInv, ProcInv, Proc
    <3>2. PICK i \in DOMAIN mem[c].cur : mem[c].cur[i] = e
      BY <2>2 DEF Range
    <3> QED BY <2>2, <3>1, <3>2 DEF Buffer
  <2>3. ASSUME NEW j \in DOMAIN file, file[j].of > 0
        PROVE  \/ file[j].by = Recorder(file[j].of)
               \/ file[j].by \in Child /\ Recorder(file[j].of) = Forker
    <3>1. Own(file[j].by)
      BY <1>3 DEF LogInv, ProcInv
    <3> QED BY <2>3, <3>1 DEF Own, Sources
  <2> QED BY <2>1, <2>2, <2>3 DEF EventsGoOnce
<1> QED BY <1>4, <1>5, <1>6 DEF LogIsKept

\* Programs that log to one file, with threads, forks and kills in any order: as long as
\* none forks the pieces of an entry stand together, the events a process recorded are in
\* its buffer or the file and at its end in the file, and go there once from it, and
\* else only from children that inherited them.
THEOREM LogStaysKept == Spec => []LogIsKept
<1>1. Types
  BY TraceLogAssumption DEF Types
<1>2. Init => LogInv
  BY <1>1, LogInit
<1>3. LogInv /\ [Next]_vars => LogInv'
  BY <1>1, LogNext
<1>4. LogInv => LogIsKept
  BY <1>1, LogHolds
<1> QED BY <1>2, <1>3, <1>4, PTL DEF Spec
===============================================================================
