---------------------- MODULE ResumableTransferProofs ----------------------
(* Theorems of ResumableTransfer, for every set of files, every block,     *)
(* tail and batch size and any number of runs: its types; that a run that  *)
(* says done has made the copy equal to the source; that a transfer goes   *)
(* on only from a right part of what it has written; that progress is      *)
(* kept.                                                                   *)
(*                                                                         *)
(* Sequences are compared cell by cell (Agrees, Begins), since what a run  *)
(* writes is put together from parts of different runs.                    *)
EXTENDS ResumableTransfer, SequenceTheorems, TLAPS
-----------------------------------------------------------------------------
(* The first n cells of a copy are those of the source.                    *)
Agrees(copy, n) ==
  n <= Len(copy) /\ n <= Len(source) /\ \A i \in 1 .. n : copy[i] = source[i]

(* A part of an answer is what stands in the source at a place, or the     *)
(* beginning of it.                                                        *)
Begins(part, at) ==
  /\ Len(part) <= Block
  /\ part # <<>> => at + Len(part) <= Len(source)
  /\ \A k \in 1 .. Len(part) : part[k] = source[at + k]
(* It is all there is: a whole block, or the end of the source.             *)
Full(part, at) == Begins(part, at) /\ (Len(part) = Block \/ at + Len(part) >= Len(source))

(* Where a run may be, and what it has decided so far.                     *)
Stage ==
  /\ pc # "idle" => reported = "none"
  /\ parts # <<>> => pc = "write"
  /\ pc \in {"fetch", "write"} =>
       job.dir = "download" /\ pos <= Len(dest) /\ Aligned(pos) = pos
  /\ pc \in {"truncate", "send"} => job.dir = "upload"
  /\ pc = "compare" =>
       /\ total > 0 /\ dest # <<>> /\ Len(dest) < total
       /\ job.dir = "download" => Aligned(Len(dest)) = Len(dest)
  /\ kept.from <= Len(kept.text)

(* The parts that wait to be written follow each other from pos on, but     *)
(* for an error taken for an answer, which is too short to go on from.      *)
Answered ==
  /\ \/ \A i \in 1 .. Len(parts) : Begins(parts[i], pos + (i - 1) * Block)
     \/ Len(parts) = 1 /\ Len(parts[1]) < Block
  /\ clean => \A i \in 1 .. Len(parts) : Full(parts[i], pos + (i - 1) * Block)

(* What a run that took over a right beginning has made of it.             *)
Filled ==
  TookOverWell =>
    /\ pc \in {"fetch", "write"} => Len(dest) <= Len(source) /\ Agrees(dest, pos)
    /\ pc = "send" /\ clean => Len(dest) = pos /\ Agrees(dest, pos)

(* A download that nobody else has written: all whole blocks are right.     *)
OwnDownload ==
  job.before = <<>> /\ job.dir = "download" /\ total > 0 =>
    /\ Agrees(dest, Aligned(Len(dest)))
    /\ pc \in {"fetch", "write"} => Len(dest) = pos
FromTheStart == pc \in {"fetch", "write"} /\ total = 0 => kept.from = 0

(* An upload that nobody else has written: the source with cells missing.   *)
(* place[i] is where the cell i of the copy stands in the source, and at    *)
(* where the next one is taken from: never closer together than they are.   *)
Gaps(copy, place) ==
  \A i \in 1 .. Len(copy) :
    /\ place[i] \in i .. Len(source) /\ copy[i] = source[place[i]]
    /\ place[Len(copy)] - place[i] >= Len(copy) - i
Before(copy, place, at) ==
  Len(copy) <= at /\ \A i \in 1 .. Len(copy) : at - place[i] >= Len(copy) - i
OwnUpload ==
  job.before = <<>> /\ ~stacked /\ IsInjective(source) /\ job.dir = "upload" =>
    \E place \in [1 .. Len(dest) -> Nat] :
      Gaps(dest, place) /\ (pc = "send" => Before(dest, place, pos))

(* A remote file is emptied for a reason.                                  *)
Hopeless ==
  pc = "truncate" /\ clean /\ ~unread /\ job.known => dest = <<>> \/ ~IsPrefix(dest, source)

IInv == /\ TypeOK /\ Stage /\ Answered /\ Filled /\ Intact
        /\ OwnDownload /\ FromTheStart /\ OwnUpload /\ OwnWorkIsSound /\ Hopeless
-----------------------------------------------------------------------------
(* Whole blocks.                                                           *)
LEMMA AlignedFacts ==
  ASSUME NEW n \in Nat
  PROVE  /\ Aligned(n) \in Nat /\ Aligned(n) <= n /\ n < Aligned(n) + Block
         /\ Aligned(Aligned(n)) = Aligned(n)
<1> USE ResumeAssumption
<1>1. n \div Block \in Nat
  OBVIOUS
<1>2. Aligned(n) \in Nat /\ Aligned(n) <= n
  BY <1>1 DEF Aligned
<1>3. n < Aligned(n) + Block
  BY <1>1 DEF Aligned
<1>4. \A m \in Nat : ((m * Block) \div Block) * Block = m * Block
  OBVIOUS
<1>5. Aligned(Aligned(n)) = Aligned(n)
  BY <1>1, <1>4 DEF Aligned
<1>6. QED BY <1>2, <1>3, <1>5

LEMMA SameMultiple ==
  ASSUME NEW m \in Nat, NEW n \in Nat, NEW x \in Nat,
         m * Block <= x, x < m * Block + Block, n * Block <= x, x < n * Block + Block
  PROVE  m = n
<1> USE ResumeAssumption
<1>1. CASE m < n
  <2>1. (m + 1) * Block <= n * Block
    BY <1>1
  <2>2. (m + 1) * Block = m * Block + Block
    OBVIOUS
  <2>3. QED BY <2>1, <2>2
<1>2. CASE n < m
  <2>1. (n + 1) * Block <= m * Block
    BY <1>2
  <2>2. (n + 1) * Block = n * Block + Block
    OBVIOUS
  <2>3. QED BY <2>1, <2>2
<1>3. QED BY <1>1, <1>2

LEMMA AlignedNext ==
  ASSUME NEW n \in Nat, Aligned(n) = n
  PROVE  /\ Aligned(n + Block) = n + Block
         /\ \A k \in 0 .. Block - 1 : Aligned(n + k) = n
<1> USE ResumeAssumption
<1> DEFINE q == n \div Block
<1>1. q \in Nat /\ n = q * Block
  BY DEF Aligned
<1> HIDE DEF q
<1>2. Aligned(n + Block) = n + Block
  <2>1. n + Block = (q + 1) * Block
    BY <1>1
  <2>2. \A m \in Nat : ((m * Block) \div Block) * Block = m * Block
    OBVIOUS
  <2>3. QED BY <1>1, <2>1, <2>2 DEF Aligned
<1>3. ASSUME NEW k \in 0 .. Block - 1 PROVE Aligned(n + k) = n
  <2> DEFINE x == n + k
             p == x \div Block
  <2>1. x \in Nat /\ p \in Nat /\ Aligned(x) = p * Block
    BY DEF Aligned
  <2>2. p * Block <= x /\ x < p * Block + Block
    BY <2>1, AlignedFacts
  <2>3. q * Block <= x /\ x < q * Block + Block
    BY <1>1
  <2> HIDE DEF x, p
  <2>4. p = q
    BY <1>1, <2>1, <2>2, <2>3, SameMultiple
  <2>5. QED BY <1>1, <2>1, <2>4 DEF x
<1>4. QED BY <1>2, <1>3

(* The beginning, and the rest, of a sequence.                             *)
LEMMA FrontFacts ==
  ASSUME NEW S, NEW s \in Seq(S), NEW n \in 0 .. Len(s)
  PROVE  /\ SubSeq(s, 1, n) \in Seq(S) /\ Len(SubSeq(s, 1, n)) = n
         /\ \A i \in 1 .. n : SubSeq(s, 1, n)[i] = s[i]
OBVIOUS

LEMMA RestFacts ==
  ASSUME NEW S, NEW s \in Seq(S), NEW n \in Nat, NEW m \in Nat, m <= Len(s)
  PROVE  /\ SubSeq(s, n + 1, m) \in Seq(S)
         /\ Len(SubSeq(s, n + 1, m)) = IF n <= m THEN m - n ELSE 0
         /\ \A i \in 1 .. m - n : SubSeq(s, n + 1, m)[i] = s[n + i]
<1>1. \A i \in n + 1 .. m : s[i] \in S
  OBVIOUS
<1> DEFINE r == SubSeq(s, n + 1, m)
<1>2. /\ r \in Seq(S)
      /\ Len(r) = IF n + 1 <= m THEN m - (n + 1) + 1 ELSE 0
      /\ \A i \in 1 .. m - (n + 1) + 1 : r[i] = s[n + 1 + i - 1]
  BY <1>1, SubSeqProperties
<1> HIDE DEF r
<1>3. m - (n + 1) + 1 = m - n /\ \A i \in Int : n + 1 + i - 1 = n + i
  OBVIOUS
<1>4. Len(r) = IF n <= m THEN m - n ELSE 0
  BY <1>2
<1>5. ASSUME NEW i \in 1 .. m - n PROVE r[i] = s[n + i]
  <2>1. r[i] = s[n + 1 + i - 1]
    BY <1>2, <1>3
  <2>2. QED BY <1>3, <2>1
<1>6. QED BY <1>2, <1>4, <1>5 DEF r

(* One sequence after the other.                                           *)
LEMMA JoinFacts ==
  ASSUME NEW S, NEW s \in Seq(S), NEW t \in Seq(S)
  PROVE  /\ s \o t \in Seq(S) /\ Len(s \o t) = Len(s) + Len(t)
         /\ \A i \in 1 .. Len(s) : (s \o t)[i] = s[i]
         /\ \A i \in 1 .. Len(t) : (s \o t)[Len(s) + i] = t[i]
<1> DEFINE r == s \o t
<1>1. /\ r \in Seq(S) /\ Len(r) = Len(s) + Len(t)
      /\ \A i \in 1 .. Len(s) + Len(t) : r[i] = IF i <= Len(s) THEN s[i] ELSE t[i - Len(s)]
  BY ConcatProperties, Zenon
<1>2. Len(s) \in Nat /\ Len(t) \in Nat
  OBVIOUS
<1> HIDE DEF r
<1>3. ASSUME NEW i \in 1 .. Len(s) PROVE r[i] = s[i]
  BY <1>1, <1>2
<1>4. ASSUME NEW i \in 1 .. Len(t) PROVE r[Len(s) + i] = t[i]
  <2>1. /\ Len(s) + i \in 1 .. Len(s) + Len(t) /\ ~(Len(s) + i <= Len(s))
        /\ (Len(s) + i) - Len(s) = i
    BY <1>2
  <2>2. r[Len(s) + i] = t[(Len(s) + i) - Len(s)]
    BY <1>1, <2>1
  <2>3. QED BY <2>1, <2>2
<1>5. QED BY <1>1, <1>3, <1>4 DEF r

(* A beginning of a sequence, cell by cell.                                *)
LEMMA PrefixFacts ==
  ASSUME NEW S, NEW s \in Seq(S), NEW t \in Seq(S), NEW n \in 0 .. Len(s)
  PROVE  IsPrefix(SubSeq(s, 1, n), t) <=> n <= Len(t) /\ \A i \in 1 .. n : s[i] = t[i]
<1> DEFINE r == SubSeq(s, 1, n)
<1>1. r \in Seq(S) /\ Len(r) = n /\ \A i \in 1 .. n : r[i] = s[i]
  BY FrontFacts
<1> HIDE DEF r
<1>2. n \in Nat /\ n \in 0 .. Len(r) /\ (n <= Len(t) => n \in 0 .. Len(t))
  BY <1>1
<1>3. SubSeq(r, 1, Len(r)) \in Seq(S) /\ Len(SubSeq(r, 1, Len(r))) = n
      /\ \A i \in 1 .. n : SubSeq(r, 1, Len(r))[i] = r[i]
  BY <1>1, <1>2, FrontFacts
<1>4. ASSUME n <= Len(t)
      PROVE  SubSeq(t, 1, Len(r)) \in Seq(S) /\ Len(SubSeq(t, 1, Len(r))) = n
             /\ \A i \in 1 .. n : SubSeq(t, 1, Len(r))[i] = t[i]
  BY <1>1, <1>2, <1>4, FrontFacts
<1>5. ASSUME IsPrefix(r, t) PROVE n <= Len(t) /\ \A i \in 1 .. n : s[i] = t[i]
  BY <1>1, <1>3, <1>4, <1>5 DEF IsPrefix
<1>6. ASSUME n <= Len(t), \A i \in 1 .. n : s[i] = t[i] PROVE IsPrefix(r, t)
  <2> DEFINE u == SubSeq(r, 1, Len(r))
             v == SubSeq(t, 1, Len(r))
  <2>1. u \in Seq(S) /\ v \in Seq(S) /\ Len(u) = Len(v) /\ Len(u) = n
        /\ \A i \in 1 .. n : u[i] = v[i]
    BY <1>1, <1>3, <1>4, <1>6
  <2> HIDE DEF u, v
  <2>2. u = v
    BY <2>1, SeqEqual
  <2>3. QED BY <1>1, <1>6, <2>2 DEF IsPrefix, u, v
<1>7. QED BY <1>5, <1>6 DEF r

LEMMA WholePrefix ==
  ASSUME NEW S, NEW s \in Seq(S), NEW t \in Seq(S)
  PROVE  IsPrefix(s, t) <=> Len(s) <= Len(t) /\ \A i \in 1 .. Len(s) : s[i] = t[i]
<1>1. SubSeq(s, 1, Len(s)) = s /\ Len(s) \in 0 .. Len(s)
  <2>1. SubSeq(s, 1, Len(s)) \in Seq(S) /\ Len(SubSeq(s, 1, Len(s))) = Len(s)
        /\ \A i \in 1 .. Len(s) : SubSeq(s, 1, Len(s))[i] = s[i]
    BY FrontFacts
  <2>2. QED BY <2>1, SeqEqual
<1>2. QED BY <1>1, PrefixFacts
-----------------------------------------------------------------------------
LEMMA SourceFacts ==
  ASSUME TypeOK
  PROVE  /\ source \in Seq(Cells) /\ Len(source) \in Nat /\ total \in Nat
         /\ total = 0 \/ total = Len(source)
         /\ job.known => total = Len(source)
         /\ dest \in Seq(Cells) /\ Len(dest) \in Nat /\ pos \in Nat
<1>1. job.source \in Source /\ job.known \in BOOLEAN /\ dest \in Seq(Cells) /\ pos \in Nat
  BY DEF TypeOK
<1>2. source \in Seq(Cells)
  BY <1>1, FilesAssumption DEF source
<1>3. QED BY <1>1, <1>2 DEF total

(* A block of the source is all there is at its place.                     *)
LEMMA ChunkFacts ==
  ASSUME TypeOK, NEW at \in Nat
  PROVE  /\ ChunkAt(at) \in Seq(Cells) /\ Len(ChunkAt(at)) \in 0 .. Block
         /\ Full(ChunkAt(at), at)
<1> DEFINE end == Lesser(at + Block, Len(source))
           r == ChunkAt(at)
<1>0. Block \in Nat
  BY ResumeAssumption
<1>1. source \in Seq(Cells) /\ Len(source) \in Nat
  BY SourceFacts
<1>2. end \in Nat /\ end <= Len(source) /\ end <= at + Block
      /\ (end = at + Block \/ end = Len(source))
  BY <1>0, <1>1 DEF Lesser
<1> HIDE DEF end
<1>3. /\ r \in Seq(Cells)
      /\ Len(r) = IF at <= end THEN end - at ELSE 0
      /\ \A i \in 1 .. end - at : r[i] = source[at + i]
  BY <1>1, <1>2, RestFacts DEF ChunkAt, end
<1> HIDE DEF r
<1>4. Len(r) \in 0 .. Block /\ (Len(r) # 0 => Len(r) = end - at)
      /\ (Len(r) = Block \/ at + Len(r) >= Len(source))
  BY <1>0, <1>1, <1>2, <1>3
<1>5. r # <<>> => Len(r) # 0
  BY <1>3
<1>6. \A k \in 1 .. Len(r) : r[k] = source[at + k]
  <2>1. ASSUME NEW k \in 1 .. Len(r) PROVE k \in 1 .. end - at
    BY <1>2, <1>4
  <2>2. QED BY <1>3, <2>1
<1>7. r # <<>> => at + Len(r) <= Len(source)
  BY <1>2, <1>4, <1>5
<1>8. Full(r, at)
  BY <1>0, <1>4, <1>6, <1>7 DEF Full, Begins
<1>9. QED BY <1>3, <1>4, <1>8 DEF r

LEMMA BeginsFront ==
  ASSUME NEW part \in Seq(Cells), NEW at \in Nat, Begins(part, at), NEW n \in 0 .. Len(part),
         TypeOK
  PROVE  Begins(SubSeq(part, 1, n), at)
<1> DEFINE r == SubSeq(part, 1, n)
<1>0. Block \in Nat /\ Len(source) \in Nat
  BY ResumeAssumption, SourceFacts
<1>1. r \in Seq(Cells) /\ Len(r) = n /\ \A i \in 1 .. n : r[i] = part[i]
  BY FrontFacts
<1> HIDE DEF r
<1>2. n \in Nat /\ n <= Len(part) /\ Len(part) \in Nat
  OBVIOUS
<1>3. r # <<>> => n # 0 /\ part # <<>>
  BY <1>1, <1>2
<1>4. QED BY <1>0, <1>1, <1>2, <1>3 DEF Begins, r

(* t goes on where s ends.                                                 *)
Joined(r, s, t) ==
  /\ r \in Seq(Cells) /\ Len(r) = Len(s) + Len(t)
  /\ \A i \in 1 .. Len(s) : r[i] = s[i]
  /\ \A i \in 1 .. Len(t) : r[Len(s) + i] = t[i]
LEMMA JoinCells ==
  ASSUME NEW s \in Seq(Cells), NEW t \in Seq(Cells)
  PROVE  Joined(s \o t, s, t)
BY JoinFacts DEF Joined

(* r is copy with part written at a place.                                 *)
Written(r, copy, at, part) ==
  /\ r \in Seq(Cells)
  /\ Len(r) = IF at + Len(part) <= Len(copy) THEN Len(copy) ELSE at + Len(part)
  /\ \A i \in 1 .. at : r[i] = copy[i]
  /\ \A k \in 1 .. Len(part) : r[at + k] = part[k]
LEMMA OverwriteFacts ==
  ASSUME dest \in Seq(Cells), NEW at \in 0 .. Len(dest), NEW part \in Seq(Cells)
  PROVE  Written(Overwritten(at, part), dest, at, part)
<1> DEFINE head == SubSeq(dest, 1, at)
           both == head \o part
           rest == SubSeq(dest, at + Len(part) + 1, Len(dest))
           r == both \o rest
<1>0. Len(dest) \in Nat /\ at \in Nat /\ at <= Len(dest) /\ Len(part) \in Nat
  OBVIOUS
<1>1. head \in Seq(Cells) /\ Len(head) = at /\ \A i \in 1 .. at : head[i] = dest[i]
  BY FrontFacts
<1>2. /\ rest \in Seq(Cells)
      /\ Len(rest) = IF at + Len(part) <= Len(dest) THEN Len(dest) - (at + Len(part)) ELSE 0
  <2>1. at + Len(part) \in Nat
    BY <1>0
  <2>2. QED BY <1>0, <2>1, RestFacts
<1> HIDE DEF head, rest
<1>3. /\ both \in Seq(Cells) /\ Len(both) = Len(head) + Len(part)
      /\ \A i \in 1 .. Len(head) : both[i] = head[i]
      /\ \A k \in 1 .. Len(part) : both[Len(head) + k] = part[k]
  <2>1. Joined(both, head, part)
    BY <1>1, JoinCells
  <2>2. QED BY <2>1 DEF Joined
<1> HIDE DEF both
<1>4. /\ r \in Seq(Cells) /\ Len(r) = Len(both) + Len(rest)
      /\ \A i \in 1 .. Len(both) : r[i] = both[i]
  <2>1. Joined(r, both, rest)
    BY <1>2, <1>3, JoinCells
  <2>2. QED BY <2>1 DEF Joined
<1> HIDE DEF r
<1>5. Len(r) = IF at + Len(part) <= Len(dest) THEN Len(dest) ELSE at + Len(part)
  <2>1. Len(r) = at + Len(part) + Len(rest)
    BY <1>1, <1>3, <1>4
  <2>2. \A m, n, x, y \in Nat : y = (IF m + n <= x THEN x - (m + n) ELSE 0)
          => m + n + y = IF m + n <= x THEN x ELSE m + n
    OBVIOUS
  <2>3. Len(rest) \in Nat
    BY <1>2
  <2>4. QED BY <1>0, <1>2, <2>1, <2>2, <2>3, ZenonT(60)
<1>6. /\ \A i \in 1 .. at : i \in 1 .. Len(both) /\ i \in 1 .. Len(head)
      /\ \A k \in 1 .. Len(part) : at + k \in 1 .. Len(both)
  BY <1>0, <1>1, <1>3
<1>7. \A i \in 1 .. at : r[i] = dest[i]
  BY <1>1, <1>3, <1>4, <1>6
<1>8. \A k \in 1 .. Len(part) : r[at + k] = part[k]
  BY <1>1, <1>3, <1>4, <1>6
<1>9. r = Overwritten(at, part)
  BY DEF Overwritten, r, both, head, rest
<1>10. QED BY <1>4, <1>5, <1>7, <1>8, <1>9 DEF Written

(* A right beginning that is gone on with from its end, or thrown in.       *)
LEMMA AgreesMore ==
  ASSUME TypeOK, NEW copy \in Seq(Cells), NEW n \in Nat, Agrees(copy, n),
         NEW part \in Seq(Cells), Begins(part, n),
         NEW r \in Seq(Cells), n + Len(part) <= Len(r),
         \A i \in 1 .. n : r[i] = copy[i],
         \A k \in 1 .. Len(part) : r[n + k] = part[k]
  PROVE  Agrees(r, n + Len(part))
<1>0. Len(source) \in Nat /\ Len(part) \in Nat
  BY SourceFacts
<1>1. n + Len(part) <= Len(source)
  <2>1. CASE part = <<>>
    BY <1>0, <2>1 DEF Agrees
  <2>2. CASE part # <<>>
    BY <2>2 DEF Begins
  <2>3. QED BY <2>1, <2>2
<1>2. ASSUME NEW i \in 1 .. n + Len(part) PROVE r[i] = source[i]
  <2>1. CASE i <= n
    <3>1. i \in 1 .. n
      BY <2>1
    <3>2. QED BY <3>1 DEF Agrees
  <2>2. CASE i > n
    <3>1. i - n \in 1 .. Len(part) /\ n + (i - n) = i
      BY <1>0, <2>2
    <3>2. r[n + (i - n)] = part[i - n] /\ part[i - n] = source[n + (i - n)]
      BY <3>1 DEF Begins
    <3>3. QED BY <3>1, <3>2
  <2>3. QED BY <2>1, <2>2
<1>3. QED BY <1>1, <1>2 DEF Agrees

LEMMA AllAgree ==
  ASSUME TypeOK, NEW copy \in Seq(Cells), Agrees(copy, Len(source)), Len(copy) <= Len(source)
  PROVE  copy = source
<1>1. source \in Seq(Cells) /\ Len(source) \in Nat /\ Len(copy) \in Nat
  BY SourceFacts
<1>2. Len(copy) = Len(source) /\ \A i \in 1 .. Len(copy) : copy[i] = source[i]
  BY <1>1 DEF Agrees
<1>3. QED BY <1>1, <1>2, SeqEqual

(* What the last cells are that SameTail compares.                         *)
LEMMA TailFacts ==
  ASSUME TypeOK, dest # <<>>, Len(dest) <= Len(source)
  PROVE  /\ SameTail => dest[Len(dest)] = source[Len(dest)]
         /\ Agrees(dest, Len(dest)) => SameTail
<1> DEFINE len == Len(dest)
           n == len - Lesser(TailSize, len)
           s == SubSeq(dest, n + 1, len)
           t == SubSeq(source, n + 1, len)
<1>1. /\ source \in Seq(Cells) /\ Len(source) \in Nat /\ dest \in Seq(Cells)
      /\ len \in Nat /\ len > 0
  BY SourceFacts
<1>2. n \in Nat /\ n < len
  BY <1>1, ResumeAssumption DEF Lesser
<1>3. SameTail <=> s = t
  BY DEF SameTail
<1> HIDE DEF n
<1>4. /\ s \in Seq(Cells) /\ Len(s) = len - n
      /\ \A i \in 1 .. len - n : s[i] = dest[n + i]
  BY <1>1, <1>2, RestFacts
<1>5. /\ t \in Seq(Cells) /\ Len(t) = len - n
      /\ \A i \in 1 .. len - n : t[i] = source[n + i]
  BY <1>1, <1>2, RestFacts
<1> HIDE DEF s, t
<1>6. len - n \in 1 .. len - n /\ n + (len - n) = len
  BY <1>1, <1>2
<1>7. s = t => dest[len] = source[len]
  <2>1. s[len - n] = dest[n + (len - n)] /\ t[len - n] = source[n + (len - n)]
    BY <1>4, <1>5, <1>6
  <2>2. QED BY <1>6, <2>1
<1>8. ASSUME Agrees(dest, len) PROVE s = t
  <2>1. ASSUME NEW i \in 1 .. len - n PROVE s[i] = t[i]
    <3>1. n + i \in 1 .. len
      BY <1>1, <1>2
    <3>2. QED BY <1>4, <1>5, <1>8, <3>1 DEF Agrees
  <2>2. QED BY <1>4, <1>5, <2>1, SeqEqual
<1>9. QED BY <1>3, <1>7, <1>8
-----------------------------------------------------------------------------
(* The types, the places a run may be at and what it has been answered.     *)
Shape == TypeOK /\ Stage /\ Answered

LEMMA SameSource ==
  ASSUME job' = job
  PROVE  source' = source /\ total' = total
BY DEF source, total

LEMMA NoParts ==
  ASSUME parts' = <<>>
  PROVE  Answered'
BY DEF Answered

LEMMA Zeros == Aligned(0) = 0 /\ <<>> \in Seq(Cells) /\ <<>> \in Seq(Seq(Cells))
<1>1. Aligned(0) = 0
  <2>1. Aligned(0) \in Nat /\ Aligned(0) <= 0
    BY AlignedFacts
  <2>2. QED BY <2>1
<1>2. QED BY <1>1

LEMMA ReportShape ==
  ASSUME Shape, NEW what \in {"none", "done", "failed"}, Report(what),
         dest' \in Seq(Cells), kept' = kept, clean' \in BOOLEAN
  PROVE  Shape'
<1>1. UNCHANGED <<job, unread, stacked, runs>> /\ reported' = what /\ pc' = "idle" /\ pos' = 0
      /\ parts' = <<>>
  BY DEF Report
<1>2. source' = source /\ total' = total
  BY <1>1, SameSource
<1>3. TypeOK'
  BY <1>1, Zeros, SourceFacts DEF Shape, TypeOK, source
<1>4. Stage'
  BY <1>1 DEF Shape, Stage
<1>5. QED BY <1>1, <1>3, <1>4, NoParts DEF Shape

LEMMA StartDownloadShape ==
  ASSUME Shape, StartDownload
  PROVE  Shape'
<1>1. /\ job.dir = "download" /\ pc = "idle" /\ parts = <<>> /\ runs' = runs + 1 /\ runs < Runs
      /\ UNCHANGED <<job, parts, stacked>> /\ unread' \in BOOLEAN /\ clean' = TRUE
  BY DEF StartDownload, NewRun, Shape, Stage
<1>2. /\ source' = source /\ total' = total /\ Len(source) \in Nat /\ total \in Nat
      /\ total <= Len(source) /\ dest \in Seq(Cells) /\ Len(dest) \in Nat /\ pos \in 0 .. Len(source)
      /\ runs' \in 0 .. Runs
  <2>1. TypeOK
    BY DEF Shape
  <2>2. runs' \in 0 .. Runs
    BY <1>1, <2>1, ResumeAssumption DEF TypeOK
  <2>3. QED BY <1>1, <2>1, <2>2, SameSource, SourceFacts DEF TypeOK, source
<1>3. Answered'
  BY <1>1, NoParts
<1>4. CASE LooksComplete
  <2>1. reported' = "done" /\ kept' = [text |-> dest, from |-> Len(dest)] /\ UNCHANGED <<dest, pc, pos>>
    BY <1>4 DEF StartDownload, TakenAsIs
  <2>2. TypeOK'
    BY <1>1, <1>2, <2>1 DEF Shape, TypeOK, source
  <2>3. Stage'
    BY <1>1, <1>2, <2>1 DEF Stage
  <2>4. QED BY <1>3, <2>2, <2>3 DEF Shape
<1>5. CASE ~LooksComplete
  <2>1. /\ reported' = "none"
        /\ dest' = IF total > 0 THEN CutToBlocks ELSE dest
        /\ IF total > 0 /\ dest' # <<>>
           THEN pc' = "compare" /\ UNCHANGED <<pos, kept>>
           ELSE GoOn("fetch", 0)
    BY <1>5 DEF StartDownload
  <2>2. /\ CutToBlocks \in Seq(Cells) /\ Len(CutToBlocks) = Aligned(Len(dest))
        /\ Aligned(Len(dest)) \in Nat /\ Aligned(Len(dest)) <= Len(dest)
        /\ Aligned(Aligned(Len(dest))) = Aligned(Len(dest))
    <3>1. /\ Aligned(Len(dest)) \in Nat /\ Aligned(Len(dest)) <= Len(dest)
          /\ Aligned(Aligned(Len(dest))) = Aligned(Len(dest))
      BY <1>2, AlignedFacts
    <3>2. Aligned(Len(dest)) \in 0 .. Len(dest)
      BY <1>2, <3>1
    <3>3. QED BY <1>2, <3>1, <3>2, FrontFacts DEF CutToBlocks
  <2>3. dest' \in Seq(Cells) /\ Len(dest') \in Nat
    BY <1>2, <2>1, <2>2
  <2>4. CASE total > 0 /\ dest' # <<>>
    <3>1. pc' = "compare" /\ UNCHANGED <<pos, kept>> /\ dest' = CutToBlocks
      BY <2>1, <2>4
    <3>2. Len(dest') < total
      BY <1>2, <1>5, <2>2, <2>4, <3>1 DEF LooksComplete
    <3>3. TypeOK'
      BY <1>1, <1>2, <2>1, <2>3, <3>1 DEF Shape, TypeOK, source
    <3>4. Stage'
      BY <1>1, <1>2, <2>1, <2>2, <2>4, <3>1, <3>2 DEF Shape, Stage
    <3>5. QED BY <1>3, <3>3, <3>4 DEF Shape
  <2>5. CASE ~(total > 0 /\ dest' # <<>>)
    <3>1. pc' = "fetch" /\ pos' = 0 /\ kept' = [text |-> dest', from |-> 0]
      BY <2>1, <2>5 DEF GoOn
    <3>2. TypeOK'
      BY <1>1, <1>2, <2>1, <2>3, <3>1 DEF Shape, TypeOK, source
    <3>3. Stage'
      BY <1>1, <1>2, <2>1, <2>3, <3>1, Zeros DEF Stage
    <3>4. QED BY <1>3, <3>2, <3>3 DEF Shape
  <2>6. QED BY <2>4, <2>5
<1>6. QED BY <1>4, <1>5

LEMMA CompareDownloadShape ==
  ASSUME Shape, CompareDownload
  PROVE  Shape'
<1>1. /\ job.dir = "download" /\ pc = "compare" /\ parts = <<>> /\ reported = "none"
      /\ UNCHANGED <<job, parts, reported, stacked, runs>> /\ clean' \in BOOLEAN /\ unread' \in BOOLEAN
      /\ total > 0 /\ Len(dest) < total /\ Aligned(Len(dest)) = Len(dest)
  BY DEF CompareDownload, Shape, Stage
<1>2. /\ source' = source /\ total' = total /\ Len(source) \in Nat /\ total \in Nat
      /\ total <= Len(source) /\ dest \in Seq(Cells) /\ Len(dest) \in Nat
  <2>1. TypeOK
    BY DEF Shape
  <2>2. QED BY <1>1, <2>1, SameSource, SourceFacts
<1>3. Answered'
  BY <1>1, NoParts
<1>4. \/ dest' = dest /\ pc' = "fetch" /\ pos' = Len(dest) /\ kept' = [text |-> dest', from |-> Len(dest)]
      \/ dest' = <<>> /\ pc' = "fetch" /\ pos' = 0 /\ kept' = [text |-> dest', from |-> 0]
  BY DEF CompareDownload, GoOn
<1>5. TypeOK'
  <2>1. dest' \in Seq(Cells) /\ kept' \in [text : Seq(Cells), from : Nat] /\ pos' \in 0 .. Len(source)
    <3>1. dest' \in Seq(Cells) /\ pos' \in 0 .. Len(source)
      <4>1. CASE dest' = dest /\ pos' = Len(dest)
        BY <1>2, <1>1, <4>1
      <4>2. CASE dest' = <<>> /\ pos' = 0
        <5>1. <<>> \in Seq(Cells)
          BY Zeros
        <5>2. QED BY <1>2, <4>2, <5>1
      <4>3. QED BY <1>4, <4>1, <4>2
    <3>2. \E n \in Nat : kept' = [text |-> dest', from |-> n]
      BY <1>2, <1>4
    <3>3. QED BY <3>1, <3>2
  <2>2. QED BY <1>1, <1>2, <1>4, <2>1 DEF Shape, TypeOK, source
<1>6. Stage'
  BY <1>1, <1>2, <1>4, Zeros DEF Stage
<1>7. QED BY <1>3, <1>5, <1>6 DEF Shape

LEMMA StartUploadShape ==
  ASSUME Shape, StartUpload
  PROVE  Shape'
<1>1. /\ job.dir = "upload" /\ pc = "idle" /\ parts = <<>> /\ runs' = runs + 1 /\ runs < Runs
      /\ UNCHANGED <<job, parts, stacked>> /\ unread' \in BOOLEAN /\ clean' \in BOOLEAN
  BY DEF StartUpload, NewRun, Shape, Stage
<1>2. /\ source' = source /\ total' = total /\ Len(source) \in Nat /\ total \in Nat
      /\ total <= Len(source) /\ dest \in Seq(Cells) /\ Len(dest) \in Nat /\ pos \in 0 .. Len(source)
      /\ runs' \in 0 .. Runs
  <2>1. TypeOK
    BY DEF Shape
  <2>2. runs' \in 0 .. Runs
    BY <1>1, <2>1, ResumeAssumption DEF TypeOK
  <2>3. QED BY <1>1, <2>1, <2>2, SameSource, SourceFacts DEF TypeOK, source
<1>3. Answered'
  BY <1>1, NoParts
<1>4. \/ /\ reported' = "done" /\ kept' = [text |-> dest, from |-> Len(dest)]
         /\ UNCHANGED <<dest, pc, pos>>
      \/ /\ reported' = "none" /\ UNCHANGED <<dest, pos, kept>>
         /\ (pc' = "compare" /\ dest # <<>> /\ Len(dest) < total) \/ pc' = "truncate"
  BY DEF StartUpload, TakenAsIs
<1>5. TypeOK'
  BY <1>1, <1>2, <1>4 DEF Shape, TypeOK, source
<1>6. Stage'
  BY <1>1, <1>2, <1>4 DEF Shape, Stage
<1>7. QED BY <1>3, <1>5, <1>6 DEF Shape

LEMMA CompareUploadShape ==
  ASSUME Shape, CompareUpload
  PROVE  Shape'
<1>1. /\ job.dir = "upload" /\ pc = "compare" /\ parts = <<>> /\ reported = "none"
      /\ UNCHANGED <<job, parts, reported, stacked, runs>> /\ clean' \in BOOLEAN /\ unread' \in BOOLEAN
      /\ Len(dest) < total
  BY DEF CompareUpload, Shape, Stage
<1>2. /\ source' = source /\ total' = total /\ Len(source) \in Nat /\ total \in Nat
      /\ total <= Len(source) /\ dest \in Seq(Cells) /\ Len(dest) \in Nat
  <2>1. TypeOK
    BY DEF Shape
  <2>2. QED BY <1>1, <2>1, SameSource, SourceFacts
<1>3. Answered'
  BY <1>1, NoParts
<1>4. \/ dest' = dest /\ pc' = "send" /\ pos' = Len(dest) /\ kept' = [text |-> dest', from |-> Len(dest)]
      \/ pc' = "truncate" /\ UNCHANGED <<dest, pos, kept>>
  BY DEF CompareUpload, GoOn
<1>5. TypeOK'
  BY <1>1, <1>2, <1>4 DEF Shape, TypeOK, source
<1>6. Stage'
  BY <1>1, <1>2, <1>4 DEF Shape, Stage
<1>7. QED BY <1>3, <1>5, <1>6 DEF Shape

LEMMA TruncateShape ==
  ASSUME Shape, Truncate
  PROVE  Shape'
<1>1. /\ job.dir = "upload" /\ pc = "truncate" /\ parts = <<>> /\ reported = "none"
      /\ UNCHANGED <<job, parts, reported, unread, runs>> /\ clean' \in BOOLEAN /\ stacked' \in BOOLEAN
      /\ dest' = <<>> \/ dest' = dest
      /\ pc' = "send" /\ pos' = 0 /\ kept' = [text |-> dest', from |-> 0]
  BY DEF Truncate, GoOn, Shape, Stage, TypeOK
<1>2. source' = source /\ total' = total /\ Len(source) \in Nat /\ dest' \in Seq(Cells)
  <2>1. TypeOK
    BY DEF Shape
  <2>2. QED BY <1>1, <2>1, SameSource, SourceFacts, Zeros
<1>3. Answered'
  BY <1>1, NoParts
<1>4. TypeOK'
  BY <1>1, <1>2 DEF Shape, TypeOK, source
<1>5. Stage'
  BY <1>1, <1>2 DEF Shape, Stage
<1>6. QED BY <1>3, <1>4, <1>5 DEF Shape

(* The copy after an append of the first n cells of a chunk.               *)
LEMMA AppendFacts ==
  ASSUME TypeOK, NEW n \in 0 .. Len(ChunkAt(pos))
  PROVE  /\ Joined(dest \o SubSeq(ChunkAt(pos), 1, n), dest, SubSeq(ChunkAt(pos), 1, n))
         /\ Len(SubSeq(ChunkAt(pos), 1, n)) = n
         /\ Begins(SubSeq(ChunkAt(pos), 1, n), pos)
         /\ SubSeq(ChunkAt(pos), 1, n) \in Seq(Cells)
<1>1. dest \in Seq(Cells) /\ pos \in Nat
  BY SourceFacts
<1>2. ChunkAt(pos) \in Seq(Cells) /\ Begins(ChunkAt(pos), pos)
  BY <1>1, ChunkFacts DEF Full
<1>3. Begins(SubSeq(ChunkAt(pos), 1, n), pos)
  BY <1>1, <1>2, BeginsFront
<1>4. SubSeq(ChunkAt(pos), 1, n) \in Seq(Cells) /\ Len(SubSeq(ChunkAt(pos), 1, n)) = n
  BY <1>2, FrontFacts
<1>5. QED BY <1>1, <1>3, <1>4, JoinCells

LEMMA SendShape ==
  ASSUME Shape, Send
  PROVE  Shape'
<1>0. TypeOK
  BY DEF Shape
<1>1. pc = "send" /\ kept' = kept /\ parts = <<>> /\ reported = "none" /\ job.dir = "upload"
  BY DEF Send, Shape, Stage
<1>2. CASE pos >= Len(source)
  BY <1>0, <1>1, <1>2, ReportShape DEF Send, TypeOK
<1>3. CASE ~(pos >= Len(source))
  <2>1. PICK n \in 0 .. Len(ChunkAt(pos)) :
          dest' = dest \o SubSeq(ChunkAt(pos), 1, n) /\ clean' = (clean /\ n = Len(ChunkAt(pos)))
    BY <1>3 DEF Send
  <2>2. pos' = pos + Len(ChunkAt(pos)) /\ UNCHANGED <<job, pc, parts, reported, unread, stacked, runs>>
    BY <1>3 DEF Send, Sent
  <2>3. dest' \in Seq(Cells)
    BY <1>0, <2>1, AppendFacts DEF Joined
  <2>4. pos' \in 0 .. Len(source)
    <3>1. /\ Len(ChunkAt(pos)) \in Nat /\ pos \in Nat /\ Len(source) \in Nat
          /\ Begins(ChunkAt(pos), pos) /\ ChunkAt(pos) \in Seq(Cells)
      <4>1. pos \in Nat /\ Len(source) \in Nat /\ Block \in Nat
        BY <1>0, SourceFacts, ResumeAssumption
      <4>2. ChunkAt(pos) \in Seq(Cells) /\ Begins(ChunkAt(pos), pos)
        BY <1>0, <4>1, ChunkFacts DEF Full
      <4>3. Len(ChunkAt(pos)) \in Nat
        BY <4>2
      <4>4. QED BY <4>1, <4>2, <4>3
    <3>2. CASE ChunkAt(pos) = <<>>
      BY <1>3, <2>2, <3>1, <3>2
    <3>3. CASE ChunkAt(pos) # <<>>
      BY <2>2, <3>1, <3>3 DEF Begins
    <3>4. QED BY <3>2, <3>3
  <2>5. clean' \in BOOLEAN
    BY <2>1
  <2>6. source' = source /\ total' = total
    BY <2>2, SameSource
  <2>7. TypeOK'
    BY <1>0, <1>1, <2>2, <2>3, <2>4, <2>5, <2>6 DEF TypeOK, source
  <2>8. Stage'
    BY <1>1, <2>2 DEF Shape, Stage
  <2>9. QED BY <1>1, <2>2, <2>7, <2>8, NoParts DEF Shape
<1>4. QED BY <1>2, <1>3

(* What a batch of commands may be answered.                               *)
LEMMA AnswerFacts ==
  ASSUME Shape, pc = "fetch", ~(total > 0 /\ pos >= total),
         NEW answer \in {Chunks} \cup CutAnswers \cup Refusals
  PROVE  /\ answer \in Seq(Seq(Cells))
         /\ \/ \A i \in 1 .. Len(answer) : Begins(answer[i], pos + (i - 1) * Block)
            \/ Len(answer) = 1 /\ Len(answer[1]) < Block
         /\ answer = Chunks => \A i \in 1 .. Len(answer) : Full(answer[i], pos + (i - 1) * Block)
<1>1. /\ TypeOK /\ pos \in Nat /\ total \in Nat /\ Len(source) \in Nat /\ Aligned(pos) = pos
      /\ Block \in Nat \ {0, 1} /\ Batch \in Nat
  BY SourceFacts, ResumeAssumption DEF Shape, Stage
<1>2. BatchCount \in Nat
  <2>1. CASE total = 0
    BY <1>1, <2>1 DEF BatchCount
  <2>2. CASE total # 0
    <3>1. total - pos + Block - 1 \in Nat
      BY <1>1, <2>2
    <3>2. \A x \in Nat : x \div Block \in Nat
      BY <1>1
    <3>3. QED BY <1>1, <2>2, <3>1, <3>2 DEF BatchCount, Lesser
  <2>3. QED BY <2>1, <2>2
<1>3. \A i \in 1 .. BatchCount : pos + (i - 1) * Block \in Nat
  BY <1>1, <1>2
<1>4. \A i \in 1 .. BatchCount :
        /\ ChunkAt(pos + (i - 1) * Block) \in Seq(Cells)
        /\ Full(ChunkAt(pos + (i - 1) * Block), pos + (i - 1) * Block)
  BY <1>1, <1>3, ChunkFacts
<1>5. /\ Chunks \in Seq(Seq(Cells)) /\ Len(Chunks) = BatchCount
      /\ \A i \in 1 .. BatchCount : Chunks[i] \in Seq(Cells) /\ Full(Chunks[i], pos + (i - 1) * Block)
  <2>1. Chunks = [i \in 1 .. BatchCount |-> ChunkAt(pos + (i - 1) * Block)]
    BY <1>1 DEF Chunks
  <2>2. QED BY <1>2, <1>4, <2>1
<1>6. CASE answer = Chunks
  BY <1>5, <1>6 DEF Full
<1>7. CASE answer \in CutAnswers
  <2>1. PICK i \in 1 .. BatchCount, n \in 0 .. Block :
          answer = Append(SubSeq(Chunks, 1, i - 1), ShortOf(i, n)) /\ answer # Chunks
    BY <1>7 DEF CutAnswers
  <2> DEFINE front == SubSeq(Chunks, 1, i - 1)
             last == ShortOf(i, n)
             m == Lesser(n, Len(Chunks[i]))
  <2>2. i - 1 \in 0 .. Len(Chunks) /\ i - 1 \in Nat
    BY <1>2, <1>5
  <2>3. front \in Seq(Seq(Cells)) /\ Len(front) = i - 1 /\ \A j \in 1 .. i - 1 : front[j] = Chunks[j]
    BY <1>5, <2>2, FrontFacts
  <2>4. Chunks[i] \in Seq(Cells) /\ m \in 0 .. Len(Chunks[i])
        /\ Begins(Chunks[i], pos + (i - 1) * Block)
    BY <1>1, <1>5 DEF Full, Lesser
  <2>5. last \in Seq(Cells) /\ Begins(last, pos + (i - 1) * Block)
    <3> HIDE DEF m
    <3>1. last = SubSeq(Chunks[i], 1, m)
      BY DEF ShortOf, m
    <3>2. SubSeq(Chunks[i], 1, m) \in Seq(Cells)
      BY <2>4, FrontFacts
    <3>3. pos + (i - 1) * Block \in Nat
      BY <1>3
    <3>4. Begins(SubSeq(Chunks[i], 1, m), pos + (i - 1) * Block)
      BY <1>1, <2>4, <3>3, BeginsFront
    <3>5. QED BY <3>1, <3>2, <3>4
  <2> HIDE DEF front, last
  <2>6. answer = Append(front, last)
    BY <2>1 DEF front, last
  <2>7. /\ answer \in Seq(Seq(Cells)) /\ Len(answer) = i /\ answer[i] = last
        /\ \A j \in 1 .. i - 1 : answer[j] = front[j]
    BY <2>2, <2>3, <2>5, <2>6
  <2>8. ASSUME NEW j \in 1 .. Len(answer) PROVE Begins(answer[j], pos + (j - 1) * Block)
    <3>1. CASE j = i
      BY <2>5, <2>7, <3>1
    <3>2. CASE j # i
      <4>1. j \in 1 .. i - 1 /\ j \in 1 .. BatchCount
        BY <1>2, <2>2, <2>7, <3>2
      <4>2. QED BY <1>5, <2>3, <2>7, <4>1 DEF Full
    <3>3. QED BY <3>1, <3>2
  <2>9. QED BY <2>1, <2>7, <2>8
<1>8. CASE answer \in Refusals /\ answer # Chunks
  <2>1. answer = << <<Garbage>> >> \/ answer = << <<>> >>
    BY <1>8 DEF Refusals
  <2>2. Garbage \in Cells
    BY DEF Cells
  <2>3. <<Garbage>> \in Seq(Cells) /\ <<>> \in Seq(Cells) /\ Len(<<Garbage>>) = 1
    BY <2>2
  <2>4. PICK text \in Seq(Cells) : answer = <<text>> /\ (text = <<Garbage>> \/ text = <<>>)
    BY <2>1, <2>3
  <2>5. answer \in Seq(Seq(Cells)) /\ Len(answer) = 1 /\ answer[1] = text
    BY <2>4
  <2>6. Len(text) \in {0, 1}
    <3>1. CASE text = <<>>
      BY <3>1
    <3>2. CASE text = <<Garbage>>
      BY <2>3, <3>2
    <3>3. QED BY <2>4, <3>1, <3>2
  <2>7. Len(answer) = 1 /\ Len(answer[1]) < Block
    <3>1. \A n \in {0, 1} : n < Block
      BY <1>1
    <3>2. QED BY <2>5, <2>6, <3>1, Zenon
  <2>8. QED BY <1>8, <2>5, <2>7, Zenon
<1>9. QED BY <1>6, <1>7, <1>8

LEMMA FetchShape ==
  ASSUME Shape, Fetch
  PROVE  Shape'
<1>0. TypeOK
  BY DEF Shape
<1>1. pc = "fetch" /\ reported = "none" /\ job.dir = "download" /\ pos <= Len(dest)
      /\ Aligned(pos) = pos
  BY DEF Fetch, Shape, Stage
<1>2. CASE total > 0 /\ pos >= total
  BY <1>0, <1>2, ReportShape DEF Fetch, TypeOK
<1>3. CASE ~(total > 0 /\ pos >= total)
  <2>1. PICK answer \in {Chunks} \cup CutAnswers \cup Refusals :
          parts' = answer /\ clean' = (clean /\ answer = Chunks)
    BY <1>3 DEF Fetch
  <2>2. pc' = "write" /\ UNCHANGED <<job, dest, pos, reported, kept, unread, stacked, runs>>
    BY <1>3 DEF Fetch
  <2>3. /\ answer \in Seq(Seq(Cells))
        /\ \/ \A i \in 1 .. Len(answer) : Begins(answer[i], pos + (i - 1) * Block)
           \/ Len(answer) = 1 /\ Len(answer[1]) < Block
        /\ answer = Chunks => \A i \in 1 .. Len(answer) : Full(answer[i], pos + (i - 1) * Block)
    BY <1>1, <1>3, AnswerFacts
  <2>4. source' = source /\ total' = total
    BY <2>2, SameSource
  <2>5. \A p, at : (Begins(p, at)' <=> Begins(p, at)) /\ (Full(p, at)' <=> Full(p, at))
    BY <2>4 DEF Begins, Full
  <2>6. Answered'
    <3>1. clean' => answer = Chunks
      BY <2>1
    <3>2. \/ \A i \in 1 .. Len(answer) : Begins(answer[i], pos + (i - 1) * Block)'
          \/ Len(answer) = 1 /\ Len(answer[1]) < Block
      BY <2>3, <2>4, <2>2 DEF Begins
    <3>3. answer = Chunks => \A i \in 1 .. Len(answer) : Full(answer[i], pos + (i - 1) * Block)'
      BY <2>3, <2>4, <2>2 DEF Begins, Full
    <3>4. QED BY <2>1, <3>1, <3>2, <3>3 DEF Answered
  <2>7. TypeOK'
    BY <1>0, <2>1, <2>2, <2>3, <2>4 DEF TypeOK, source
  <2>8. Stage'
    BY <1>1, <2>2, <2>4 DEF Shape, Stage
  <2>9. QED BY <2>6, <2>7, <2>8 DEF Shape
<1>4. QED BY <1>2, <1>3

(* The part to be written, and the copy with its first n cells.            *)
LEMMA PartFacts ==
  ASSUME Shape, pc = "write", parts # <<>>
  PROVE  /\ Head(parts) = parts[1] /\ Len(parts) \in Nat \ {0}
         /\ Head(parts) \in Seq(Cells) /\ Len(Head(parts)) \in Nat
         /\ \A n \in 0 .. Len(Head(parts)) :
              LET part == SubSeq(Head(parts), 1, n)
              IN  part \in Seq(Cells) /\ Len(part) = n
                  /\ Written(Overwritten(pos, part), dest, pos, part)
         /\ Written(Overwritten(pos, Head(parts)), dest, pos, Head(parts))
<1>1. parts \in Seq(Seq(Cells)) /\ dest \in Seq(Cells) /\ pos \in 0 .. Len(dest)
  BY SourceFacts DEF Shape, Stage, TypeOK
<1>2. Head(parts) = parts[1] /\ Len(parts) \in Nat \ {0} /\ Head(parts) \in Seq(Cells)
  BY <1>1
<1>3. ASSUME NEW n \in 0 .. Len(Head(parts))
      PROVE  LET part == SubSeq(Head(parts), 1, n)
             IN  part \in Seq(Cells) /\ Len(part) = n
                 /\ Written(Overwritten(pos, part), dest, pos, part)
  <2> DEFINE part == SubSeq(Head(parts), 1, n)
  <2>1. part \in Seq(Cells) /\ Len(part) = n
    BY <1>2, FrontFacts
  <2> HIDE DEF part
  <2>2. Written(Overwritten(pos, part), dest, pos, part)
    BY <1>1, <2>1, OverwriteFacts
  <2>3. QED BY <2>1, <2>2 DEF part
<1>4. Written(Overwritten(pos, Head(parts)), dest, pos, Head(parts))
  BY <1>1, <1>2, OverwriteFacts
<1>5. Len(Head(parts)) \in Nat
  BY <1>2
<1>6. QED BY <1>2, <1>3, <1>4, <1>5

LEMMA PartAnswered ==
  ASSUME Shape, pc = "write", parts # <<>>
  PROVE  /\ ~EndOfFile(Head(parts)) => Begins(Head(parts), pos) /\ Len(Head(parts)) = Block
                                       /\ pos + Block <= Len(source)
         /\ clean => Full(Head(parts), pos)
<1>1. Head(parts) = parts[1] /\ Len(parts) \in Nat \ {0} /\ Len(Head(parts)) \in Nat
  BY PartFacts
<1>2. Block \in Nat \ {0, 1} /\ pos \in Nat
  BY ResumeAssumption, SourceFacts DEF Shape
<1>3. 1 \in 1 .. Len(parts) /\ pos + (1 - 1) * Block = pos
  BY <1>1, <1>2
<1>4. Begins(parts[1], pos) \/ Len(parts[1]) < Block
  BY <1>3 DEF Shape, Answered
<1>5. clean => Full(Head(parts), pos)
  BY <1>1, <1>3 DEF Shape, Answered
<1>6. ASSUME ~EndOfFile(Head(parts))
      PROVE  Begins(Head(parts), pos) /\ Len(Head(parts)) = Block /\ pos + Block <= Len(source)
  <2>1. Begins(Head(parts), pos) /\ ~(Len(Head(parts)) < Block)
    BY <1>1, <1>4, <1>6 DEF EndOfFile
  <2>2. Len(Head(parts)) = Block /\ Len(Head(parts)) # 0
    BY <1>1, <1>2, <2>1 DEF Begins
  <2>3. Head(parts) # <<>>
    BY <2>2
  <2>4. QED BY <2>1, <2>2, <2>3 DEF Begins
<1>7. QED BY <1>5, <1>6

LEMMA RestAnswered ==
  ASSUME Shape, pc = "write", parts # <<>>, ~EndOfFile(Head(parts)),
         pos' = pos + Block, parts' = Tail(parts), clean' = clean, job' = job
  PROVE  Answered' /\ parts' \in Seq(Seq(Cells))
<1>1. parts \in Seq(Seq(Cells)) /\ Len(parts) \in Nat \ {0} /\ pos \in Nat /\ Block \in Nat
      /\ Head(parts) = parts[1]
  BY PartFacts, SourceFacts, ResumeAssumption DEF Shape, TypeOK
<1>2. /\ parts' \in Seq(Seq(Cells)) /\ Len(parts') = Len(parts) - 1
      /\ \A i \in 1 .. Len(parts') : parts'[i] = parts[i + 1]
  BY <1>1
<1>3. source' = source
  BY SameSource
<1>4. \A i \in 1 .. Len(parts') :
        i + 1 \in 1 .. Len(parts) /\ pos' + (i - 1) * Block = pos + ((i + 1) - 1) * Block
  <2>1. \A i \in Nat : pos + Block + (i - 1) * Block = pos + ((i + 1) - 1) * Block
    <3>1. \A i \in Nat : i * Block = (i - 1) * Block + Block
      BY <1>1
    <3>2. \A i \in Nat : (i - 1) * Block \in Int /\ (i + 1) - 1 = i
      BY <1>1
    <3>3. QED BY <1>1, <3>1, <3>2
  <2>2. QED BY <1>1, <1>2, <2>1
<1>5. \A i \in 1 .. Len(parts) : Begins(parts[i], pos + (i - 1) * Block)
  <2>1. Head(parts) = parts[1] /\ ~(Len(parts[1]) < Block)
    BY <1>1 DEF EndOfFile
  <2>2. QED BY <2>1 DEF Shape, Answered
<1>6. ASSUME NEW i \in 1 .. Len(parts')
      PROVE  /\ Begins(parts[i], pos + (i - 1) * Block)'
             /\ clean' => Full(parts[i], pos + (i - 1) * Block)'
  <2> DEFINE p == parts[i + 1]
             at == pos + ((i + 1) - 1) * Block
  <2>1. Begins(p, at) /\ (clean => Full(p, at))
    BY <1>4, <1>5 DEF Shape, Answered
  <2>2. parts'[i] = p /\ pos' + (i - 1) * Block = at
    BY <1>2, <1>4
  <2> HIDE DEF p, at
  <2>3. Begins(parts[i], pos + (i - 1) * Block)'
    BY <1>3, <2>1, <2>2 DEF Begins
  <2>4. clean' => Full(parts[i], pos + (i - 1) * Block)'
    BY <1>3, <2>1, <2>2, <2>3 DEF Full
  <2>5. QED BY <2>3, <2>4
<1>7. QED BY <1>2, <1>6 DEF Answered

LEMMA WritePartShape ==
  ASSUME Shape, WritePart
  PROVE  Shape'
<1>0. TypeOK /\ Block \in Nat
  BY ResumeAssumption DEF Shape
<1>1. /\ pc = "write" /\ kept' = kept /\ clean' = clean /\ reported = "none"
      /\ job.dir = "download" /\ pos <= Len(dest) /\ Aligned(pos) = pos
      /\ pos \in Nat /\ Len(source) \in Nat /\ Len(dest) \in Nat
  BY <1>0, SourceFacts DEF WritePart, Shape, Stage
<1>2. CASE parts = <<>>
  <2>1. pc' = "fetch" /\ UNCHANGED <<job, dest, pos, parts, reported, unread, stacked, runs>>
    BY <1>2 DEF WritePart
  <2>2. TypeOK'
    BY <1>0, <1>1, <2>1 DEF TypeOK, source
  <2>3. Stage'
    BY <1>1, <1>2, <2>1 DEF Shape, Stage, Aligned
  <2>4. QED BY <1>2, <2>1, <2>2, <2>3, NoParts DEF Shape
<1>3. CASE parts # <<>>
  <2>1. dest' = Overwritten(pos, Head(parts))
    BY <1>3 DEF WritePart
  <2>2. Written(dest', dest, pos, Head(parts)) /\ Len(Head(parts)) \in Nat
    BY <1>1, <1>3, <2>1, PartFacts
  <2>3. dest' \in Seq(Cells) /\ pos + Len(Head(parts)) <= Len(dest')
    BY <1>1, <2>2 DEF Written
  <2>4. CASE EndOfFile(Head(parts))
    <3>1. Report("done")
      BY <1>3, <2>4 DEF WritePart
    <3>2. QED BY <1>0, <1>1, <2>3, <3>1, ReportShape DEF TypeOK
  <2>5. CASE ~EndOfFile(Head(parts))
    <3>1. /\ pos' = pos + Block /\ parts' = Tail(parts) /\ pos + Block <= Len(source)
          /\ Len(Head(parts)) = Block /\ UNCHANGED <<job, pc, reported, unread, stacked, runs>>
      BY <1>1, <1>3, <2>5, PartAnswered DEF WritePart
    <3>2. Answered' /\ parts' \in Seq(Seq(Cells))
      BY <1>1, <1>3, <2>5, <3>1, RestAnswered
    <3>3. pos' \in 0 .. Len(source) /\ pos' <= Len(dest') /\ Aligned(pos') = pos'
      BY <1>0, <1>1, <2>3, <3>1, AlignedNext
    <3>4. TypeOK'
      BY <1>0, <1>1, <2>3, <3>1, <3>2, <3>3 DEF TypeOK, source
    <3>5. Stage'
      <4>1. Aligned(pos)' = pos'
        BY <3>3 DEF Aligned
      <4>2. QED BY <1>1, <3>1, <3>3, <4>1 DEF Shape, Stage
    <3>6. QED BY <3>2, <3>4, <3>5 DEF Shape
  <2>6. QED BY <2>4, <2>5
<1>4. QED BY <1>2, <1>3

LEMMA InterruptedShape ==
  ASSUME Shape, Interrupted
  PROVE  Shape'
<1>0. TypeOK /\ dest \in Seq(Cells)
  BY SourceFacts DEF Shape
<1>1. dest' \in Seq(Cells)
  <2>1. dest' \in HalfWritten
    BY DEF Interrupted
  <2>2. CASE pc = "write" /\ parts # <<>>
    <3>1. PICK n \in 0 .. Len(Head(parts)) : dest' = Overwritten(pos, SubSeq(Head(parts), 1, n))
      BY <2>1, <2>2 DEF HalfWritten
    <3>2. Written(dest', dest, pos, SubSeq(Head(parts), 1, n))
      BY <2>2, <3>1, PartFacts
    <3>3. QED BY <3>2 DEF Written
  <2>3. CASE ~(pc = "write" /\ parts # <<>>) /\ pc = "send"
    <3>1. PICK n \in 0 .. Len(ChunkAt(pos)) : dest' = dest \o SubSeq(ChunkAt(pos), 1, n)
      BY <2>1, <2>3 DEF HalfWritten
    <3>2. QED BY <1>0, <3>1, AppendFacts DEF Joined
  <2>4. CASE ~(pc = "write" /\ parts # <<>>) /\ pc # "send"
    BY <1>0, <2>1, <2>4 DEF HalfWritten
  <2>5. QED BY <2>2, <2>3, <2>4
<1>2. PICK what \in {"failed", "none"} : Report(what)
  BY DEF Interrupted
<1>3. QED BY <1>0, <1>1, <1>2, ReportShape DEF Interrupted, TypeOK

LEMMA ShapeKept ==
  ASSUME Shape, [Next]_vars
  PROVE  Shape'
<1>1. CASE UNCHANGED vars
  BY <1>1 DEF vars, Shape, TypeOK, Stage, Answered, Begins, Full, Aligned, source, total
<1>2. CASE Next
  BY <1>2, StartDownloadShape, StartUploadShape, CompareDownloadShape, FetchShape,
     WritePartShape, CompareUploadShape, TruncateShape, SendShape, InterruptedShape
     DEF Next, Step
<1>3. QED BY <1>1, <1>2
-----------------------------------------------------------------------------
(* What a run that took over a right beginning makes of it.                *)
LEMMA TakenOver ==
  ASSUME TypeOK, NEW copy \in Seq(Cells), NEW n \in 0 .. Len(copy)
  PROVE  IsPrefix(SubSeq(copy, 1, n), source) <=> Agrees(copy, n)
<1>1. source \in Seq(Cells) /\ n <= Len(copy)
  BY SourceFacts
<1>2. IsPrefix(SubSeq(copy, 1, n), source)
        <=> n <= Len(source) /\ \A i \in 1 .. n : copy[i] = source[i]
  BY <1>1, PrefixFacts
<1>3. QED BY <1>1, <1>2 DEF Agrees

LEMMA SameWell ==
  ASSUME job' = job, kept' = kept
  PROVE  (TookOverWell' <=> TookOverWell) /\ \A copy, n : Agrees(copy, n)' <=> Agrees(copy, n)
BY SameSource DEF TookOverWell, Agrees

(* The run goes on from a part of what it finds.                           *)
LEMMA GoneOn ==
  ASSUME TypeOK, job' = job, dest' \in Seq(Cells), NEW n \in 0 .. Len(dest'),
         kept' = [text |-> dest', from |-> n], TookOverWell'
  PROVE  Len(dest') <= Len(source) /\ Agrees(dest', n)
<1>1. source' = source
  BY SameSource
<1>2. Len(dest') <= Len(source) /\ IsPrefix(SubSeq(dest', 1, n), source)
  BY <1>1 DEF TookOverWell
<1>3. QED BY <1>2, TakenOver

LEMMA TakenAsItIs ==
  ASSUME Shape, pc = "idle", job' = job, LooksComplete, TakenAsIs
  PROVE  Filled' /\ Intact'
<1>1. /\ reported' = "done" /\ kept' = [text |-> dest', from |-> Len(dest')]
      /\ dest' = dest /\ pc' = "idle"
  BY DEF TakenAsIs
<1>2. /\ TypeOK /\ dest' \in Seq(Cells) /\ Len(dest') \in 0 .. Len(dest') /\ Len(source) \in Nat
      /\ Len(dest) \in Nat
  BY <1>1, SourceFacts DEF Shape
<1>3. ASSUME TookOverWell' PROVE dest' = source'
  <2>1. Len(dest') <= Len(source) /\ Agrees(dest', Len(dest'))
    BY <1>1, <1>2, <1>3, GoneOn
  <2>2. Len(dest') = Len(source)
    BY <1>1, <1>2, <2>1, SourceFacts DEF LooksComplete
  <2>3. QED BY <1>2, <2>1, <2>2, AllAgree, SameSource
<1>4. QED BY <1>1, <1>3 DEF Filled, Intact

LEMMA StartDownloadFills ==
  ASSUME Shape, Shape', StartDownload
  PROVE  Filled' /\ Intact'
<1>1. pc = "idle" /\ job' = job
  BY DEF StartDownload, NewRun
<1>2. CASE LooksComplete
  BY <1>1, <1>2, TakenAsItIs DEF StartDownload
<1>3. CASE ~LooksComplete
  <2>1. /\ reported' = "none"
        /\ \/ pc' = "compare"
           \/ pc' = "fetch" /\ pos' = 0 /\ kept' = [text |-> dest', from |-> 0]
    BY <1>3 DEF StartDownload, GoOn
  <2>2. CASE pc' = "compare"
    BY <2>1, <2>2 DEF Filled, Intact
  <2>3. CASE pc' = "fetch" /\ pos' = 0 /\ kept' = [text |-> dest', from |-> 0]
    <3>1. TypeOK /\ dest' \in Seq(Cells) /\ 0 \in 0 .. Len(dest') /\ source' = source
      BY <1>1, SameSource DEF Shape, TypeOK
    <3>2. TookOverWell' => Len(dest') <= Len(source) /\ Agrees(dest', 0)
      BY <1>1, <2>3, <3>1, GoneOn
    <3>3. QED BY <2>1, <2>3, <3>1, <3>2 DEF Filled, Intact, Agrees
  <2>4. QED BY <2>1, <2>2, <2>3
<1>4. QED BY <1>2, <1>3

LEMMA CompareDownloadFills ==
  ASSUME Shape, Shape', CompareDownload
  PROVE  Filled' /\ Intact'
<1>1. /\ job' = job /\ reported' = "none" /\ pc' = "fetch"
      /\ kept' = [text |-> dest', from |-> pos']
  BY DEF CompareDownload, GoOn, Shape, Stage
<1>2. TypeOK /\ dest' \in Seq(Cells) /\ pos' \in 0 .. Len(dest') /\ source' = source
  BY <1>1, SameSource DEF Shape, TypeOK, Stage
<1>3. TookOverWell' => Len(dest') <= Len(source) /\ Agrees(dest', pos')
  BY <1>1, <1>2, GoneOn
<1>4. QED BY <1>1, <1>2, <1>3 DEF Filled, Intact, Agrees

LEMMA FetchFills ==
  ASSUME Shape, Filled, Fetch
  PROVE  Filled' /\ Intact'
<1>1. /\ pc = "fetch" /\ reported = "none" /\ TypeOK /\ pos \in 0 .. Len(source)
      /\ job' = job /\ dest' = dest /\ kept' = kept /\ source' = source
  BY SameSource DEF Fetch, Report, Shape, Stage, TypeOK, source
<1>2. CASE total > 0 /\ pos >= total
  <2>1. pc' = "idle"
    BY <1>2 DEF Fetch, Report
  <2>2. ASSUME TookOverWell PROVE dest = source
    <3>1. Len(dest) <= Len(source) /\ Agrees(dest, pos)
      BY <1>1, <2>2 DEF Filled
    <3>2. pos = Len(source) /\ dest \in Seq(Cells)
      BY <1>1, <1>2, SourceFacts
    <3>3. QED BY <1>1, <3>1, <3>2, AllAgree
  <2>3. QED BY <1>1, <2>1, <2>2, SameWell DEF Filled, Intact
<1>3. CASE ~(total > 0 /\ pos >= total)
  <2>1. pc' = "write" /\ pos' = pos /\ reported' = "none"
    BY <1>1, <1>3 DEF Fetch
  <2>2. QED BY <1>1, <2>1, SameWell DEF Filled, Intact, Agrees
<1>4. QED BY <1>2, <1>3

(* A part of an answer written where it belongs.                           *)
LEMMA WrittenAgrees ==
  ASSUME TypeOK, NEW copy \in Seq(Cells), NEW at \in 0 .. Len(copy), Agrees(copy, at),
         NEW part \in Seq(Cells), Begins(part, at), NEW r, Written(r, copy, at, part)
  PROVE  /\ Agrees(r, at + Len(part))
         /\ Len(copy) <= Len(source) => Len(r) <= Len(source)
<1>1. /\ r \in Seq(Cells) /\ at \in Nat /\ Len(part) \in Nat /\ Len(copy) \in Nat
      /\ Len(r) = IF at + Len(part) <= Len(copy) THEN Len(copy) ELSE at + Len(part)
      /\ \A i \in 1 .. at : r[i] = copy[i]
      /\ \A k \in 1 .. Len(part) : r[at + k] = part[k]
  BY DEF Written
<1>2. at + Len(part) <= Len(r)
  BY <1>1
<1>3. Agrees(r, at + Len(part))
  BY <1>1, <1>2, AgreesMore
<1>4. at + Len(part) <= Len(source)
  BY <1>3 DEF Agrees
<1>5. QED BY <1>1, <1>3, <1>4

LEMMA WritePartFills ==
  ASSUME Shape, Shape', Filled, WritePart
  PROVE  Filled' /\ Intact'
<1>1. /\ pc = "write" /\ reported = "none" /\ TypeOK /\ pos \in 0 .. Len(dest)
      /\ dest \in Seq(Cells) /\ Len(source) \in Nat /\ Len(dest) \in Nat
      /\ job' = job /\ kept' = kept /\ clean' = clean /\ source' = source
  BY SourceFacts, SameSource DEF WritePart, Report, Shape, Stage
<1>2. CASE parts = <<>>
  <2>1. pc' = "fetch" /\ UNCHANGED <<dest, pos, reported>>
    BY <1>2 DEF WritePart
  <2>2. QED BY <1>1, <2>1, SameWell DEF Filled, Intact, Agrees
<1>3. CASE parts # <<>>
  <2>1. Written(dest', dest, pos, Head(parts)) /\ Head(parts) \in Seq(Cells)
        /\ Len(Head(parts)) \in Nat
    BY <1>1, <1>3, PartFacts DEF WritePart
  <2>2. ASSUME TookOverWell, Begins(Head(parts), pos)
        PROVE  Len(dest') <= Len(source) /\ Agrees(dest', pos + Len(Head(parts)))
    <3>1. Len(dest) <= Len(source) /\ Agrees(dest, pos)
      BY <1>1, <2>2 DEF Filled
    <3>2. QED BY <1>1, <2>1, <2>2, <3>1, WrittenAgrees
  <2>3. CASE EndOfFile(Head(parts))
    <3>1. pc' = "idle"
      BY <1>3, <2>3 DEF WritePart, Report
    <3>2. ASSUME clean, TookOverWell PROVE dest' = source
      <4>1. Full(Head(parts), pos)
        BY <1>1, <1>3, <3>2, PartAnswered
      <4>2. pos + Len(Head(parts)) >= Len(source)
        BY <2>1, <2>3, <4>1, ResumeAssumption DEF Full, EndOfFile
      <4>3. Len(dest') <= Len(source) /\ Agrees(dest', pos + Len(Head(parts)))
        BY <2>2, <3>2, <4>1 DEF Full
      <4>4. pos + Len(Head(parts)) = Len(source) /\ dest' \in Seq(Cells)
        BY <1>1, <2>1, <4>2, <4>3 DEF Agrees, Written
      <4>5. QED BY <1>1, <4>3, <4>4, AllAgree
    <3>3. QED BY <1>1, <3>1, <3>2, SameWell DEF Filled, Intact
  <2>4. CASE ~EndOfFile(Head(parts))
    <3>1. /\ pos' = pos + Len(Head(parts)) /\ pc' = "write" /\ reported' = "none"
          /\ Begins(Head(parts), pos)
      BY <1>1, <1>3, <2>4, PartAnswered DEF WritePart
    <3>2. TookOverWell => Len(dest') <= Len(source) /\ Agrees(dest', pos')
      BY <2>2, <3>1
    <3>3. QED BY <1>1, <3>1, <3>2, SameWell DEF Filled, Intact, Agrees
  <2>5. QED BY <2>3, <2>4
<1>4. QED BY <1>2, <1>3

LEMMA StartUploadFills ==
  ASSUME Shape, StartUpload
  PROVE  Filled' /\ Intact'
<1>1. pc = "idle" /\ job' = job
  BY DEF StartUpload, NewRun
<1>2. \/ LooksComplete /\ TakenAsIs
      \/ reported' = "none" /\ pc' \in {"compare", "truncate"}
  BY DEF StartUpload
<1>3. CASE LooksComplete /\ TakenAsIs
  BY <1>1, <1>3, TakenAsItIs
<1>4. CASE reported' = "none" /\ pc' \in {"compare", "truncate"}
  BY <1>4 DEF Filled, Intact
<1>5. QED BY <1>2, <1>3, <1>4

LEMMA CompareUploadFills ==
  ASSUME Shape, Shape', CompareUpload
  PROVE  Filled' /\ Intact'
<1>1. job' = job /\ reported' = "none"
  BY DEF CompareUpload, Shape, Stage
<1>2. \/ /\ dest' = dest /\ pc' = "send" /\ pos' = Len(dest')
         /\ kept' = [text |-> dest', from |-> Len(dest')]
      \/ pc' = "truncate"
  BY DEF CompareUpload, GoOn
<1>3. CASE pc' = "truncate"
  BY <1>1, <1>3 DEF Filled, Intact
<1>4. CASE /\ dest' = dest /\ pc' = "send" /\ pos' = Len(dest')
           /\ kept' = [text |-> dest', from |-> Len(dest')]
  <2>1. TypeOK /\ dest' \in Seq(Cells) /\ Len(dest') \in 0 .. Len(dest') /\ source' = source
    BY <1>1, SameSource DEF Shape, TypeOK
  <2>2. TookOverWell' => Agrees(dest', pos')
    BY <1>1, <1>4, <2>1, GoneOn
  <2>3. QED BY <1>1, <1>4, <2>1, <2>2 DEF Filled, Intact, Agrees
<1>5. QED BY <1>2, <1>3, <1>4

LEMMA TruncateFills ==
  ASSUME Shape, Truncate
  PROVE  Filled' /\ Intact'
<1>1. /\ job' = job /\ reported' = "none" /\ pc' = "send" /\ pos' = 0
      /\ clean' => dest' = <<>>
  BY DEF Truncate, GoOn, Shape, Stage
<1>2. source' = source /\ Len(source) \in Nat
  BY <1>1, SourceFacts, SameSource DEF Shape
<1>3. clean' => Len(dest') = pos' /\ Agrees(dest', pos')
  BY <1>1, <1>2 DEF Agrees
<1>4. QED BY <1>1, <1>2, <1>3 DEF Filled, Intact, Agrees

LEMMA SendFills ==
  ASSUME Shape, Filled, Send
  PROVE  Filled' /\ Intact'
<1>1. /\ pc = "send" /\ reported = "none" /\ TypeOK /\ pos \in 0 .. Len(source)
      /\ dest \in Seq(Cells) /\ Len(source) \in Nat /\ Len(dest) \in Nat
      /\ job' = job /\ kept' = kept /\ source' = source
  BY SourceFacts, SameSource DEF Send, Report, Shape, Stage, TypeOK, source
<1>2. CASE pos >= Len(source)
  <2>1. pc' = "idle" /\ dest' = dest /\ clean' = clean
    BY <1>2 DEF Send, Report
  <2>2. ASSUME clean, TookOverWell PROVE dest = source
    <3>1. Len(dest) = pos /\ Agrees(dest, pos) /\ pos = Len(source)
      BY <1>1, <1>2, <2>2 DEF Filled
    <3>2. QED BY <1>1, <3>1, AllAgree
  <2>3. QED BY <1>1, <2>1, <2>2, SameWell DEF Filled, Intact
<1>3. CASE ~(pos >= Len(source))
  <2>1. PICK n \in 0 .. Len(ChunkAt(pos)) :
          dest' = dest \o SubSeq(ChunkAt(pos), 1, n) /\ clean' = (clean /\ n = Len(ChunkAt(pos)))
    BY <1>3 DEF Send
  <2>2. pos' = pos + Len(ChunkAt(pos)) /\ pc' = "send" /\ reported' = "none"
    BY <1>1, <1>3 DEF Send, Sent
  <2>3. ASSUME clean', TookOverWell PROVE Len(dest') = pos' /\ Agrees(dest', pos')
    <3> DEFINE part == SubSeq(ChunkAt(pos), 1, n)
    <3>1. Len(dest) = pos /\ Agrees(dest, pos) /\ n = Len(ChunkAt(pos))
      BY <1>1, <2>1, <2>3 DEF Filled
    <3>2. /\ Joined(dest', dest, part) /\ Len(part) = n /\ Begins(part, pos)
          /\ part \in Seq(Cells)
      BY <1>1, <2>1, AppendFacts
    <3> HIDE DEF part
    <3>3. Len(dest') = pos' /\ dest' \in Seq(Cells)
      BY <2>2, <3>1, <3>2 DEF Joined
    <3>4. Written(dest', dest, pos, part)
      BY <3>1, <3>2 DEF Joined, Written
    <3>5. Agrees(dest', pos + Len(part))
      BY <1>1, <3>1, <3>2, <3>4, WrittenAgrees
    <3>6. QED BY <2>2, <3>1, <3>2, <3>3, <3>5
  <2>4. QED BY <1>1, <2>2, <2>3, SameWell DEF Filled, Intact, Agrees
<1>4. QED BY <1>2, <1>3

LEMMA FilledKept ==
  ASSUME Shape, Shape', Filled, Intact, [Next]_vars
  PROVE  Filled' /\ Intact'
<1>1. CASE UNCHANGED vars
  BY <1>1 DEF vars, Filled, Intact, TookOverWell, Agrees, source
<1>2. CASE Interrupted
  BY <1>2 DEF Interrupted, Report, Filled, Intact
<1>3. CASE Next /\ ~Interrupted
  BY <1>3, StartDownloadFills, StartUploadFills, CompareDownloadFills, FetchFills,
     WritePartFills, CompareUploadFills, TruncateFills, SendFills DEF Next, Step
<1>4. QED BY <1>1, <1>2, <1>3
-----------------------------------------------------------------------------
(* What a run may go on from: a right part of the copy, or nothing.         *)
LEMMA SoundFrom ==
  ASSUME TypeOK, job' = job, dest' \in Seq(Cells), NEW n \in 0 .. Len(dest'),
         kept' = [text |-> dest', from |-> n], Agrees(dest', n)
  PROVE  OwnWorkIsSound'
<1>1. source' = source /\ IsPrefix(SubSeq(dest', 1, n), source)
  BY SameSource, TakenOver
<1>2. QED BY <1>1 DEF OwnWorkIsSound

LEMMA SoundStays ==
  ASSUME OwnWorkIsSound, job' = job, kept' = kept, stacked' = stacked,
         pc \in {"fetch", "write", "send"} \/ pc' \notin {"fetch", "write", "send"}
  PROVE  OwnWorkIsSound'
BY SameSource DEF OwnWorkIsSound

(* A download is of no concern to the invariants of an upload, and back.    *)
LEMMA NoUpload ==
  ASSUME job' = job, job.dir # "upload"
  PROVE  OwnUpload'
BY DEF OwnUpload

LEMMA NoDownload ==
  ASSUME job' = job, job.dir # "download", Shape'
  PROVE  OwnDownload' /\ FromTheStart'
BY DEF OwnDownload, FromTheStart, Shape, Stage

LEMMA NothingAgrees ==
  ASSUME TypeOK, NEW copy \in Seq(Cells)
  PROVE  Agrees(copy, 0)
<1>1. Len(source) \in Nat /\ Len(copy) \in Nat
  BY SourceFacts
<1>2. QED BY <1>1 DEF Agrees

LEMMA StartDownloadOwn ==
  ASSUME Shape, Shape', OwnDownload, OwnWorkIsSound, StartDownload
  PROVE  OwnDownload' /\ FromTheStart' /\ OwnUpload' /\ OwnWorkIsSound'
<1>1. /\ pc = "idle" /\ job' = job /\ stacked' = stacked /\ job.dir = "download"
      /\ source' = source /\ total' = total /\ TypeOK /\ dest \in Seq(Cells)
      /\ dest' \in Seq(Cells) /\ Len(dest) \in Nat /\ Len(dest') \in Nat /\ Len(source) \in Nat
      /\ total \in Nat
  BY SameSource, SourceFacts DEF StartDownload, NewRun, Shape, TypeOK
<1>2. OwnUpload'
  BY <1>1, NoUpload
<1>3. CASE LooksComplete
  <2>1. dest' = dest /\ pc' = "idle"
    BY <1>1, <1>3 DEF StartDownload, TakenAsIs
  <2>2. OwnWorkIsSound' /\ FromTheStart'
    BY <2>1 DEF OwnWorkIsSound, FromTheStart
  <2>3. OwnDownload'
    BY <1>1, <2>1 DEF OwnDownload, Agrees, Aligned
  <2>4. QED BY <1>2, <2>2, <2>3
<1>4. CASE ~LooksComplete
  <2>1. /\ dest' = IF total > 0 THEN CutToBlocks ELSE dest
        /\ \/ pc' = "compare" /\ total > 0
           \/ /\ pc' = "fetch" /\ pos' = 0 /\ kept' = [text |-> dest', from |-> 0]
              /\ total > 0 => dest' = <<>>
    BY <1>4 DEF StartDownload, GoOn
  <2>2. Agrees(dest', 0) /\ 0 \in 0 .. Len(dest')
    BY <1>1, NothingAgrees
  <2>3. OwnWorkIsSound'
    <3>1. CASE pc' = "compare"
      BY <3>1 DEF OwnWorkIsSound
    <3>2. CASE kept' = [text |-> dest', from |-> 0]
      BY <1>1, <2>2, <3>2, SoundFrom
    <3>3. QED BY <2>1, <3>1, <3>2
  <2>4. FromTheStart'
    BY <1>1, <2>1 DEF FromTheStart
  <2>5. ASSUME job.before = <<>>, total > 0
        PROVE  Agrees(dest', Aligned(Len(dest')))
    <3> DEFINE a == Aligned(Len(dest))
    <3>1. /\ a \in Nat /\ a <= Len(dest) /\ Aligned(a) = a /\ a \in 0 .. Len(dest)
          /\ Agrees(dest, a)
      BY <1>1, <2>5, AlignedFacts DEF OwnDownload
    <3> HIDE DEF a
    <3>2. dest' = SubSeq(dest, 1, a)
      BY <2>1, <2>5 DEF CutToBlocks, a
    <3>3. Len(dest') = a /\ \A i \in 1 .. a : dest'[i] = dest[i]
      BY <1>1, <3>1, <3>2, FrontFacts
    <3>4. Agrees(dest', a)
      BY <3>1, <3>3 DEF Agrees
    <3>5. QED BY <3>1, <3>3, <3>4
  <2>6. pc' \in {"fetch", "write"} /\ total > 0 => Len(dest') = pos'
    BY <2>1
  <2>7. OwnDownload'
    BY <1>1, <2>5, <2>6 DEF OwnDownload, Agrees, Aligned
  <2>8. QED BY <1>2, <2>3, <2>4, <2>7
<1>5. QED BY <1>3, <1>4

LEMMA CompareDownloadOwn ==
  ASSUME Shape, Shape', OwnDownload, CompareDownload
  PROVE  OwnDownload' /\ FromTheStart' /\ OwnUpload' /\ OwnWorkIsSound'
<1>1. /\ pc = "compare" /\ job' = job /\ stacked' = stacked /\ job.dir = "download"
      /\ source' = source /\ total' = total /\ TypeOK /\ dest \in Seq(Cells)
      /\ dest' \in Seq(Cells) /\ Len(dest) \in Nat /\ Len(source) \in Nat
      /\ total > 0 /\ Aligned(Len(dest)) = Len(dest)
      /\ pc' = "fetch" /\ kept' = [text |-> dest', from |-> pos'] /\ pos' = Len(dest')
  BY SameSource, SourceFacts DEF CompareDownload, GoOn, Shape, Stage, TypeOK
<1>2. OwnUpload'
  BY <1>1, NoUpload
<1>3. FromTheStart'
  BY <1>1 DEF FromTheStart
<1>4. Aligned(Len(dest')) = Len(dest')
  <2>1. CASE dest' = dest
    BY <1>1, <2>1
  <2>2. CASE dest' = <<>>
    BY <2>2, Zeros
  <2>3. QED BY <2>1, <2>2 DEF CompareDownload
<1>5. ASSUME job.before = <<>> PROVE Agrees(dest', Len(dest'))
  <2>1. CASE dest' = dest
    BY <1>1, <1>5, <2>1 DEF OwnDownload
  <2>2. CASE dest' = <<>>
    BY <1>1, <2>2, NothingAgrees
  <2>3. QED BY <2>1, <2>2 DEF CompareDownload
<1>6. OwnDownload'
  BY <1>1, <1>4, <1>5 DEF OwnDownload, Agrees, Aligned
<1>7. OwnWorkIsSound'
  <2>1. CASE job.before = <<>>
    <3>1. Len(dest') \in 0 .. Len(dest')
      BY <1>1
    <3>2. QED BY <1>1, <1>5, <2>1, <3>1, SoundFrom
  <2>2. CASE job.before # <<>>
    BY <1>1, <2>2 DEF OwnWorkIsSound
  <2>3. QED BY <2>1, <2>2
<1>8. QED BY <1>2, <1>3, <1>6, <1>7

LEMMA FetchOwn ==
  ASSUME Shape, OwnDownload, FromTheStart, OwnWorkIsSound, Fetch
  PROVE  OwnDownload' /\ FromTheStart' /\ OwnUpload' /\ OwnWorkIsSound'
<1>1. /\ pc = "fetch" /\ job' = job /\ stacked' = stacked /\ job.dir = "download"
      /\ dest' = dest /\ kept' = kept
      /\ pc' = "idle" \/ (pc' = "write" /\ pos' = pos)
  BY DEF Fetch, Report, Shape, Stage
<1>2. OwnUpload'
  BY <1>1, NoUpload
<1>3. OwnWorkIsSound'
  BY <1>1, SoundStays
<1>4. OwnDownload' /\ FromTheStart'
  BY <1>1, SameSource DEF OwnDownload, FromTheStart, Agrees, Aligned
<1>5. QED BY <1>2, <1>3, <1>4

(* What a download has of its own stays right, whatever part of an answer   *)
(* is written behind it.                                                   *)
LEMMA WrittenOwn ==
  ASSUME TypeOK, NEW n \in Nat, Aligned(n) = n, dest \in Seq(Cells), Len(dest) = n,
         Agrees(dest, n), NEW part \in Seq(Cells), NEW r, Written(r, dest, n, part),
         Len(part) < Block \/ (Len(part) = Block /\ Begins(part, n))
  PROVE  Len(r) = n + Len(part) /\ Agrees(r, Aligned(Len(r)))
<1>1. /\ r \in Seq(Cells) /\ Len(r) = n + Len(part) /\ Len(part) \in Nat /\ Len(source) \in Nat
      /\ \A i \in 1 .. n : r[i] = dest[i]
  BY SourceFacts DEF Written
<1>2. CASE Len(part) < Block
  <2>1. Aligned(Len(r)) = n
    <3>1. Len(part) \in 0 .. Block - 1
      BY <1>1, <1>2, ResumeAssumption
    <3>2. QED BY <1>1, <3>1, AlignedNext
  <2>2. Agrees(r, n)
    BY <1>1 DEF Agrees
  <2>3. QED BY <1>1, <2>1, <2>2
<1>3. CASE Len(part) = Block /\ Begins(part, n)
  <2>1. n \in 0 .. Len(dest)
    OBVIOUS
  <2>2. Agrees(r, n + Len(part))
    BY <1>3, <2>1, WrittenAgrees
  <2>3. Aligned(Len(r)) = n + Len(part)
    BY <1>1, <1>3, AlignedNext
  <2>4. QED BY <1>1, <2>2, <2>3
<1>4. QED BY <1>2, <1>3

LEMMA WritePartOwn ==
  ASSUME Shape, OwnDownload, FromTheStart, OwnWorkIsSound, WritePart
  PROVE  OwnDownload' /\ FromTheStart' /\ OwnUpload' /\ OwnWorkIsSound'
<1>1. /\ pc = "write" /\ job' = job /\ stacked' = stacked /\ job.dir = "download"
      /\ source' = source /\ total' = total /\ kept' = kept /\ TypeOK /\ dest \in Seq(Cells)
      /\ Aligned(pos) = pos /\ pos \in Nat /\ Len(dest) \in Nat
  BY SameSource, SourceFacts DEF WritePart, Report, Shape, Stage
<1>2. OwnUpload'
  BY <1>1, NoUpload
<1>3. OwnWorkIsSound'
  BY <1>1, SoundStays
<1>4. FromTheStart'
  BY <1>1 DEF FromTheStart
<1>5. CASE parts = <<>>
  <2>1. dest' = dest /\ pos' = pos
    BY <1>5 DEF WritePart
  <2>2. OwnDownload'
    BY <1>1, <2>1 DEF OwnDownload, Agrees, Aligned
  <2>3. QED BY <1>2, <1>3, <1>4, <2>2
<1>6. CASE parts # <<>>
  <2>1. /\ Written(dest', dest, pos, Head(parts)) /\ Head(parts) \in Seq(Cells)
        /\ EndOfFile(Head(parts)) => pc' = "idle"
        /\ ~EndOfFile(Head(parts)) => pos' = pos + Len(Head(parts))
    BY <1>1, <1>6, PartFacts DEF WritePart, Report
  <2>2. Len(Head(parts)) < Block \/ (Len(Head(parts)) = Block /\ Begins(Head(parts), pos))
    BY <1>1, <1>6, PartAnswered DEF EndOfFile
  <2>3. ASSUME job.before = <<>>, total > 0
        PROVE  Len(dest') = pos + Len(Head(parts)) /\ Agrees(dest', Aligned(Len(dest')))
    <3>1. Len(dest) = pos /\ Agrees(dest, pos)
      BY <1>1, <2>3 DEF OwnDownload
    <3>2. QED BY <1>1, <2>1, <2>2, <3>1, WrittenOwn
  <2>4. OwnDownload'
    BY <1>1, <2>1, <2>3 DEF OwnDownload, Agrees, Aligned
  <2>5. QED BY <1>2, <1>3, <1>4, <2>4
<1>7. QED BY <1>5, <1>6

LEMMA InterruptedOwnDownload ==
  ASSUME Shape, Shape', OwnDownload, Interrupted
  PROVE  OwnDownload' /\ FromTheStart'
<1>1. /\ job' = job /\ pc' = "idle" /\ source' = source /\ total' = total
      /\ TypeOK /\ dest \in Seq(Cells) /\ pos \in Nat /\ Len(dest) \in Nat
      /\ dest' \in HalfWritten
  BY SameSource, SourceFacts DEF Interrupted, Report, Shape
<1>2. FromTheStart'
  BY <1>1 DEF FromTheStart
<1>3. ASSUME job.before = <<>>, job.dir = "download", total > 0
      PROVE  Agrees(dest', Aligned(Len(dest')))
  <2>1. CASE pc = "write" /\ parts # <<>>
    <3>1. PICK n \in 0 .. Len(Head(parts)) : dest' = Overwritten(pos, SubSeq(Head(parts), 1, n))
      BY <1>1, <2>1 DEF HalfWritten
    <3> DEFINE part == SubSeq(Head(parts), 1, n)
    <3>2. part \in Seq(Cells) /\ Len(part) = n /\ Written(dest', dest, pos, part)
      BY <2>1, <3>1, PartFacts
    <3>3. Head(parts) \in Seq(Cells) /\ Len(Head(parts)) \in Nat /\ n \in Nat
      BY <2>1, PartFacts
    <3>4. Len(part) < Block \/ (Len(part) = Block /\ Begins(part, pos))
      <4>1. CASE EndOfFile(Head(parts))
        <5>1. n <= Len(Head(parts)) /\ Len(Head(parts)) < Block /\ Block \in Nat
          BY <3>3, <4>1, ResumeAssumption DEF EndOfFile
        <5> HIDE DEF part
        <5>2. QED BY <3>2, <3>3, <5>1
      <4>2. CASE ~EndOfFile(Head(parts))
        <5>1. Begins(Head(parts), pos) /\ Len(Head(parts)) = Block
          BY <2>1, <4>2, PartAnswered
        <5>2. Begins(part, pos)
          BY <1>1, <3>3, <5>1, BeginsFront
        <5> HIDE DEF part
        <5>3. n <= Block /\ Block \in Nat
          BY <5>1, ResumeAssumption
        <5>4. QED BY <3>2, <3>3, <5>2, <5>3
      <4>3. QED BY <4>1, <4>2
    <3> HIDE DEF part
    <3>5. Len(dest) = pos /\ Agrees(dest, pos) /\ Aligned(pos) = pos
      BY <1>3, <2>1 DEF OwnDownload, Shape, Stage
    <3>6. QED BY <1>1, <3>2, <3>4, <3>5, WrittenOwn
  <2>2. CASE ~(pc = "write" /\ parts # <<>>)
    <3>1. dest' = dest
      BY <1>1, <1>3, <2>2 DEF HalfWritten, Shape, Stage
    <3>2. QED BY <1>3, <3>1 DEF OwnDownload
  <2>3. QED BY <2>1, <2>2
<1>4. OwnDownload'
  BY <1>1, <1>3 DEF OwnDownload, Agrees, Aligned
<1>5. QED BY <1>2, <1>4
-----------------------------------------------------------------------------
(* An upload whose copy ends as the source would, has lost nothing.        *)
LEMMA NoGaps ==
  ASSUME TypeOK, IsInjective(source), NEW place \in [1 .. Len(dest) -> Nat],
         Gaps(dest, place), dest # <<>>, Len(dest) <= Len(source), SameTail
  PROVE  Agrees(dest, Len(dest))
<1> DEFINE last == Len(dest)
<1>1. /\ source \in Seq(Cells) /\ Len(source) \in Nat /\ dest \in Seq(Cells) /\ last \in Nat
      /\ last \in 1 .. last /\ last \in 1 .. Len(source)
  BY SourceFacts
<1>2. place[last] \in 1 .. Len(source) /\ source[place[last]] = source[last]
  <2>1. place[last] \in last .. Len(source) /\ dest[last] = source[place[last]]
    BY <1>1 DEF Gaps
  <2>2. dest[last] = source[last]
    BY TailFacts
  <2>3. QED BY <1>1, <2>1, <2>2
<1>3. place[last] = last
  <2>1. DOMAIN source = 1 .. Len(source)
    BY <1>1
  <2>2. QED BY <1>1, <1>2, <2>1 DEF IsInjective
<1>4. ASSUME NEW i \in 1 .. last PROVE dest[i] = source[i]
  <2>1. /\ place[i] \in i .. Len(source) /\ dest[i] = source[place[i]]
        /\ place[last] - place[i] >= last - i
    BY <1>1 DEF Gaps
  <2>2. place[i] = i
    BY <1>1, <1>3, <2>1
  <2>3. QED BY <2>1, <2>2
<1>5. QED BY <1>1, <1>4 DEF Agrees

LEMMA PlaceItself ==
  ASSUME TypeOK, NEW copy \in Seq(Cells), Agrees(copy, Len(copy))
  PROVE  \E place \in [1 .. Len(copy) -> Nat] :
           Gaps(copy, place) /\ Before(copy, place, Len(copy))
<1>1. Len(copy) \in Nat /\ Len(source) \in Nat /\ Len(copy) <= Len(source)
      /\ \A i \in 1 .. Len(copy) : copy[i] = source[i]
  BY SourceFacts DEF Agrees
<1> DEFINE itself == [i \in 1 .. Len(copy) |-> i]
<1>2. itself \in [1 .. Len(copy) -> Nat] /\ \A i \in 1 .. Len(copy) : itself[i] = i
  OBVIOUS
<1> HIDE DEF itself
<1>3. ASSUME NEW i \in 1 .. Len(copy)
      PROVE  /\ itself[i] \in i .. Len(source) /\ copy[i] = source[itself[i]]
             /\ itself[Len(copy)] - itself[i] >= Len(copy) - i
             /\ Len(copy) - itself[i] >= Len(copy) - i
  <2>1. itself[i] = i /\ itself[Len(copy)] = Len(copy)
    BY <1>1, <1>2
  <2>2. QED BY <1>1, <2>1
<1>4. Gaps(copy, itself) /\ Before(copy, itself, Len(copy))
  BY <1>1, <1>3 DEF Gaps, Before
<1>5. QED BY <1>2, <1>4

(* A chunk of which the first n cells arrive.                              *)
LEMMA GapsMore ==
  ASSUME TypeOK, NEW place \in [1 .. Len(dest) -> Nat], Gaps(dest, place),
         Before(dest, place, pos), NEW part \in Seq(Cells), Begins(part, pos),
         NEW copy, Joined(copy, dest, part), NEW at \in Nat, pos + Len(part) <= at
  PROVE  \E more \in [1 .. Len(copy) -> Nat] : Gaps(copy, more) /\ Before(copy, more, at)
<1> DEFINE last == Len(dest)
           n == Len(part)
<1>1. /\ last \in Nat /\ n \in Nat /\ pos \in Nat /\ Len(source) \in Nat
      /\ dest \in Seq(Cells) /\ last <= pos
  BY SourceFacts DEF Before
<1>2. /\ copy \in Seq(Cells) /\ Len(copy) = last + n
      /\ \A i \in 1 .. last : copy[i] = dest[i]
      /\ \A k \in 1 .. n : copy[last + k] = part[k]
  BY DEF Joined
<1>3. n # 0 => pos + n <= Len(source)
  BY DEF Begins
<1> DEFINE more == [i \in 1 .. Len(copy) |-> IF i <= last THEN place[i] ELSE pos + (i - last)]
<1>4. more \in [1 .. Len(copy) -> Nat]
  BY <1>1, <1>2
<1>5. /\ \A i \in 1 .. last : more[i] = place[i]
      /\ \A i \in 1 .. Len(copy) : i > last => more[i] = pos + (i - last)
  BY <1>1, <1>2
<1> HIDE DEF more
<1>6. ASSUME NEW i \in 1 .. Len(copy)
      PROVE  /\ more[i] \in i .. Len(source) /\ copy[i] = source[more[i]]
             /\ more[Len(copy)] - more[i] >= Len(copy) - i
             /\ at - more[i] >= Len(copy) - i
  <2>1. CASE i <= last
    <3>1. /\ i \in 1 .. last /\ more[i] = place[i] /\ copy[i] = dest[i] /\ last \in 1 .. last
      BY <1>1, <1>2, <1>5, <2>1
    <3>2. /\ place[i] \in i .. Len(source) /\ dest[i] = source[place[i]]
          /\ place[last] - place[i] >= last - i /\ pos - place[i] >= last - i
          /\ place[last] \in Nat /\ place[i] \in Nat
      BY <3>1 DEF Gaps, Before
    <3>3. at - more[i] >= Len(copy) - i
      BY <1>1, <1>2, <3>1, <3>2
    <3>4. more[Len(copy)] - more[i] >= Len(copy) - i
      <4>1. CASE n = 0
        <5>1. Len(copy) = last /\ more[Len(copy)] = place[last]
          BY <1>1, <1>2, <1>5, <3>1, <4>1
        <5>2. QED BY <3>1, <3>2, <5>1
      <4>2. CASE n # 0
        <5>1. more[Len(copy)] = pos + n
          BY <1>1, <1>2, <1>5, <4>2
        <5>2. QED BY <1>1, <1>2, <3>1, <3>2, <5>1
      <4>3. QED BY <4>1, <4>2
    <3>5. QED BY <3>1, <3>2, <3>3, <3>4
  <2>2. CASE i > last
    <3> DEFINE k == i - last
    <3>1. k \in 1 .. n /\ i = last + k /\ n # 0 /\ k \in Nat /\ Len(copy) > last
          /\ Len(copy) \in 1 .. Len(copy) /\ Len(copy) - last = n
      BY <1>1, <1>2, <2>2
    <3>2. more[i] = pos + k /\ more[Len(copy)] = pos + n
      BY <1>5, <2>2, <3>1
    <3> HIDE DEF k
    <3>3. copy[i] = part[k] /\ part[k] = source[pos + k]
      BY <1>2, <3>1 DEF Begins
    <3>4. more[i] \in i .. Len(source)
      BY <1>1, <1>3, <3>1, <3>2
    <3>5. /\ more[Len(copy)] - more[i] >= Len(copy) - i
          /\ at - more[i] >= Len(copy) - i
      BY <1>1, <1>2, <3>1, <3>2
    <3>6. QED BY <3>2, <3>3, <3>4, <3>5
  <2>3. QED BY <1>1, <1>2, <2>1, <2>2
<1>7. Len(copy) <= at
  BY <1>1, <1>2
<1>8. Gaps(copy, more)
  BY <1>6 DEF Gaps
<1>9. Before(copy, more, at)
  BY <1>6, <1>7 DEF Before
<1>10. QED BY <1>4, <1>8, <1>9

LEMMA StartUploadOwn ==
  ASSUME Shape, Shape', OwnUpload, OwnWorkIsSound, StartUpload
  PROVE  OwnDownload' /\ FromTheStart' /\ OwnUpload' /\ OwnWorkIsSound'
<1>1. /\ pc = "idle" /\ job' = job /\ stacked' = stacked /\ job.dir = "upload"
      /\ dest' = dest /\ pc' \notin {"fetch", "write", "send"}
  BY DEF StartUpload, NewRun, TakenAsIs
<1>2. OwnDownload' /\ FromTheStart'
  BY <1>1, NoDownload
<1>3. OwnWorkIsSound'
  BY <1>1 DEF OwnWorkIsSound
<1>4. OwnUpload'
  BY <1>1, SameSource DEF OwnUpload, Gaps
<1>5. QED BY <1>2, <1>3, <1>4

LEMMA CompareUploadOwn ==
  ASSUME Shape, Shape', OwnUpload, CompareUpload
  PROVE  OwnDownload' /\ FromTheStart' /\ OwnUpload' /\ OwnWorkIsSound'
<1>1. /\ pc = "compare" /\ job' = job /\ stacked' = stacked /\ job.dir = "upload"
      /\ dest' = dest /\ dest # <<>> /\ TypeOK /\ dest \in Seq(Cells) /\ source' = source
      /\ Len(dest) <= Len(source) /\ Len(dest) \in Nat
  BY SameSource, SourceFacts DEF CompareUpload, GoOn, Shape, Stage
<1>2. OwnDownload' /\ FromTheStart'
  BY <1>1, NoDownload
<1>3. CASE pc' = "truncate"
  <2>1. OwnWorkIsSound'
    BY <1>3 DEF OwnWorkIsSound
  <2>2. OwnUpload'
    BY <1>1, <1>3 DEF OwnUpload, Gaps
  <2>3. QED BY <1>2, <2>1, <2>2
<1>4. CASE pc' # "truncate"
  <2>1. /\ SameTail /\ pc' = "send" /\ pos' = Len(dest)
        /\ kept' = [text |-> dest', from |-> Len(dest)]
    BY <1>1, <1>4 DEF CompareUpload, GoOn, TailTrusted
  <2>2. ASSUME job.before = <<>>, ~stacked, IsInjective(source)
        PROVE  Agrees(dest, Len(dest))
    <3>1. PICK place \in [1 .. Len(dest) -> Nat] : Gaps(dest, place)
      BY <1>1, <2>2 DEF OwnUpload
    <3>2. QED BY <1>1, <2>1, <2>2, <3>1, NoGaps
  <2>3. OwnUpload'
    <3>1. ASSUME job.before = <<>>, ~stacked, IsInjective(source)
          PROVE  \E place \in [1 .. Len(dest) -> Nat] :
                   Gaps(dest, place) /\ Before(dest, place, Len(dest))
      BY <1>1, <2>2, <3>1, PlaceItself
    <3>2. QED BY <1>1, <2>1, <3>1 DEF OwnUpload, Gaps, Before
  <2>4. OwnWorkIsSound'
    <3>1. CASE job.before = <<>> /\ ~stacked /\ IsInjective(source)
      <4>1. Agrees(dest', Len(dest)) /\ Len(dest) \in 0 .. Len(dest')
        BY <1>1, <2>2, <3>1
      <4>2. QED BY <1>1, <2>1, <4>1, SoundFrom
    <3>2. CASE ~(job.before = <<>> /\ ~stacked /\ IsInjective(source))
      BY <1>1, <3>2 DEF OwnWorkIsSound
    <3>3. QED BY <3>1, <3>2
  <2>5. QED BY <1>2, <2>3, <2>4
<1>5. QED BY <1>3, <1>4

LEMMA TruncateOwn ==
  ASSUME Shape, Shape', Truncate
  PROVE  OwnDownload' /\ FromTheStart' /\ OwnUpload' /\ OwnWorkIsSound'
<1>1. /\ pc = "truncate" /\ job' = job /\ job.dir = "upload" /\ TypeOK /\ source' = source
      /\ pc' = "send" /\ pos' = 0 /\ kept' = [text |-> dest', from |-> 0]
      /\ dest' \in Seq(Cells) /\ (dest' = <<>> \/ stacked')
  BY SameSource DEF Truncate, GoOn, Shape, Stage, TypeOK
<1>2. OwnDownload' /\ FromTheStart'
  BY <1>1, NoDownload
<1>3. OwnWorkIsSound'
  <2>1. Agrees(dest', 0) /\ 0 \in 0 .. Len(dest')
    BY <1>1, NothingAgrees
  <2>2. QED BY <1>1, <2>1, SoundFrom
<1>4. OwnUpload'
  <2>1. CASE stacked'
    BY <2>1 DEF OwnUpload
  <2>2. CASE dest' = <<>>
    <3>1. Len(dest') = 0 /\ Agrees(dest', Len(dest'))
      BY <1>1, <2>2, NothingAgrees
    <3>2. \E place \in [1 .. Len(dest') -> Nat] :
            Gaps(dest', place) /\ Before(dest', place, pos')
      <4>1. pos' = Len(dest')
        BY <1>1, <3>1
      <4>2. QED BY <1>1, <3>1, <4>1, PlaceItself
    <3>3. QED BY <1>1, <3>2 DEF OwnUpload, Gaps, Before
  <2>3. QED BY <1>1, <2>1, <2>2
<1>5. QED BY <1>2, <1>3, <1>4

LEMMA SendOwn ==
  ASSUME Shape, Shape', OwnUpload, OwnWorkIsSound, Send
  PROVE  OwnDownload' /\ FromTheStart' /\ OwnUpload' /\ OwnWorkIsSound'
<1>1. /\ pc = "send" /\ job' = job /\ job.dir = "upload" /\ TypeOK /\ source' = source
      /\ stacked' = stacked /\ kept' = kept /\ pos \in Nat /\ pos' \in Nat
  BY SameSource, SourceFacts DEF Send, Report, Shape, Stage, TypeOK
<1>2. OwnDownload' /\ FromTheStart'
  BY <1>1, NoDownload
<1>3. OwnWorkIsSound'
  BY <1>1, SoundStays
<1>4. CASE pos >= Len(source)
  <2>1. dest' = dest /\ pc' = "idle"
    BY <1>4 DEF Send, Report
  <2>2. OwnUpload'
    BY <1>1, <2>1 DEF OwnUpload, Gaps
  <2>3. QED BY <1>2, <1>3, <2>2
<1>5. CASE ~(pos >= Len(source))
  <2>1. PICK n \in 0 .. Len(ChunkAt(pos)) : dest' = dest \o SubSeq(ChunkAt(pos), 1, n)
    BY <1>5 DEF Send
  <2>2. pos' = pos + Len(ChunkAt(pos)) /\ Len(ChunkAt(pos)) \in Nat
    BY <1>1, <1>5, ChunkFacts DEF Send, Sent
  <2> DEFINE part == SubSeq(ChunkAt(pos), 1, n)
  <2>3. /\ Joined(dest', dest, part) /\ Len(part) = n /\ Begins(part, pos)
        /\ part \in Seq(Cells)
    BY <1>1, <2>1, AppendFacts
  <2>4. n <= Len(ChunkAt(pos)) /\ n \in Nat
    BY <2>2
  <2> HIDE DEF part
  <2>5. pos + Len(part) <= pos'
    BY <1>1, <2>2, <2>3, <2>4
  <2>6. ASSUME job.before = <<>>, ~stacked, IsInjective(source)
        PROVE  \E place \in [1 .. Len(dest') -> Nat] : Gaps(dest', place) /\ Before(dest', place, pos')
    <3>1. PICK place \in [1 .. Len(dest) -> Nat] : Gaps(dest, place) /\ Before(dest, place, pos)
      BY <1>1, <2>6 DEF OwnUpload
    <3>2. QED BY <1>1, <2>3, <2>5, <3>1, GapsMore
  <2>7. OwnUpload'
    BY <1>1, <2>6 DEF OwnUpload, Gaps, Before
  <2>8. QED BY <1>2, <1>3, <2>7
<1>6. QED BY <1>4, <1>5

LEMMA InterruptedOwn ==
  ASSUME Shape, Shape', OwnDownload, OwnUpload, OwnWorkIsSound, Interrupted
  PROVE  OwnDownload' /\ FromTheStart' /\ OwnUpload' /\ OwnWorkIsSound'
<1>1. /\ job' = job /\ pc' = "idle" /\ source' = source /\ stacked' = stacked /\ TypeOK
      /\ dest' \in HalfWritten /\ pos \in Nat
  BY SameSource, SourceFacts DEF Interrupted, Report, Shape
<1>2. OwnDownload' /\ FromTheStart'
  BY InterruptedOwnDownload
<1>3. OwnWorkIsSound'
  BY <1>1 DEF OwnWorkIsSound
<1>4. CASE job.dir = "upload" /\ pc = "send"
  <2>1. PICK n \in 0 .. Len(ChunkAt(pos)) : dest' = dest \o SubSeq(ChunkAt(pos), 1, n)
    BY <1>1, <1>4 DEF HalfWritten
  <2> DEFINE part == SubSeq(ChunkAt(pos), 1, n)
  <2>2. /\ Joined(dest', dest, part) /\ Len(part) = n /\ Begins(part, pos)
        /\ part \in Seq(Cells)
    BY <1>1, <2>1, AppendFacts
  <2>3. n \in Nat
    OBVIOUS
  <2> HIDE DEF part
  <2>4. pos + n \in Nat /\ pos + Len(part) <= pos + n
    BY <1>1, <2>2, <2>3
  <2>5. ASSUME job.before = <<>>, ~stacked, IsInjective(source)
        PROVE  \E place \in [1 .. Len(dest') -> Nat] : Gaps(dest', place)
    <3>1. PICK place \in [1 .. Len(dest) -> Nat] : Gaps(dest, place) /\ Before(dest, place, pos)
      BY <1>4, <2>5 DEF OwnUpload
    <3>2. \E more \in [1 .. Len(dest') -> Nat] : Gaps(dest', more) /\ Before(dest', more, pos + n)
      BY <1>1, <2>2, <2>4, <3>1, GapsMore
    <3>3. QED BY <3>2
  <2>6. OwnUpload'
    BY <1>1, <2>5 DEF OwnUpload, Gaps
  <2>7. QED BY <1>2, <1>3, <2>6
<1>5. CASE job.dir = "upload" /\ pc # "send"
  <2>1. dest' = dest
    BY <1>1, <1>5 DEF HalfWritten, Shape, Stage
  <2>2. OwnUpload'
    BY <1>1, <2>1 DEF OwnUpload, Gaps
  <2>3. QED BY <1>2, <1>3, <2>2
<1>6. CASE job.dir # "upload"
  BY <1>1, <1>2, <1>3, <1>6, NoUpload
<1>7. QED BY <1>4, <1>5, <1>6

Own == OwnDownload /\ FromTheStart /\ OwnUpload /\ OwnWorkIsSound
LEMMA OwnKept ==
  ASSUME Shape, Shape', Own, [Next]_vars
  PROVE  Own'
<1>1. CASE UNCHANGED vars
  BY <1>1 DEF vars, Own, OwnDownload, FromTheStart, OwnUpload, OwnWorkIsSound, Agrees, Aligned,
     Gaps, Before, source, total
<1>2. CASE Next
  BY <1>2, StartDownloadOwn, StartUploadOwn, CompareDownloadOwn, FetchOwn, WritePartOwn,
     CompareUploadOwn, TruncateOwn, SendOwn, InterruptedOwn DEF Next, Step, Own
<1>3. QED BY <1>1, <1>2
-----------------------------------------------------------------------------
(* A remote file is emptied for a reason.                                  *)
LEMMA HopelessKept ==
  ASSUME Shape, Hopeless, [Next]_vars
  PROVE  Hopeless'
<1>0. /\ TypeOK /\ source \in Seq(Cells) /\ dest \in Seq(Cells) /\ Len(dest) \in Nat
      /\ Len(source) \in Nat /\ (job.known => total = Len(source))
  BY SourceFacts DEF Shape
<1>1. CASE UNCHANGED vars
  BY <1>1 DEF vars, Hopeless, source
<1>2. CASE StartUpload
  <2>1. job' = job /\ source' = source
    BY <1>2, SameSource DEF StartUpload, NewRun
  <2>2. ASSUME pc' = "truncate", clean', ~unread', job.known
        PROVE  dest' = dest /\ (dest = <<>> \/ ~IsPrefix(dest, source))
    <3>1. dest' = dest /\ ~LooksComplete /\ (dest = <<>> \/ ~(Len(dest) < total))
      BY <1>2, <2>2 DEF StartUpload, TakenAsIs, NewRun
    <3>2. ASSUME dest # <<>> PROVE ~(Len(dest) <= Len(source))
      BY <1>0, <2>2, <3>1, <3>2 DEF LooksComplete
    <3>3. QED BY <1>0, <3>1, <3>2, WholePrefix
  <2>3. QED BY <2>1, <2>2 DEF Hopeless
<1>3. CASE CompareUpload
  <2>1. /\ job' = job /\ source' = source /\ dest # <<>> /\ Len(dest) <= Len(source)
    BY <1>0, <1>3, SameSource, SourceFacts DEF CompareUpload, Shape, Stage
  <2>2. ASSUME pc' = "truncate", clean', ~unread'
        PROVE  dest' = dest /\ ~IsPrefix(dest, source)
    <3>1. dest' = dest /\ ~SameTail
      BY <1>3, <2>2 DEF CompareUpload, GoOn, TailTrusted
    <3>2. ~Agrees(dest, Len(dest))
      BY <1>0, <2>1, <3>1, TailFacts
    <3>3. ~IsPrefix(dest, source)
      BY <1>0, <2>1, <3>2, WholePrefix DEF Agrees
    <3>4. QED BY <3>1, <3>3
  <2>3. QED BY <2>1, <2>2 DEF Hopeless
<1>4. CASE Next /\ ~StartUpload /\ ~CompareUpload
  <2>1. pc' # "truncate"
    BY <1>4 DEF Next, Step, StartDownload, CompareDownload, Fetch, WritePart, Truncate, Send,
       Interrupted, NewRun, TakenAsIs, GoOn, Report
  <2>2. QED BY <2>1 DEF Hopeless
<1>5. QED BY <1>1, <1>2, <1>3, <1>4
-----------------------------------------------------------------------------
LEMMA InitInvariant ==
  ASSUME Init
  PROVE  IInv
<1>1. /\ job \in [dir : {"download", "upload"}, source : Source, known : BOOLEAN, before : Prior]
      /\ dest = job.before /\ pc = "idle" /\ pos = 0 /\ parts = <<>>
      /\ reported = "none" /\ kept = [text |-> dest, from |-> 0] /\ clean = TRUE
      /\ unread = FALSE /\ stacked = FALSE /\ runs = 0
  BY DEF Init
<1>2. /\ job.source \in Seq(Cells) /\ dest \in Seq(Cells) /\ Len(job.source) \in Nat
      /\ Len(dest) \in Nat
  BY <1>1, FilesAssumption
<1>3. TypeOK
  <2>1. 0 \in 0 .. Len(job.source) /\ 0 \in 0 .. Runs
    BY <1>2, ResumeAssumption
  <2>2. kept \in [text : Seq(Cells), from : Nat]
    BY <1>1, <1>2
  <2>3. QED BY <1>1, <1>2, <2>1, <2>2, Zeros DEF TypeOK
<1>4. Stage
  BY <1>1, <1>2 DEF Stage
<1>5. Answered
  BY <1>1 DEF Answered
<1>6. Filled /\ Intact /\ OwnWorkIsSound /\ Hopeless /\ FromTheStart
  BY <1>1 DEF Filled, Intact, OwnWorkIsSound, Hopeless, FromTheStart
<1>7. OwnDownload
  <2>1. ASSUME dest = <<>> PROVE Aligned(Len(dest)) = 0 /\ Agrees(dest, 0)
    BY <1>2, <1>3, <2>1, Zeros, NothingAgrees
  <2>2. QED BY <1>1, <2>1 DEF OwnDownload
<1>8. OwnUpload
  <2>1. ASSUME dest = <<>> PROVE \E place \in [1 .. Len(dest) -> Nat] : Gaps(dest, place)
    <3>1. Agrees(dest, Len(dest))
      BY <1>2, <1>3, <2>1, NothingAgrees
    <3>2. QED BY <1>2, <1>3, <3>1, PlaceItself
  <2>2. QED BY <1>1, <2>1 DEF OwnUpload
<1>9. QED BY <1>3, <1>4, <1>5, <1>6, <1>7, <1>8 DEF IInv

LEMMA InvariantKept ==
  ASSUME IInv, [Next]_vars
  PROVE  IInv'
<1>1. Shape'
  BY ShapeKept DEF IInv, Shape
<1>2. Filled' /\ Intact'
  BY <1>1, FilledKept DEF IInv, Shape
<1>3. Own'
  BY <1>1, OwnKept DEF IInv, Shape, Own
<1>4. Hopeless'
  BY HopelessKept DEF IInv, Shape
<1>5. QED BY <1>1, <1>2, <1>3, <1>4 DEF IInv, Shape, Own

LEMMA Invariant == Spec => []IInv
<1>1. Init => IInv
  BY InitInvariant
<1>2. IInv /\ [Next]_vars => IInv'
  BY InvariantKept
<1>3. QED BY <1>1, <1>2, PTL DEF Spec

(* Every variable keeps its type: no run goes past the end of the source,   *)
(* and everything in the copy is a cell of some file.                      *)
THEOREM TypeCorrect == Spec => []TypeOK
<1>1. IInv => TypeOK
  BY DEF IInv
<1>2. QED BY <1>1, Invariant, PTL

(* Intact: a transfer that reports done, was answered in full and took     *)
(* over a right beginning leaves the copy equal to the source, whatever    *)
(* the runs before it were cut off at.                                     *)
THEOREM IntactHolds == Spec => []Intact
<1>1. IInv => Intact
  BY DEF IInv
<1>2. QED BY <1>1, Invariant, PTL

(* OwnWorkIsSound: what only this transfer has written is gone on with     *)
(* from a right part, whatever commands were lost or cut.                  *)
THEOREM OwnWorkIsSoundHolds == Spec => []OwnWorkIsSound
<1>1. IInv => OwnWorkIsSound
  BY DEF IInv
<1>2. QED BY <1>1, Invariant, PTL

(* What a step takes off a right beginning of the copy: its last, partial   *)
(* block at most.                                                          *)
Progress ==
  job.known /\ clean' /\ ~unread' /\ IsPrefix(dest, source) => Len(dest') >= Aligned(Len(dest))

LEMMA ProgressStep ==
  ASSUME IInv, Next
  PROVE  Progress
<1>0. /\ Shape /\ TypeOK /\ source \in Seq(Cells) /\ dest \in Seq(Cells) /\ Len(dest) \in Nat
      /\ Len(source) \in Nat
  BY SourceFacts DEF IInv, Shape
<1>1. Aligned(Len(dest)) \in Nat /\ Aligned(Len(dest)) <= Len(dest)
  BY <1>0, AlignedFacts
<1>2. CASE dest' = dest
  BY <1>0, <1>1, <1>2 DEF Progress
<1>3. CASE StartDownload /\ dest' # dest
  <2>1. dest' = SubSeq(dest, 1, Aligned(Len(dest)))
    BY <1>3 DEF StartDownload, TakenAsIs, CutToBlocks
  <2>2. Len(dest') = Aligned(Len(dest))
    BY <1>0, <1>1, <2>1, FrontFacts
  <2>3. QED BY <1>1, <2>2 DEF Progress
<1>4. CASE CompareDownload /\ dest' # dest
  <2>1. ~clean' \/ unread' \/ ~SameTail
    BY <1>4 DEF CompareDownload
  <2>2. dest # <<>> /\ Len(dest) <= Len(source)
    BY <1>0, <1>4, SourceFacts DEF CompareDownload, Shape, Stage
  <2>3. IsPrefix(dest, source) => Agrees(dest, Len(dest))
    BY <1>0, WholePrefix DEF Agrees
  <2>4. QED BY <1>0, <2>1, <2>2, <2>3, TailFacts DEF Progress
<1>5. CASE WritePart /\ dest' # dest
  <2>1. parts # <<>> /\ pc = "write"
    BY <1>5 DEF WritePart
  <2>2. Written(dest', dest, pos, Head(parts)) /\ Len(Head(parts)) \in Nat
    BY <1>0, <1>5, <2>1, PartFacts DEF WritePart
  <2>3. Len(dest') >= Len(dest)
    BY <1>0, <2>2, SourceFacts DEF Written
  <2>4. QED BY <1>0, <1>1, <2>2, <2>3 DEF Progress, Written
<1>6. CASE Truncate /\ dest' # dest
  <2>1. pc = "truncate" /\ dest' = <<>> /\ dest # <<>> /\ (clean' => clean) /\ unread' = unread
    BY <1>6 DEF Truncate
  <2>2. QED BY <2>1 DEF Progress, IInv, Hopeless
<1>7. CASE Send /\ dest' # dest
  <2>1. PICK n \in 0 .. Len(ChunkAt(pos)) : dest' = dest \o SubSeq(ChunkAt(pos), 1, n)
    BY <1>7 DEF Send
  <2>2. Joined(dest', dest, SubSeq(ChunkAt(pos), 1, n)) /\ Len(SubSeq(ChunkAt(pos), 1, n)) = n
    BY <1>0, <2>1, AppendFacts
  <2>3. n \in Nat /\ Len(dest') = Len(dest) + n
    BY <2>2 DEF Joined
  <2>4. QED BY <1>0, <1>1, <2>3 DEF Progress
<1>8. CASE Interrupted /\ dest' # dest
  <2>1. dest' \in HalfWritten
    BY <1>8 DEF Interrupted
  <2>2. CASE pc = "write" /\ parts # <<>>
    <3>1. PICK n \in 0 .. Len(Head(parts)) : dest' = Overwritten(pos, SubSeq(Head(parts), 1, n))
      BY <2>1, <2>2 DEF HalfWritten
    <3> DEFINE part == SubSeq(Head(parts), 1, n)
    <3>2. Len(part) = n /\ Written(dest', dest, pos, part) /\ n \in Nat
      BY <1>0, <2>2, <3>1, PartFacts
    <3> HIDE DEF part
    <3>3. Len(dest') >= Len(dest) /\ Len(dest') \in Nat
      BY <1>0, <3>2, SourceFacts DEF Written
    <3>4. QED BY <1>0, <1>1, <3>3 DEF Progress
  <2>3. CASE ~(pc = "write" /\ parts # <<>>) /\ pc = "send"
    <3>1. PICK n \in 0 .. Len(ChunkAt(pos)) : dest' = dest \o SubSeq(ChunkAt(pos), 1, n)
      BY <2>1, <2>3 DEF HalfWritten
    <3>2. Joined(dest', dest, SubSeq(ChunkAt(pos), 1, n)) /\ Len(SubSeq(ChunkAt(pos), 1, n)) = n
      BY <1>0, <3>1, AppendFacts
    <3>3. n \in Nat /\ Len(dest') = Len(dest) + n
      BY <3>2 DEF Joined
    <3>4. QED BY <1>0, <1>1, <3>3 DEF Progress
  <2>4. CASE ~(pc = "write" /\ parts # <<>>) /\ pc # "send"
    BY <1>8, <2>1, <2>4 DEF HalfWritten
  <2>5. QED BY <2>2, <2>3, <2>4
<1>9. CASE (Fetch \/ StartUpload \/ CompareUpload) /\ dest' # dest
  BY <1>9 DEF Fetch, StartUpload, CompareUpload, TakenAsIs, GoOn
<1>10. QED BY <1>2, <1>3, <1>4, <1>5, <1>6, <1>7, <1>8, <1>9 DEF Next, Step

(* ProgressKept: of a run whose commands are answered and that can hash its *)
(* local file no failure, cancellation or death, nor the start after it,   *)
(* costs more of a right beginning than its last, partial block.           *)
THEOREM ProgressKeptHolds == Spec => ProgressKept
<1>1. IInv /\ [Next]_vars => [Progress]_vars
  BY ProgressStep
<1>2. QED BY <1>1, Invariant, PTL DEF Spec, ProgressKept, Progress
=============================================================================
