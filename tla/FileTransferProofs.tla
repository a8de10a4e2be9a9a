--------------------------- MODULE FileTransferProofs ---------------------------
(***************************************************************************)
(* Proofs about FileTransfer, for any number of transfers, files and       *)
(* buffers, and any capacity of the pool, of the buffers and of the pipes. *)
(***************************************************************************)
EXTENDS FileTransfer, SequenceTheorems, FiniteSetTheorems, TLAPS

(* What BoundedSeq means. *)
LEMMA BoundedSeqDef ==
    ASSUME NEW S, NEW n \in Nat
    PROVE  \A s : s \in BoundedSeq(S, n) <=> s \in Seq(S) /\ Len(s) <= n
<1>1. ASSUME NEW s \in BoundedSeq(S, n) PROVE s \in Seq(S) /\ Len(s) <= n
  <2>1. PICK m \in 0..n : s \in [1..m -> S]
    BY DEF BoundedSeq, SeqOf
  <2>2. m \in Nat /\ s \in Seq(S)
    BY <2>1, SeqDef
  <2>3. DOMAIN s = 1..m /\ DOMAIN s = 1..Len(s) /\ Len(s) \in Nat
    BY <2>1, <2>2, LenProperties
  <2> QED BY <2>2, <2>3
<1>2. ASSUME NEW s \in Seq(S), Len(s) <= n PROVE s \in BoundedSeq(S, n)
  <2>1. Len(s) \in 0..n /\ s \in [1..Len(s) -> S]
    BY <1>2, LenProperties
  <2> QED BY <2>1 DEF BoundedSeq, SeqOf
<1> QED BY <1>1, <1>2

(* A function on 1..n is a sequence of length n. *)
LEMMA SeqOfFunction ==
    ASSUME NEW S, NEW n \in Nat, NEW s \in [1..n -> S]
    PROVE  s \in Seq(S) /\ Len(s) = n
<1>1. s \in Seq(S)
  BY SeqDef
<1>2. DOMAIN s = 1..n /\ DOMAIN s = 1..Len(s) /\ Len(s) \in Nat
  BY <1>1, LenProperties
<1> QED BY <1>1, <1>2

(* A sequence cut in two. *)
LEMMA CutSeq ==
    ASSUME NEW S, NEW s \in Seq(S), NEW n \in 1..Len(s)
    PROVE  /\ SubSeq(s, 1, n) \in Seq(S) /\ Len(SubSeq(s, 1, n)) = n
           /\ SubSeq(s, n + 1, Len(s)) \in Seq(S) /\ Len(SubSeq(s, n + 1, Len(s))) = Len(s) - n
           /\ SubSeq(s, 1, n) \o SubSeq(s, n + 1, Len(s)) = s
<1>1. \A i \in 1..Len(s) : s[i] \in S
  BY ElementOfSeq
<1>2. Len(s) \in Nat /\ n \in Int /\ 1 \in Int /\ n + 1 \in Int
  BY LenProperties
<1>3. SubSeq(s, 1, n) \in Seq(S) /\ Len(SubSeq(s, 1, n)) = n
  BY <1>1, <1>2, SubSeqProperties
<1>4. SubSeq(s, n + 1, Len(s)) \in Seq(S) /\ Len(SubSeq(s, n + 1, Len(s))) = Len(s) - n
  <2>1. \A i \in (n + 1)..Len(s) : s[i] \in S
    BY <1>1, <1>2
  <2>2. /\ SubSeq(s, n + 1, Len(s)) \in Seq(S)
        /\ Len(SubSeq(s, n + 1, Len(s))) = IF n + 1 <= Len(s) THEN Len(s) - (n + 1) + 1 ELSE 0
    BY <1>2, <2>1, SubSeqProperties
  <2> QED BY <1>2, <2>2
<1>5. SubSeq(s, 1, n) \o SubSeq(s, n + 1, Len(s)) = SubSeq(s, 1, Len(s))
  BY <1>2, ConcatAdjacentSubSeq
<1> QED BY <1>3, <1>4, <1>5, SubSeqFull

(* What is left of a concatenation without its first part. *)
LEMMA DropFirst ==
    ASSUME NEW S, NEW s \in Seq(S), NEW t \in Seq(S)
    PROVE  SubSeq(s \o t, Len(s) + 1, Len(s \o t)) = t
<1> DEFINE c == s \o t
           d == SubSeq(c, Len(s) + 1, Len(c))
<1>1. /\ c \in Seq(S) /\ Len(c) = Len(s) + Len(t)
      /\ \A i \in 1..Len(s) + Len(t) : c[i] = IF i <= Len(s) THEN s[i] ELSE t[i - Len(s)]
  BY ConcatProperties
<1>2. Len(s) \in Nat /\ Len(t) \in Nat /\ Len(s) + 1 \in Int /\ Len(c) \in Int
  BY <1>1, LenProperties
<1>3. \A i \in Len(s) + 1 .. Len(c) : c[i] \in S
  <2>1. \A i \in 1..Len(c) : c[i] \in S
    BY <1>1, ElementOfSeq
  <2> QED BY <1>2, <2>1
<1> HIDE DEF c
<1>4. /\ d \in Seq(S)
      /\ Len(d) = IF Len(s) + 1 <= Len(c) THEN Len(c) - (Len(s) + 1) + 1 ELSE 0
      /\ \A i \in 1 .. Len(c) - (Len(s) + 1) + 1 : d[i] = c[Len(s) + 1 + i - 1]
  BY <1>2, <1>3, SubSeqProperties
<1>5. Len(d) = Len(t) /\ \A i \in 1..Len(d) : d[i] = t[i]
  BY <1>1, <1>2, <1>4
<1>6. d = t
  BY <1>4, <1>5, SeqEqual
<1> QED BY <1>6 DEF c

(* Taking the first block out of a queue of three parts. *)
LEMMA TailOfConcat ==
    ASSUME NEW S, NEW s \in Seq(S), NEW t \in Seq(S), s # <<>>
    PROVE  Tail(s \o t) = Tail(s) \o t
<1> DEFINE c == s \o t
<1>1. /\ c \in Seq(S) /\ Len(c) = Len(s) + Len(t)
      /\ \A i \in 1..Len(s) + Len(t) : c[i] = IF i <= Len(s) THEN s[i] ELSE t[i - Len(s)]
  BY ConcatProperties
<1>2. Len(s) \in Nat \ {0} /\ Len(t) \in Nat
  BY EmptySeq, LenProperties
<1>3. c # <<>>
  BY <1>1, <1>2, EmptySeq
<1> HIDE DEF c
<1>4. /\ Tail(c) \in Seq(S) /\ Len(Tail(c)) = Len(c) - 1
      /\ \A i \in 1..Len(Tail(c)) : Tail(c)[i] = c[i + 1]
  BY <1>1, <1>3, HeadTailProperties
<1>5. /\ Tail(s) \in Seq(S) /\ Len(Tail(s)) = Len(s) - 1
      /\ \A i \in 1..Len(Tail(s)) : Tail(s)[i] = s[i + 1]
  BY HeadTailProperties
<1> DEFINE e == Tail(s) \o t
<1>6. /\ e \in Seq(S) /\ Len(e) = Len(Tail(s)) + Len(t)
      /\ \A i \in 1..Len(Tail(s)) + Len(t) :
           e[i] = IF i <= Len(Tail(s)) THEN Tail(s)[i] ELSE t[i - Len(Tail(s))]
  BY <1>5, ConcatProperties
<1> HIDE DEF e
<1>7. Len(Tail(c)) = Len(e) /\ \A i \in 1..Len(Tail(c)) : Tail(c)[i] = e[i]
  <2>1. Len(Tail(c)) = Len(e)
    BY <1>1, <1>2, <1>4, <1>5, <1>6
  <2>2. ASSUME NEW i \in 1..Len(Tail(c)) PROVE Tail(c)[i] = e[i]
    <3>1. i \in Nat /\ i + 1 \in 1..Len(s) + Len(t) /\ i \in 1..Len(Tail(s)) + Len(t)
      BY <1>1, <1>2, <1>4, <1>5
    <3>2. Tail(c)[i] = c[i + 1]
      BY <1>4
    <3>3. Tail(c)[i] = IF i + 1 <= Len(s) THEN s[i + 1] ELSE t[i + 1 - Len(s)]
      BY <1>1, <3>1, <3>2
    <3>4. e[i] = IF i <= Len(Tail(s)) THEN Tail(s)[i] ELSE t[i - Len(Tail(s))]
      BY <1>6, <3>1
    <3>5. CASE i <= Len(Tail(s))
      BY <1>2, <1>5, <3>1, <3>3, <3>4, <3>5
    <3>6. CASE ~(i <= Len(Tail(s)))
      <4>1. ~(i + 1 <= Len(s)) /\ i + 1 - Len(s) = i - Len(Tail(s))
        BY <1>2, <1>5, <3>1, <3>6
      <4> QED BY <3>3, <3>4, <3>6, <4>1
    <3> QED BY <3>5, <3>6
  <2> QED BY <2>1, <2>2
<1>8. Tail(c) = e
  BY <1>4, <1>6, <1>7, SeqEqual
<1> QED BY <1>8 DEF c, e

(* The first block of one sequence goes to the end of the one before it. *)
LEMMA MoveFirst ==
    ASSUME NEW S, NEW s \in Seq(S), NEW t \in Seq(S), t # <<>>
    PROVE  Append(s, Head(t)) \o Tail(t) = s \o t
<1>1. Head(t) \in S /\ Tail(t) \in Seq(S)
  BY HeadTailProperties
<1>2. <<Head(t)>> \in Seq(S)
  BY <1>1
<1>3. Append(s, Head(t)) = s \o <<Head(t)>>
  BY <1>1, AppendIsConcat
<1>4. (s \o <<Head(t)>>) \o Tail(t) = s \o (<<Head(t)>> \o Tail(t))
  BY <1>1, <1>2, ConcatAssociative
<1>5. Len(t) \in Nat \ {0}
  BY EmptySeq
<1>6. <<t[1]>> \o SubSeq(t, 2, Len(t)) = t
  <2>1. 1 \in 1..Len(t) /\ Len(t) \in 1..Len(t)
    BY <1>5
  <2>2. SubSeq(t, 1, Len(t)) = <<t[1]>> \o SubSeq(t, 1 + 1, Len(t))
    BY <2>1, SubSeqRecursiveFirst
  <2> QED BY <2>2, SubSeqFull
<1>7. Tail(t) = SubSeq(t, 2, Len(t)) /\ Head(t) = t[1]
  BY TailIsSubSeq
<1> QED BY <1>3, <1>4, <1>6, <1>7

-------------------------------------------------------------------------------
(***************************************************************************)
(* Types.  TypeOK is not inductive: the bounds on the file and on due      *)
(* follow from how far a transfer has come (RoomInv), the type of what a   *)
(* step changes in a file or a buffer from the phase it is in (PhaseInv).  *)
(***************************************************************************)
Closing == {"closeFile", "closePipe", "catch", "posted"}

PhaseOf(t) ==
    /\ task[t].phase \in {"idle", "ended"} <=> task[t].held = NoBuffer
    /\ task[t].phase \notin {"idle", "ended"} => task[t].file \in Files
    /\ task[t].phase \in {"reading", "pushing"} => task[t].mode = "r"
    /\ task[t].phase \in {"pulling", "pulled"} => task[t].mode = "w"
    /\ task[t].phase = "idle" => due[t] = <<>> /\ pipe[t].client = FALSE
    /\ task[t].failed => task[t].phase \in Closing \cup {"ended"}
    /\ task[t].phase = "filled" => task[t].size > 0
    /\ task[t].phase \in {"pushing", "pulled"} => task[t].array # <<>>
    /\ task[t].descriptor = "open" =>
          task[t].phase \in {"reading", "filled", "pushing", "pulling", "pulled", "closeFile"}
    /\ task[t].phase \in {"catch", "posted", "ended"} => pipe[t].end \in {"clean", "error"}

Filled(t) == IF task[t].phase = "filled" THEN task[t].size ELSE 0

(* A writer has room for all it was sent, and holds no more than it was    *)
(* sent; what a reader has not delivered it has read.                      *)
RoomOf(t) ==
    /\ task[t].mode = "w" => task[t].offset + Len(due[t]) <= MaxLength
    /\ task[t].mode = "w" /\ ~task[t].failed =>
          Filled(t) + Len(task[t].array) + Len(pipe[t].blocks) <= Len(due[t])
    /\ task[t].mode = "r" /\ task[t].phase # "ended" => Len(due[t]) <= task[t].offset
    /\ task[t].mode = "r" /\ pipe[t].client =>
          Filled(t) + Len(task[t].array) + Len(pipe[t].blocks) <= Len(due[t])

TypeInv ==
    /\ TypeOK
    /\ IsFiniteSet(pool)
    /\ \A t \in Transfers : PhaseOf(t) /\ RoomOf(t)

LEMMA Sizes ==
    /\ PoolSize \in Nat /\ MaxLength \in Nat
    /\ Capacity \in Nat \ {0} /\ PipeSize \in Nat \ {0}
BY TransferAssumption

LEMMA Bounded ==
    /\ \A s : s \in BoundedSeq(Data, Capacity)  <=> s \in Seq(Data) /\ Len(s) <= Capacity
    /\ \A s : s \in BoundedSeq(Data, PipeSize)  <=> s \in Seq(Data) /\ Len(s) <= PipeSize
    /\ \A s : s \in BoundedSeq(Data, MaxLength) <=> s \in Seq(Data) /\ Len(s) <= MaxLength
BY BoundedSeqDef, Sizes

LEMMA Nothing ==
    /\ <<>> \in BoundedSeq(Data, Capacity)
    /\ <<>> \in BoundedSeq(Data, PipeSize)
    /\ <<>> \in BoundedSeq(Data, MaxLength)
    /\ Len(<<>>) = 0
<1>1. <<>> \in Seq(Data) /\ Len(<<>>) = 0
  BY EmptySeq
<1>2. Len(<<>>) <= Capacity /\ Len(<<>>) <= PipeSize /\ Len(<<>>) <= MaxLength
  BY <1>1, Sizes
<1> QED BY <1>1, <1>2, Bounded

LEMMA NothingUsed ==
    /\ Idle \in Tasks
    /\ NoPipe \in Pipes /\ OpenPipe \in Pipes
    /\ Cleared \in [memory : [1..Capacity -> Data], position : 0..Capacity]
<1>1. Idle \in Tasks
  BY Nothing, TransferAssumption DEF Idle, Tasks, Phases
<1>2. NoPipe \in Pipes /\ OpenPipe \in Pipes
  BY Nothing DEF NoPipe, OpenPipe, Pipes
<1>3. Cleared \in [memory : [1..Capacity -> Data], position : 0..Capacity]
  BY TransferAssumption DEF Cleared, Data
<1> QED BY <1>1, <1>2, <1>3

(* What the type invariant says of one transfer. *)
Known(t) ==
    /\ task[t] \in Tasks /\ pipe[t] \in Pipes
    /\ task[t].array \in Seq(Data) /\ Len(task[t].array) \in 0..Capacity
    /\ pipe[t].blocks \in Seq(Data) /\ Len(pipe[t].blocks) \in 0..PipeSize
    /\ due[t] \in Seq(Data) /\ Len(due[t]) \in 0..MaxLength
    /\ task[t].offset \in Nat /\ task[t].offset <= MaxLength
    /\ task[t].size \in Nat /\ task[t].size <= Capacity
    /\ PhaseOf(t) /\ RoomOf(t)

LEMMA OfTransfer == TypeInv => \A t \in Transfers : Known(t)
<1> SUFFICES ASSUME TypeInv, NEW t \in Transfers PROVE Known(t)
  OBVIOUS
<1>1. task[t] \in Tasks /\ pipe[t] \in Pipes /\ due[t] \in BoundedSeq(Data, MaxLength)
  BY DEF TypeInv, TypeOK
<1>2. /\ task[t].array \in BoundedSeq(Data, Capacity)
      /\ task[t].offset \in 0..MaxLength /\ task[t].size \in 0..Capacity
      /\ pipe[t].blocks \in BoundedSeq(Data, PipeSize)
  BY <1>1 DEF Tasks, Pipes
<1>3. /\ task[t].array \in Seq(Data) /\ Len(task[t].array) <= Capacity
      /\ pipe[t].blocks \in Seq(Data) /\ Len(pipe[t].blocks) <= PipeSize
      /\ due[t] \in Seq(Data) /\ Len(due[t]) <= MaxLength
  BY <1>1, <1>2, Bounded
<1>4. Len(task[t].array) \in Nat /\ Len(pipe[t].blocks) \in Nat /\ Len(due[t]) \in Nat
  BY <1>3, LenProperties
<1> QED BY <1>1, <1>2, <1>3, <1>4, Sizes DEF TypeInv, Known

(* A part is no longer than the whole. *)
LEMMA Shorter ==
    /\ \A i, j, k, l \in Nat : i + j + k <= l => j + k <= l
    /\ \A i, j, k, l \in Nat : i + j + k <= l => i <= l
    /\ \A i, j, k, l \in Nat : i + j + k <= l => k <= l
OBVIOUS

(* A step of one transfer leaves the others alone. *)
LEMMA StepOfOne ==
    ASSUME TypeInv, NEW t \in Transfers,
           TypeOK', IsFiniteSet(pool'),
           \A u \in Transfers \ {t} : /\ task'[u] = task[u] /\ pipe'[u] = pipe[u]
                                     /\ due'[u] = due[u],
           PhaseOf(t)', RoomOf(t)'
    PROVE  TypeInv'
<1>1. ASSUME NEW u \in Transfers \ {t} PROVE (PhaseOf(u) /\ RoomOf(u))'
  BY DEF TypeInv, PhaseOf, RoomOf, Filled
<1> QED BY <1>1 DEF TypeInv

-------------------------------------------------------------------------------
(* The position of a ByteBuffer in the pool is 0, and so it is at the      *)
(* beginning of each round of a transfer.                                  *)
PositionInv ==
    /\ \A b \in pool : buffer[b].position = 0
    /\ \A t \in Transfers :
          \/ task[t].phase \in {"queued", "reading", "pulling", "pulled"}
          \/ Is(t, "filled", "r")
          => buffer[task[t].held].position = 0

BufferInv == TypeInv /\ BuffersExclusive /\ PositionInv

(* The pool stays finite and within its size. *)
LEMMA SmallerPool ==
    ASSUME TypeInv, NEW b, pool' = pool \ {b}
    PROVE  IsFiniteSet(pool') /\ pool' \subseteq Buffers /\ Cardinality(pool') <= PoolSize
<1>1. IsFiniteSet(pool) /\ Cardinality(pool) \in Nat /\ Cardinality(pool) <= PoolSize
  BY FS_CardinalityType DEF TypeInv, TypeOK
<1>2. /\ IsFiniteSet(pool \ {b})
      /\ Cardinality(pool \ {b}) = IF b \in pool THEN Cardinality(pool) - 1 ELSE Cardinality(pool)
  BY <1>1, FS_RemoveElement
<1>3. Cardinality(pool \ {b}) <= PoolSize
  BY <1>1, <1>2, Sizes
<1>4. pool \subseteq Buffers
  BY DEF TypeInv, TypeOK
<1> QED BY <1>2, <1>3, <1>4

LEMMA RecycledPool ==
    ASSUME TypeInv, NEW b \in Buffers, Recycle(b)
    PROVE  IsFiniteSet(pool') /\ pool' \subseteq Buffers /\ Cardinality(pool') <= PoolSize
<1>1. IsFiniteSet(pool) /\ Cardinality(pool) \in Nat /\ Cardinality(pool) <= PoolSize
  BY FS_CardinalityType DEF TypeInv, TypeOK
<1>2. /\ IsFiniteSet(pool \cup {b})
      /\ Cardinality(pool \cup {b}) = IF b \in pool THEN Cardinality(pool) ELSE Cardinality(pool) + 1
  BY <1>1, FS_AddElement
<1>3. Cardinality(pool) < PoolSize => Cardinality(pool \cup {b}) <= PoolSize
  BY <1>1, <1>2, Sizes
<1>4. pool \subseteq Buffers
  BY DEF TypeInv, TypeOK
<1>5. pool' = IF Cardinality(pool) < PoolSize THEN pool \cup {b} ELSE pool
  BY DEF Recycle
<1> QED BY <1>1, <1>2, <1>3, <1>4, <1>5

-------------------------------------------------------------------------------
LEMMA OpenDocumentTypes ==
    ASSUME TypeInv, NEW t \in Transfers, OpenDocument(t)
    PROVE  TypeInv'
<1>1. PICK f \in Files, mode \in Modes, b \in Obtainable :
        /\ task' = [task EXCEPT ![t] = [Idle EXCEPT !.phase = "queued", !.mode = mode,
                                                    !.file = f, !.held = b]]
        /\ buffer' = IF b \in pool THEN buffer ELSE [buffer EXCEPT ![b] = Cleared]
        /\ Acquire(b)
  BY DEF OpenDocument
<1>2. b \in Buffers /\ b # NoBuffer /\ mode \in {"r", "w"}
  BY TransferAssumption DEF Obtainable, TypeInv, TypeOK
<1>3. /\ task'[t] = [Idle EXCEPT !.phase = "queued", !.mode = mode, !.file = f, !.held = b]
      /\ task' \in [Transfers -> Tasks]
  BY <1>1, <1>2, NothingUsed DEF TypeInv, TypeOK, Tasks, Phases, Idle
<1>4. pipe' \in [Transfers -> Pipes] /\ pipe'[t] = OpenPipe /\ due'[t] = <<>>
  BY NothingUsed DEF OpenDocument, TypeInv, TypeOK
<1>5. IsFiniteSet(pool') /\ pool' \subseteq Buffers /\ Cardinality(pool') <= PoolSize
  BY <1>1, SmallerPool DEF Acquire
<1>7. buffer' \in [Buffers -> [memory : [1..Capacity -> Data], position : 0..Capacity]]
  BY <1>1, <1>2, NothingUsed DEF TypeInv, TypeOK
<1>8. due' \in [Transfers -> BoundedSeq(Data, MaxLength)]
  BY Nothing DEF OpenDocument, TypeInv, TypeOK
<1>9. TypeOK'
  BY <1>3, <1>4, <1>5, <1>7, <1>8 DEF OpenDocument, TypeInv, TypeOK
<1>10. PhaseOf(t)'
  BY <1>2, <1>3, <1>4 DEF PhaseOf, Idle, OpenPipe
<1>11. RoomOf(t)'
  <2>1. /\ Len(due'[t]) = 0 /\ Len(pipe'[t].blocks) = 0 /\ Len(task'[t].array) = 0
        /\ task'[t].offset = 0 /\ task'[t].phase = "queued"
    BY <1>3, <1>4, Nothing DEF Idle, OpenPipe
  <2> QED BY <2>1, Sizes DEF RoomOf, Filled
<1>12. \A u \in Transfers \ {t} : task'[u] = task[u] /\ pipe'[u] = pipe[u] /\ due'[u] = due[u]
  BY <1>1 DEF OpenDocument, TypeInv, TypeOK
<1> QED BY <1>5, <1>9, <1>10, <1>11, <1>12, StepOfOne

LEMMA OpenFileTypes ==
    ASSUME TypeInv, NEW t \in Transfers, OpenFile(t)
    PROVE  TypeInv'
<1>0. Known(t)
  BY OfTransfer
<1> USE <1>0 DEF Known
<1>1. task[t].file \in Files /\ task[t].phase = "queued"
  BY DEF OpenFile, PhaseOf
<1>2. PICK k \in {[task[t] EXCEPT !.descriptor = "open",
                                 !.phase = IF task[t].mode = "r" THEN "reading" ELSE "pulling"],
                  [task[t] EXCEPT !.phase = "closePipe", !.failed = TRUE]} :
        task' = [task EXCEPT ![t] = k]
  BY DEF OpenFile, Fail, TypeInv, TypeOK
<1>3. k \in Tasks /\ task'[t] = k /\ task' \in [Transfers -> Tasks]
  <2>1. k \in Tasks
    BY DEF Tasks, Phases
  <2> QED BY <1>2, <2>1 DEF TypeInv, TypeOK
<1>4. content' \in [Files -> BoundedSeq(Data, MaxLength)] /\ unannounced' \subseteq Files
  BY <1>1, Nothing DEF OpenFile, TypeInv, TypeOK
<1>5. TypeOK'
  BY <1>3, <1>4 DEF OpenFile, TypeInv, TypeOK
<1>6. PhaseOf(t)'
  <2>1. /\ k.held = task[t].held /\ k.file = task[t].file /\ k.mode = task[t].mode
        /\ k.mode \in {"r", "w"} /\ task[t].held # NoBuffer
        /\ \/ k.phase \in {"reading", "pulling"} /\ ~k.failed
              /\ (k.phase = "reading" <=> k.mode = "r")
           \/ k.phase = "closePipe" /\ k.descriptor # "open"
    BY <1>1, <1>2 DEF Tasks, PhaseOf, Closing
  <2>2. pipe'[t] = pipe[t] /\ due'[t] = due[t]
    BY DEF OpenFile
  <2> QED BY <1>1, <1>3, <2>1, <2>2 DEF PhaseOf, Closing
<1>7. RoomOf(t)'
  BY <1>1, <1>3 DEF OpenFile, RoomOf, Filled, Tasks
<1>8. \A u \in Transfers \ {t} : task'[u] = task[u] /\ pipe'[u] = pipe[u] /\ due'[u] = due[u]
  BY DEF OpenFile, Fail, TypeInv, TypeOK
<1> QED BY <1>5, <1>6, <1>7, <1>8, StepOfOne DEF OpenFile, TypeInv

(* A transfer that stops copying, or forgets what it has copied, keeps its *)
(* room.                                                                   *)
LEMMA RoomKept ==
    ASSUME TypeInv, NEW t \in Transfers,
           task'[t].mode = task[t].mode, ~task'[t].failed => ~task[t].failed,
           Filled(t)' = 0,
           task'[t].array = task[t].array \/ task'[t].array = <<>>,
           pipe'[t].client = pipe[t].client, pipe'[t].blocks = pipe[t].blocks,
           due'[t] = due[t],
           \/ task[t].phase # "ended" /\ task'[t].offset = task[t].offset
           \/ task'[t].phase = "ended" /\ task'[t].offset = 0
    PROVE  RoomOf(t)'
<1>1. Known(t)
  BY OfTransfer
<1> DEFINE q == Filled(t)
           x == Len(task[t].array)
           y == Len(pipe[t].blocks)
           z == Len(due[t])
           o == task[t].offset
           left == Len(task'[t].array)
<1>2. /\ q \in Nat /\ x \in Nat /\ y \in Nat /\ z \in Nat /\ o \in Nat
      /\ z <= MaxLength
  BY <1>1, Sizes DEF Known, Filled
<1>3. left \in Nat /\ (left = x \/ left = 0)
  BY <1>2, Nothing
<1>4. q + x + y <= z => 0 + left + y <= z
  <2> HIDE DEF q, x, y, z, left
  <2> QED BY <1>2, <1>3
<1>5. RoomOf(t)
  BY DEF TypeInv
<1>6. o + z <= MaxLength => 0 + z <= MaxLength
  <2> HIDE DEF z, o
  <2> QED BY <1>2
<1>7. task'[t].mode = "w" => task'[t].offset + Len(due'[t]) <= MaxLength
  <2>1. task[t].mode = "w" => o + z <= MaxLength
    BY <1>5 DEF RoomOf
  <2> QED BY <1>6, <2>1
<1>8. /\ task'[t].mode = "w" /\ ~task'[t].failed => q + x + y <= z
      /\ task'[t].mode = "r" /\ pipe'[t].client  => q + x + y <= z
      /\ task'[t].mode = "r" /\ task'[t].phase # "ended" => z <= task'[t].offset
  BY <1>5 DEF RoomOf
<1>9. Filled(t)' + Len(task'[t].array) + Len(pipe'[t].blocks) = 0 + left + y
  BY <1>2, <1>3
<1> QED BY <1>4, <1>7, <1>8, <1>9 DEF RoomOf

(* A transfer stops copying, because it is done or because it has failed.  *)
StopsCopying(t) ==
    \/ task' = [task EXCEPT ![t].phase = "closeFile"]
    \/ task' = Fail(t, "closeFile")

LEMMA StopTypes ==
    ASSUME TypeInv, NEW t \in Transfers,
           task[t].phase \in {"reading", "filled", "pushing", "pulling"},
           StopsCopying(t), UNCHANGED <<content, session, pool, buffer, pipe, due>>,
           unannounced' \subseteq Files
    PROVE  TypeInv'
<1>1. task \in [Transfers -> Tasks] /\ task[t] \in Tasks
  BY DEF TypeInv, TypeOK
<1>2. PICK k \in {[task[t] EXCEPT !.phase = "closeFile"],
                  [task[t] EXCEPT !.phase = "closeFile", !.failed = TRUE]} :
        task' = [task EXCEPT ![t] = k]
  BY <1>1 DEF StopsCopying, Fail
<1>3. /\ k \in Tasks /\ k.phase = "closeFile" /\ k.mode = task[t].mode /\ k.file = task[t].file
      /\ k.held = task[t].held /\ k.offset = task[t].offset /\ k.array = task[t].array
      /\ ~k.failed => ~task[t].failed
  BY <1>1, <1>2 DEF Tasks, Phases
<1>4. task' \in [Transfers -> Tasks] /\ task'[t] = k /\ \A u \in Transfers \ {t} : task'[u] = task[u]
  BY <1>1, <1>2, <1>3
<1>5. TypeOK'
  BY <1>4 DEF TypeInv, TypeOK
<1>6. PhaseOf(t) /\ RoomOf(t)
  BY DEF TypeInv
<1>7. PhaseOf(t)'
  BY <1>3, <1>4, <1>6 DEF PhaseOf, Closing
<1>8. RoomOf(t)'
  <2>1. Filled(t)' = 0
    BY <1>3, <1>4 DEF Filled
  <2>2. pipe'[t] = pipe[t] /\ due'[t] = due[t]
    OBVIOUS
  <2> QED BY <1>3, <1>4, <2>1, <2>2, RoomKept
<1> QED BY <1>4, <1>5, <1>7, <1>8, StepOfOne DEF TypeInv

(* What a read gets from the server. *)
LEMMA ReadPart ==
    ASSUME NEW c \in Seq(Data), NEW o \in Nat, NEW n \in Nat \ {0}, o + n <= Len(c)
    PROVE  /\ SubSeq(c, o + 1, o + n) \in Seq(Data) /\ Len(SubSeq(c, o + 1, o + n)) = n
           /\ \A i \in 1..n : SubSeq(c, o + 1, o + n)[i] = c[o + i] /\ c[o + i] \in Data
<1>1. Len(c) \in Nat /\ \A i \in 1..Len(c) : c[i] \in Data
  BY LenProperties, ElementOfSeq
<1>2. \A i \in o + 1 .. o + n : c[i] \in Data
  BY <1>1
<1>3. /\ SubSeq(c, o + 1, o + n) \in Seq(Data)
      /\ Len(SubSeq(c, o + 1, o + n)) = IF o + 1 <= o + n THEN o + n - (o + 1) + 1 ELSE 0
      /\ \A i \in 1 .. o + n - (o + 1) + 1 : SubSeq(c, o + 1, o + n)[i] = c[o + 1 + i - 1]
  BY <1>2, SubSeqProperties
<1>4. \A i \in 1..n : SubSeq(c, o + 1, o + n)[i] = c[o + i]
  <2>1. ASSUME NEW i \in 1..n PROVE i \in 1 .. o + n - (o + 1) + 1 /\ o + 1 + i - 1 = o + i
    OBVIOUS
  <2> QED BY <1>3, <2>1
<1> QED BY <1>2, <1>3, <1>4

LEMMA ReadServerTypes ==
    ASSUME TypeInv, NEW t \in Transfers, ReadServer(t)
    PROVE  TypeInv'
<1>0. Known(t)
  BY OfTransfer
<1> USE <1>0 DEF Known
<1> DEFINE c == content[task[t].file]
           o == task[t].offset
           b == task[t].held
<1>1. /\ task[t].file \in Files /\ task[t].phase = "reading" /\ task[t].mode = "r"
      /\ b \in Buffers
  BY DEF ReadServer, PhaseOf, Is, Tasks
<1>2. c \in Seq(Data) /\ Len(c) \in Nat /\ Len(c) <= MaxLength
  <2>1. c \in BoundedSeq(Data, MaxLength)
    BY <1>1 DEF TypeInv, TypeOK
  <2> QED BY <2>1, Bounded, LenProperties
<1>3. \A u \in Transfers \ {t} : task'[u] = task[u] /\ pipe'[u] = pipe[u] /\ due'[u] = due[u]
  BY DEF ReadServer, Fail, TypeInv, TypeOK
<1>4. CASE StopsCopying(t) /\ UNCHANGED <<buffer, due>>
  BY <1>1, <1>4, StopTypes DEF ReadServer, TypeInv, TypeOK
<1>5. ASSUME NEW n \in 1..Capacity, o + n <= Len(c),
             buffer' = [buffer EXCEPT ![b].memory =
                          [i \in 1..Capacity |-> IF i <= n THEN c[o + i] ELSE @[i]]],
             due' = [due EXCEPT ![t] = @ \o SubSeq(c, o + 1, o + n)],
             task' = [task EXCEPT ![t].phase = "filled", ![t].size = n, ![t].offset = o + n]
      PROVE  TypeInv'
  <2>1. n \in Nat \ {0} /\ n <= Capacity
    BY Sizes
  <2>2. /\ SubSeq(c, o + 1, o + n) \in Seq(Data) /\ Len(SubSeq(c, o + 1, o + n)) = n
        /\ \A i \in 1..n : c[o + i] \in Data
    BY <1>2, <1>5, <2>1, ReadPart
  <2>3. o + n \in 0..MaxLength /\ n \in 0..Capacity
    BY <1>2, <1>5, <2>1, Sizes
  <2>4. /\ task'[t] = [task[t] EXCEPT !.phase = "filled", !.size = n, !.offset = o + n]
        /\ task' \in [Transfers -> Tasks]
    BY <1>5, <2>3 DEF TypeInv, TypeOK, Tasks, Phases
  <2>5. Len(due[t]) <= o
    BY <1>1 DEF RoomOf
  <2>6. due'[t] \in Seq(Data) /\ Len(due'[t]) = Len(due[t]) + n
    <3>1. due'[t] = due[t] \o SubSeq(c, o + 1, o + n)
      BY <1>5 DEF TypeInv, TypeOK
    <3> QED BY <2>2, <3>1, ConcatProperties
  <2>7. due' \in [Transfers -> BoundedSeq(Data, MaxLength)]
    <3>1. Len(due'[t]) <= MaxLength
      BY <2>1, <2>3, <2>5, <2>6, Sizes
    <3>2. due'[t] \in BoundedSeq(Data, MaxLength)
      BY <2>6, <3>1, Bounded
    <3>3. due \in [Transfers -> BoundedSeq(Data, MaxLength)]
      BY DEF TypeInv, TypeOK
    <3> QED BY <1>5, <3>2, <3>3
  <2>8. buffer' \in [Buffers -> [memory : [1..Capacity -> Data], position : 0..Capacity]]
    <3>1. buffer[b] \in [memory : [1..Capacity -> Data], position : 0..Capacity]
      BY <1>1 DEF TypeInv, TypeOK
    <3>2. [i \in 1..Capacity |-> IF i <= n THEN c[o + i] ELSE buffer[b].memory[i]]
            \in [1..Capacity -> Data]
      <4>1. buffer[b].memory \in [1..Capacity -> Data]
        BY <3>1
      <4>2. \A i \in 1..Capacity : i <= n => i \in 1..n
        BY <2>1
      <4> QED BY <2>2, <4>1, <4>2
    <3> QED BY <1>1, <1>5, <3>1, <3>2 DEF TypeInv, TypeOK
  <2>9. TypeOK'
    BY <2>4, <2>7, <2>8 DEF ReadServer, TypeInv, TypeOK
  <2>10. PhaseOf(t)'
    <3>1. /\ task'[t].phase = "filled" /\ task'[t].size = n /\ n > 0
          /\ task'[t].mode = "r" /\ task'[t].file = task[t].file /\ task'[t].held = b
          /\ task'[t].failed = task[t].failed
      BY <1>1, <2>1, <2>4 DEF Tasks
    <3>2. ~task[t].failed /\ b # NoBuffer
      BY <1>1 DEF PhaseOf, Closing
    <3> QED BY <1>1, <3>1, <3>2 DEF PhaseOf, Closing
  <2>11. RoomOf(t)'
    <3> DEFINE x == Len(task[t].array)
               y == Len(pipe[t].blocks)
               z == Len(due[t])
    <3>1. /\ task'[t].mode = "r" /\ task'[t].offset = o + n /\ task'[t].array = task[t].array
          /\ Filled(t)' = n /\ Filled(t) = 0 /\ pipe'[t] = pipe[t] /\ Len(due'[t]) = z + n
      BY <1>1, <2>4, <2>6 DEF ReadServer, Tasks, Filled
    <3>2. pipe[t].client => Filled(t) + x + y <= z
      BY <1>1 DEF RoomOf
    <3>3. x \in Nat /\ y \in Nat /\ z \in Nat
      BY Sizes
    <3>4. z + n <= o + n /\ (Filled(t) + x + y <= z => n + x + y <= z + n)
      <4> HIDE DEF x, y
      <4> QED BY <2>1, <2>5, <3>1, <3>3
    <3> QED BY <3>1, <3>2, <3>4 DEF RoomOf
  <2> QED BY <1>3, <2>9, <2>10, <2>11, StepOfOne DEF ReadServer, TypeInv
<1> QED BY <1>4, <1>5 DEF ReadServer, StopsCopying

LEMMA GetTypes ==
    ASSUME TypeInv, NEW t \in Transfers, Get(t)
    PROVE  TypeInv'
<1>0. Known(t)
  BY OfTransfer
<1> USE <1>0 DEF Known
<1> DEFINE b == buffer[task[t].held]
           n == task[t].size
           a == [i \in 1..n |-> b.memory[b.position + i]]
<1>1. /\ task[t].phase = "filled" /\ task[t].mode = "r" /\ task[t].held \in Buffers
      /\ n \in Nat /\ n <= Capacity
  BY DEF Get, PhaseOf, Is, Tasks
<1>2. /\ b \in [memory : [1..Capacity -> Data], position : 0..Capacity]
      /\ b.position + n <= Capacity
  BY <1>1 DEF Get, TypeInv, TypeOK
<1>3. a \in Seq(Data) /\ Len(a) = n /\ a \in BoundedSeq(Data, Capacity)
  <2>1. a \in [1..n -> Data]
    <3>1. b.memory \in [1..Capacity -> Data] /\ b.position \in Nat
      BY <1>2
    <3> HIDE DEF b, n
    <3>2. \A i \in 1..n : b.position + i \in 1..Capacity
      <4>1. Capacity \in Nat /\ n \in Nat /\ b.position + n <= Capacity
        BY <1>1, <1>2, Sizes
      <4> HIDE <1>0
      <4> QED BY <3>1, <4>1
    <3> QED BY <3>1, <3>2
  <2> HIDE DEF a
  <2>2. a \in Seq(Data) /\ Len(a) = n
    BY <1>1, <2>1, SeqOfFunction
  <2> QED BY <1>1, <2>2, Bounded
<1>4. /\ task'[t] = [task[t] EXCEPT !.phase = "pushing", !.size = 0, !.array = a]
      /\ task' \in [Transfers -> Tasks]
  <2>1. task' = [task EXCEPT ![t] = [task[t] EXCEPT !.phase = "pushing", !.size = 0, !.array = a]]
    BY DEF Get, TypeInv, TypeOK
  <2> HIDE DEF a
  <2>2. [task[t] EXCEPT !.phase = "pushing", !.size = 0, !.array = a] \in Tasks
    <3>1. task[t] \in Tasks /\ 0 \in 0..Capacity
      BY Sizes
    <3> HIDE <1>0
    <3> QED BY <1>3, <3>1 DEF Tasks, Phases
  <2> QED BY <2>1, <2>2 DEF TypeInv, TypeOK
<1>5. buffer' \in [Buffers -> [memory : [1..Capacity -> Data], position : 0..Capacity]]
  <2>1. b.position + n \in 0..Capacity
    BY <1>1, <1>2, Sizes
  <2> QED BY <1>1, <1>2, <2>1 DEF Get, TypeInv, TypeOK
<1>6. TypeOK'
  BY <1>4, <1>5 DEF Get, TypeInv, TypeOK
<1>7. a # <<>>
  BY <1>1, <1>3, EmptySeq DEF PhaseOf
<1>8. PhaseOf(t)'
  <2> HIDE DEF a
  <2>1. /\ task'[t].phase = "pushing" /\ task'[t].array = a
        /\ task'[t].mode = "r" /\ task'[t].file = task[t].file /\ task'[t].held = task[t].held
        /\ task'[t].failed = task[t].failed
    BY <1>1, <1>4 DEF Tasks
  <2>2. ~task[t].failed /\ task[t].held # NoBuffer
    BY <1>1 DEF PhaseOf, Closing
  <2> QED BY <1>1, <1>7, <2>1, <2>2 DEF PhaseOf, Closing
<1>9. RoomOf(t)'
  <2> HIDE DEF a
  <2> DEFINE x == Len(task[t].array)
             y == Len(pipe[t].blocks)
             z == Len(due[t])
  <2>1. /\ task'[t].mode = "r" /\ task'[t].offset = task[t].offset /\ Len(task'[t].array) = n
        /\ Filled(t)' = 0 /\ Filled(t) = n /\ pipe'[t] = pipe[t] /\ due'[t] = due[t]
    BY <1>1, <1>3, <1>4 DEF Get, Tasks, Filled
  <2>2. /\ pipe[t].client => Filled(t) + x + y <= z
        /\ z <= task[t].offset
    BY <1>1 DEF RoomOf
  <2>3. x \in Nat /\ y \in Nat /\ z \in Nat
    BY Sizes
  <2>4. Filled(t) + x + y <= z => 0 + n + y <= z
    <3> HIDE DEF x, y, z
    <3> QED BY <1>1, <2>1, <2>3
  <2> QED BY <2>1, <2>2, <2>4 DEF RoomOf
<1>10. \A u \in Transfers \ {t} : task'[u] = task[u] /\ pipe'[u] = pipe[u] /\ due'[u] = due[u]
  BY DEF Get, TypeInv, TypeOK
<1> QED BY <1>6, <1>8, <1>9, <1>10, StepOfOne DEF Get, TypeInv

LEMMA PushTypes ==
    ASSUME TypeInv, NEW t \in Transfers, Push(t)
    PROVE  TypeInv'
<1>0. Known(t)
  BY OfTransfer
<1> USE <1>0 DEF Known
<1>1. /\ task[t].phase = "pushing" /\ task[t].mode = "r" /\ task[t].held \in Buffers
      /\ task[t].array # <<>>
  BY DEF Push, PhaseOf, Is, Tasks
<1>2. /\ Head(task[t].array) \in Data /\ Tail(task[t].array) \in Seq(Data)
      /\ Len(Tail(task[t].array)) = Len(task[t].array) - 1
  BY <1>1, HeadTailProperties
<1>3. Len(task[t].array) \in Nat /\ Len(task[t].array) <= Capacity
  BY Sizes
<1>4. Tail(task[t].array) \in BoundedSeq(Data, Capacity)
  <2>1. Len(Tail(task[t].array)) <= Capacity
    BY <1>2, <1>3, Sizes
  <2> QED BY <1>2, <2>1, Bounded
<1>5. \A u \in Transfers \ {t} : task'[u] = task[u] /\ pipe'[u] = pipe[u] /\ due'[u] = due[u]
  BY DEF Push, Fail, TypeInv, TypeOK
<1>6. CASE StopsCopying(t) /\ UNCHANGED <<pipe, buffer>>
  BY <1>1, <1>6, StopTypes DEF Push, TypeInv, TypeOK
<1>7. CASE /\ Len(pipe[t].blocks) < PipeSize
           /\ pipe' = [pipe EXCEPT ![t].blocks = Append(@, Head(task[t].array))]
           /\ task' = [task EXCEPT ![t].array = Tail(@),
                                  ![t].phase = IF Len(task[t].array) = 1 THEN "reading" ELSE @]
           /\ buffer' = IF Len(task[t].array) = 1
                        THEN [buffer EXCEPT ![task[t].held].position = 0] ELSE buffer
  <2>1. /\ task'[t] = [task[t] EXCEPT !.array = Tail(@),
                           !.phase = IF Len(task[t].array) = 1 THEN "reading" ELSE @]
        /\ task' \in [Transfers -> Tasks]
    BY <1>4, <1>7 DEF TypeInv, TypeOK, Tasks, Phases
  <2>2. Append(pipe[t].blocks, Head(task[t].array)) \in BoundedSeq(Data, PipeSize)
    <3>1. /\ Append(pipe[t].blocks, Head(task[t].array)) \in Seq(Data)
          /\ Len(Append(pipe[t].blocks, Head(task[t].array))) = Len(pipe[t].blocks) + 1
      BY <1>2, AppendProperties
    <3>2. Len(pipe[t].blocks) + 1 <= PipeSize
      BY <1>7, Sizes
    <3> QED BY <3>1, <3>2, Bounded
  <2>3. /\ pipe'[t] = [pipe[t] EXCEPT !.blocks = Append(@, Head(task[t].array))]
        /\ pipe' \in [Transfers -> Pipes]
    BY <1>7, <2>2 DEF TypeInv, TypeOK, Pipes
  <2>4. buffer' \in [Buffers -> [memory : [1..Capacity -> Data], position : 0..Capacity]]
    <3>1. 0 \in 0..Capacity
      BY Sizes
    <3> QED BY <1>1, <1>7, <3>1 DEF TypeInv, TypeOK
  <2>5. TypeOK'
    BY <2>1, <2>3, <2>4 DEF Push, TypeInv, TypeOK
  <2>6. Len(task[t].array) # 1 => Tail(task[t].array) # <<>>
    <3>1. Len(task[t].array) \in Nat \ {0}
      BY <1>1, EmptySeq
    <3>2. Len(task[t].array) # 1 => Len(Tail(task[t].array)) # 0
      BY <1>2, <3>1
    <3> QED BY <3>2, EmptySeq
  <2>7. PhaseOf(t)'
    <3>1. /\ task'[t].array = Tail(task[t].array)
          /\ task'[t].phase = IF Len(task[t].array) = 1 THEN "reading" ELSE "pushing"
          /\ task'[t].mode = "r" /\ task'[t].file = task[t].file /\ task'[t].held = task[t].held
          /\ task'[t].failed = task[t].failed
      BY <1>1, <2>1 DEF Tasks
    <3>2. ~task[t].failed /\ task[t].held # NoBuffer /\ task[t].file \in Files
      BY <1>1 DEF PhaseOf, Closing
    <3> QED BY <2>6, <3>1, <3>2 DEF PhaseOf, Closing
  <2>8. RoomOf(t)'
    <3> DEFINE x == Len(task[t].array)
               y == Len(pipe[t].blocks)
               z == Len(due[t])
    <3>1. /\ task'[t].mode = "r" /\ task'[t].offset = task[t].offset
          /\ Len(task'[t].array) = x - 1 /\ Len(pipe'[t].blocks) = y + 1
          /\ Filled(t)' = 0 /\ Filled(t) = 0 /\ due'[t] = due[t]
          /\ pipe'[t].client = pipe[t].client
      <4>1. Len(Append(pipe[t].blocks, Head(task[t].array))) = y + 1
        BY <1>2, AppendProperties
      <4> QED BY <1>1, <1>2, <2>1, <2>3, <4>1 DEF Push, Tasks, Pipes, Filled
    <3>2. /\ pipe[t].client => Filled(t) + x + y <= z
          /\ z <= task[t].offset
      BY <1>1 DEF RoomOf
    <3>3. x \in Nat /\ y \in Nat /\ z \in Nat
      BY Sizes
    <3>4. Filled(t) + x + y <= z => 0 + (x - 1) + (y + 1) <= z
      <4> HIDE DEF x, y, z
      <4> QED BY <3>1, <3>3
    <3> QED BY <3>1, <3>2, <3>4 DEF RoomOf
  <2> QED BY <1>5, <2>5, <2>7, <2>8, StepOfOne DEF Push, TypeInv
<1> QED BY <1>6, <1>7 DEF Push, StopsCopying

LEMMA PullTypes ==
    ASSUME TypeInv, NEW t \in Transfers, Pull(t)
    PROVE  TypeInv'
<1>0. Known(t)
  BY OfTransfer
<1> USE <1>0 DEF Known
<1> DEFINE p == pipe[t].blocks
<1>1. task[t].phase = "pulling" /\ task[t].mode = "w"
  BY DEF Pull, Is
<1>2. \A u \in Transfers \ {t} : task'[u] = task[u] /\ pipe'[u] = pipe[u] /\ due'[u] = due[u]
  BY DEF Pull, Fail, TypeInv, TypeOK
<1>3. CASE StopsCopying(t) /\ UNCHANGED pipe
  BY <1>1, <1>3, StopTypes DEF Pull, TypeInv, TypeOK
<1>4. ASSUME NEW n \in 1..Capacity, n <= Len(p),
             task' = [task EXCEPT ![t].phase = "pulled", ![t].array = SubSeq(p, 1, n)],
             pipe' = [pipe EXCEPT ![t].blocks = SubSeq(@, n + 1, Len(@))]
      PROVE  TypeInv'
  <2>1. n \in 1..Len(p) /\ n \in Nat \ {0} /\ n <= Capacity
    BY <1>4, Sizes
  <2>2. /\ SubSeq(p, 1, n) \in Seq(Data) /\ Len(SubSeq(p, 1, n)) = n
        /\ SubSeq(p, n + 1, Len(p)) \in Seq(Data) /\ Len(SubSeq(p, n + 1, Len(p))) = Len(p) - n
    BY <2>1, CutSeq
  <2>3. Len(p) - n <= PipeSize /\ Len(p) \in Nat
    BY <2>1, Sizes
  <2>4. SubSeq(p, 1, n) \in BoundedSeq(Data, Capacity)
    BY <2>1, <2>2, Bounded
  <2>5. SubSeq(p, n + 1, Len(p)) \in BoundedSeq(Data, PipeSize)
    BY <2>2, <2>3, Bounded
  <2>6. /\ task'[t] = [task[t] EXCEPT !.phase = "pulled", !.array = SubSeq(p, 1, n)]
        /\ task' \in [Transfers -> Tasks]
    BY <1>4, <2>4 DEF TypeInv, TypeOK, Tasks, Phases
  <2>7. /\ pipe'[t] = [pipe[t] EXCEPT !.blocks = SubSeq(p, n + 1, Len(p))]
        /\ pipe' \in [Transfers -> Pipes]
    BY <1>4, <2>5 DEF TypeInv, TypeOK, Pipes
  <2>8. TypeOK'
    BY <2>6, <2>7 DEF Pull, TypeInv, TypeOK
  <2>9. SubSeq(p, 1, n) # <<>>
    BY <2>1, <2>2, EmptySeq
  <2>10. PhaseOf(t)'
    <3>1. /\ task'[t].phase = "pulled" /\ task'[t].array # <<>>
          /\ task'[t].mode = "w" /\ task'[t].file = task[t].file /\ task'[t].held = task[t].held
          /\ task'[t].failed = task[t].failed
      BY <1>1, <2>6, <2>9 DEF Tasks
    <3>2. ~task[t].failed /\ task[t].held # NoBuffer /\ task[t].file \in Files
      BY <1>1 DEF PhaseOf, Closing
    <3> QED BY <3>1, <3>2 DEF PhaseOf, Closing
  <2>11. RoomOf(t)'
    <3>1. /\ task'[t].mode = "w" /\ task'[t].phase = "pulled" /\ task'[t].failed = task[t].failed
          /\ task'[t].offset = task[t].offset /\ Len(task'[t].array) = n
          /\ Len(pipe'[t].blocks) = Len(p) - n /\ due'[t] = due[t]
      BY <1>1, <2>2, <2>6, <2>7 DEF Pull, Tasks, Pipes
    <3>2. Len(task[t].array) \in Nat /\ Filled(t) = 0 /\ Filled(t)' = 0
      BY <1>1, <3>1, Sizes DEF Filled
    <3>3. task[t].offset + Len(due[t]) <= MaxLength
      BY <1>1 DEF RoomOf
    <3>4. ASSUME ~task'[t].failed
          PROVE  Filled(t)' + Len(task'[t].array) + Len(pipe'[t].blocks) <= Len(due'[t])
      <4>1. Filled(t) + Len(task[t].array) + Len(p) <= Len(due[t])
        BY <1>1, <3>1, <3>4 DEF RoomOf
      <4>2. Len(due[t]) \in Nat /\ Len(p) \in Nat /\ n \in Nat
        BY <2>1, <2>3, Sizes
      <4>3. Filled(t)' + Len(task'[t].array) + Len(pipe'[t].blocks) = Len(p)
        BY <2>1, <3>1, <3>2, <4>2
      <4>4. Len(p) <= Len(due[t])
        BY <3>2, <4>1, <4>2, Shorter
      <4> QED BY <3>1, <4>3, <4>4
    <3> QED BY <3>1, <3>3, <3>4 DEF RoomOf
  <2> QED BY <1>2, <2>8, <2>10, <2>11, StepOfOne DEF Pull, TypeInv
<1> QED BY <1>3, <1>4 DEF Pull, StopsCopying

LEMMA PutTypes ==
    ASSUME TypeInv, NEW t \in Transfers, Put(t)
    PROVE  TypeInv'
<1>0. Known(t)
  BY OfTransfer
<1> USE <1>0 DEF Known
<1> DEFINE h == task[t].held
           p == buffer[h].position
           old == buffer[h].memory
           a == task[t].array
           n == Len(a)
           m == [i \in 1..Capacity |-> IF i > p /\ i <= p + n THEN a[i - p] ELSE old[i]]
<1>1. /\ task[t].phase = "pulled" /\ task[t].mode = "w" /\ h \in Buffers /\ a # <<>>
      /\ ~task[t].failed /\ h # NoBuffer /\ task[t].file \in Files
  BY DEF Put, PhaseOf, Is, Tasks, Closing
<1>2. /\ buffer[h] \in [memory : [1..Capacity -> Data], position : 0..Capacity]
      /\ p + n <= Capacity
      /\ task' = [task EXCEPT ![t].phase = "filled", ![t].size = n, ![t].array = <<>>]
      /\ buffer' = [buffer EXCEPT ![h] = [position |-> p + n, memory |-> m]]
  BY <1>1 DEF Put, TypeInv, TypeOK
<1>3. p \in Nat /\ old \in [1..Capacity -> Data] /\ n \in Nat \ {0} /\ n <= Capacity
  BY <1>1, <1>2, EmptySeq, Sizes
<1>4. m \in [1..Capacity -> Data]
  <2>1. \A i \in 1..n : a[i] \in Data
    BY ElementOfSeq
  <2>2. n \in Nat /\ p \in Nat /\ Capacity \in Nat
    BY <1>3, Sizes
  <2> HIDE DEF n, p
  <2> HIDE <1>0
  <2>3. \A i \in 1..Capacity : i > p /\ i <= p + n => i - p \in 1..n
    BY <2>2
  <2> QED BY <1>3, <2>1, <2>3
<1> HIDE DEF m
<1>5. buffer' \in [Buffers -> [memory : [1..Capacity -> Data], position : 0..Capacity]]
  <2>1. p + n \in 0..Capacity
    BY <1>2, <1>3, Sizes
  <2> QED BY <1>1, <1>2, <1>4, <2>1 DEF TypeInv, TypeOK
<1>6. /\ task'[t] = [task[t] EXCEPT !.phase = "filled", !.size = n, !.array = <<>>]
      /\ task' \in [Transfers -> Tasks]
  <2>1. n \in 0..Capacity
    BY <1>3, Sizes
  <2> QED BY <1>2, <2>1, Nothing DEF TypeInv, TypeOK, Tasks, Phases
<1>7. TypeOK'
  BY <1>5, <1>6 DEF Put, TypeInv, TypeOK
<1>8. /\ task'[t].phase = "filled" /\ task'[t].size = n /\ task'[t].array = <<>>
      /\ task'[t].mode = "w" /\ task'[t].file = task[t].file /\ task'[t].held = h
      /\ task'[t].failed = task[t].failed /\ task'[t].offset = task[t].offset
      /\ pipe'[t] = pipe[t] /\ due'[t] = due[t]
  BY <1>1, <1>6 DEF Put, Tasks
<1>9. PhaseOf(t)'
  BY <1>1, <1>3, <1>8 DEF PhaseOf, Closing
<1>10. RoomOf(t)'
  <2>1. Filled(t) = 0 /\ Filled(t)' = n /\ Len(task'[t].array) = 0
    BY <1>1, <1>8, Nothing DEF Filled
  <2>2. Filled(t) + n + Len(pipe[t].blocks) <= Len(due[t])
    BY <1>1 DEF RoomOf
  <2>3. task[t].offset + Len(due[t]) <= MaxLength
    BY <1>1 DEF RoomOf
  <2>4. n \in Nat /\ Len(pipe[t].blocks) \in Nat /\ Len(due[t]) \in Nat
    BY <1>3, Sizes
  <2>5. Filled(t)' + Len(task'[t].array) + Len(pipe'[t].blocks) <= Len(due'[t])
    <3>1. n + Len(pipe[t].blocks) <= Len(due[t])
      BY <2>1, <2>2, <2>4, Shorter
    <3>2. n + 0 + Len(pipe[t].blocks) = n + Len(pipe[t].blocks)
      BY <2>4
    <3> QED BY <1>8, <2>1, <3>1, <3>2
  <2> QED BY <1>8, <2>3, <2>5 DEF RoomOf
<1>11. \A u \in Transfers \ {t} : task'[u] = task[u] /\ pipe'[u] = pipe[u] /\ due'[u] = due[u]
  BY DEF Put, TypeInv, TypeOK
<1> QED BY <1>7, <1>9, <1>10, <1>11, StepOfOne DEF Put, TypeInv

(* Writing extends a file at most to the end of what is written. *)
LEMMA WrittenType ==
    ASSUME NEW c \in Seq(Data), NEW o \in Nat, NEW s \in Seq(Data),
           Len(c) <= MaxLength, o + Len(s) <= MaxLength
    PROVE  Written(c, o, s) \in BoundedSeq(Data, MaxLength)
<1> DEFINE l == IF o + Len(s) > Len(c) THEN o + Len(s) ELSE Len(c)
           w == [i \in 1..l |-> IF i > o /\ i <= o + Len(s) THEN s[i - o]
                                ELSE IF i <= Len(c) THEN c[i] ELSE Zero]
<1>1. Len(c) \in Nat /\ Len(s) \in Nat /\ l \in Nat /\ l <= MaxLength
  BY LenProperties, Sizes
<1>2. (\A i \in 1..Len(c) : c[i] \in Data) /\ \A i \in 1..Len(s) : s[i] \in Data
  BY ElementOfSeq
<1>3. w \in [1..l -> Data]
  <2>1. ASSUME NEW i \in 1..l
        PROVE  /\ i > o /\ i <= o + Len(s) => i - o \in 1..Len(s)
               /\ i <= Len(c) => i \in 1..Len(c)
    BY <1>1
  <2> HIDE DEF l
  <2> QED BY <1>2, <2>1 DEF Data
<1> HIDE DEF l, w
<1>4. w \in BoundedSeq(Data, MaxLength)
  BY <1>1, <1>3, SeqOfFunction, Bounded
<1> QED BY <1>4 DEF Written, w, l

LEMMA WriteServerTypes ==
    ASSUME TypeInv, NEW t \in Transfers, WriteServer(t)
    PROVE  TypeInv'
<1>0. Known(t)
  BY OfTransfer
<1> USE <1>0 DEF Known
<1> DEFINE h == task[t].held
           f == task[t].file
           o == task[t].offset
           m == buffer[h].memory
           d == due[t]
<1>1. /\ task[t].phase = "filled" /\ task[t].mode = "w" /\ h \in Buffers
      /\ ~task[t].failed /\ h # NoBuffer /\ f \in Files
  BY DEF WriteServer, PhaseOf, Is, Tasks, Closing
<1>2. \A u \in Transfers \ {t} : task'[u] = task[u] /\ pipe'[u] = pipe[u] /\ due'[u] = due[u]
  BY DEF WriteServer, Fail, TypeInv, TypeOK
<1>3. CASE StopsCopying(t) /\ UNCHANGED <<content, unannounced, buffer, due>>
  BY <1>1, <1>3, StopTypes DEF WriteServer, TypeInv, TypeOK
<1>4. ASSUME NEW n \in 1..task[t].size,
             content' = [content EXCEPT ![f] = Written(@, o, SubSeq(m, 1, n))],
             due' = [due EXCEPT ![t] = SubSeq(@, n + 1, Len(@))],
             task' = [task EXCEPT ![t].phase = "pulling", ![t].size = 0, ![t].offset = @ + n],
             unannounced' = unannounced \cup {f},
             buffer' = [buffer EXCEPT ![h].position = 0]
      PROVE  TypeInv'
  <2>1. n \in Nat \ {0} /\ n <= task[t].size /\ n <= Capacity /\ n \in 1..Capacity
    BY <1>4, Sizes
  <2>2. buffer[h] \in [memory : [1..Capacity -> Data], position : 0..Capacity]
    BY <1>1 DEF TypeInv, TypeOK
  <2>3. m \in Seq(Data) /\ Len(m) = Capacity
    BY <2>2, SeqOfFunction, Sizes
  <2>4. SubSeq(m, 1, n) \in Seq(Data) /\ Len(SubSeq(m, 1, n)) = n
    BY <2>1, <2>3, CutSeq
  <2>5. /\ Filled(t) = task[t].size
        /\ Filled(t) + Len(task[t].array) + Len(pipe[t].blocks) <= Len(d)
        /\ o + Len(d) <= MaxLength
    BY <1>1 DEF RoomOf, Filled
  <2>6. /\ task[t].size \in Nat /\ o \in Nat /\ Len(d) \in Nat
        /\ Len(task[t].array) \in Nat /\ Len(pipe[t].blocks) \in Nat
    BY Sizes
  <2>7. task[t].size <= Len(d)
    BY <2>5, <2>6, Shorter
  <2>8. n \in 1..Len(d) /\ o + n \in Nat /\ o + n <= MaxLength
    <3> DEFINE x == Len(d)
               y == task[t].size
    <3>1. /\ n \in Nat \ {0} /\ x \in Nat /\ y \in Nat /\ o \in Nat
          /\ n <= y /\ y <= x /\ o + x <= MaxLength
      BY <2>1, <2>5, <2>6, <2>7
    <3> HIDE DEF x, y, o
    <3> HIDE <1>0
    <3>2. n \in 1..x /\ o + n \in Nat /\ o + n <= MaxLength
      BY <3>1, Sizes
    <3> QED BY <3>2 DEF x, o
  <2>9. /\ SubSeq(d, n + 1, Len(d)) \in Seq(Data)
        /\ Len(SubSeq(d, n + 1, Len(d))) = Len(d) - n
    BY <2>8, CutSeq
  <2>10. content' \in [Files -> BoundedSeq(Data, MaxLength)]
    <3>1. content \in [Files -> BoundedSeq(Data, MaxLength)]
      BY DEF TypeInv, TypeOK
    <3>2. content[f] \in Seq(Data) /\ Len(content[f]) <= MaxLength
      BY <1>1, <3>1, Bounded
    <3>3. Written(content[f], o, SubSeq(m, 1, n)) \in BoundedSeq(Data, MaxLength)
      BY <2>4, <2>6, <2>8, <3>2, WrittenType
    <3> QED BY <1>1, <1>4, <3>1, <3>3
  <2>11. due' \in [Transfers -> BoundedSeq(Data, MaxLength)]
         /\ due'[t] = SubSeq(d, n + 1, Len(d))
    <3>1. due \in [Transfers -> BoundedSeq(Data, MaxLength)]
      BY DEF TypeInv, TypeOK
    <3>2. Len(d) - n <= MaxLength
      BY <2>1, <2>6, Sizes
    <3>3. SubSeq(d, n + 1, Len(d)) \in BoundedSeq(Data, MaxLength)
      BY <2>9, <3>2, Bounded
    <3> QED BY <1>4, <3>1, <3>3
  <2>12. /\ task'[t] = [task[t] EXCEPT !.phase = "pulling", !.size = 0, !.offset = o + n]
         /\ task' \in [Transfers -> Tasks]
    <3>1. o + n \in 0..MaxLength /\ 0 \in 0..Capacity
      BY <2>8, Sizes
    <3> QED BY <1>4, <3>1 DEF TypeInv, TypeOK, Tasks, Phases
  <2>13. buffer' \in [Buffers -> [memory : [1..Capacity -> Data], position : 0..Capacity]]
    <3>1. 0 \in 0..Capacity
      BY Sizes
    <3> QED BY <1>1, <1>4, <2>2, <3>1 DEF TypeInv, TypeOK
  <2>14. TypeOK'
    BY <1>1, <1>4, <2>10, <2>11, <2>12, <2>13 DEF WriteServer, TypeInv, TypeOK
  <2>15. /\ task'[t].phase = "pulling" /\ task'[t].mode = "w" /\ task'[t].file = f
         /\ task'[t].held = h /\ task'[t].failed = task[t].failed
         /\ task'[t].offset = o + n /\ task'[t].array = task[t].array
         /\ pipe'[t] = pipe[t]
    BY <1>1, <2>12 DEF WriteServer, Tasks
  <2>16. PhaseOf(t)'
    BY <1>1, <2>15 DEF PhaseOf, Closing
  <2>17. RoomOf(t)'
    <3> DEFINE x == Len(d)
               y == Len(task[t].array)
               z == Len(pipe[t].blocks)
    <3>1. Filled(t)' = 0 /\ Len(due'[t]) = x - n
      BY <2>9, <2>11, <2>15 DEF Filled
    <3>2. o + n + (x - n) <= MaxLength /\ 0 + y + z <= x - n
      <4>1. x \in Nat /\ y \in Nat /\ z \in Nat /\ n \in Nat /\ task[t].size \in Nat
        BY <2>1, <2>6
      <4>2. task[t].size + y + z <= x /\ n <= task[t].size /\ o + x <= MaxLength
        BY <2>1, <2>5
      <4> HIDE DEF x, y, z
      <4> HIDE <1>0
      <4> QED BY <2>6, <4>1, <4>2, Sizes
    <3> QED BY <2>15, <3>1, <3>2 DEF RoomOf
  <2> QED BY <1>2, <2>14, <2>16, <2>17, StepOfOne DEF WriteServer, TypeInv
<1> QED BY <1>3, <1>4 DEF WriteServer, StopsCopying

LEMMA CloseFileTypes ==
    ASSUME TypeInv, NEW t \in Transfers, CloseFile(t)
    PROVE  TypeInv'
<1>1. task \in [Transfers -> Tasks] /\ task[t] \in Tasks /\ task[t].phase = "closeFile"
  BY DEF CloseFile, TypeInv, TypeOK
<1>2. PICK k \in {[task[t] EXCEPT !.phase = "closePipe", !.descriptor = "none"],
                  [task[t] EXCEPT !.phase = "closePipe", !.failed = TRUE, !.descriptor = "none"]} :
        task' = [task EXCEPT ![t] = k]
  BY <1>1 DEF CloseFile, Fail
<1>3. /\ k \in Tasks /\ k.phase = "closePipe" /\ k.mode = task[t].mode /\ k.file = task[t].file
      /\ k.held = task[t].held /\ k.offset = task[t].offset /\ k.array = task[t].array
      /\ k.descriptor = "none"
      /\ ~k.failed => ~task[t].failed
  BY <1>1, <1>2 DEF Tasks, Phases
<1>4. task' \in [Transfers -> Tasks] /\ task'[t] = k /\ \A u \in Transfers \ {t} : task'[u] = task[u]
  BY <1>1, <1>2, <1>3
<1>5. TypeOK'
  BY <1>4 DEF CloseFile, TypeInv, TypeOK
<1>6. PhaseOf(t)
  BY DEF TypeInv
<1>7. PhaseOf(t)'
  BY <1>1, <1>3, <1>4, <1>6 DEF PhaseOf, Closing
<1>8. RoomOf(t)'
  <2>1. Filled(t)' = 0
    BY <1>3, <1>4 DEF Filled
  <2>2. pipe'[t] = pipe[t] /\ due'[t] = due[t]
    BY DEF CloseFile
  <2> QED BY <1>1, <1>3, <1>4, <2>1, <2>2, RoomKept
<1> QED BY <1>4, <1>5, <1>7, <1>8, StepOfOne DEF CloseFile, TypeInv

LEMMA ClosePipeTypes ==
    ASSUME TypeInv, NEW t \in Transfers, ClosePipe(t) \/ Catch(t)
    PROVE  TypeInv'
<1>1. task[t] \in Tasks /\ pipe[t] \in Pipes /\ task[t].phase \in {"closePipe", "catch"}
  BY DEF ClosePipe, Catch, TypeInv, TypeOK
<1>2. PICK k \in {[task[t] EXCEPT !.phase = "catch"], [task[t] EXCEPT !.phase = "posted"]} :
        task' = [task EXCEPT ![t] = k]
  BY <1>1 DEF ClosePipe, Catch, TypeInv, TypeOK
<1>3. /\ k \in Tasks /\ k.phase \in {"catch", "posted"} /\ k.mode = task[t].mode
      /\ k.file = task[t].file /\ k.held = task[t].held /\ k.offset = task[t].offset
      /\ k.array = task[t].array /\ k.descriptor = task[t].descriptor
      /\ k.failed = task[t].failed
  BY <1>1, <1>2 DEF Tasks, Phases
<1>4. task' \in [Transfers -> Tasks] /\ task'[t] = k /\ \A u \in Transfers \ {t} : task'[u] = task[u]
  BY <1>2, <1>3 DEF TypeInv, TypeOK
<1>5. PhaseOf(t)
  BY DEF TypeInv
<1>6. PICK e \in {"clean", "error"} : pipe' = [pipe EXCEPT ![t].end = e]
  <2>1. CASE ClosePipe(t)
    BY <2>1 DEF ClosePipe
  <2>2. CASE Catch(t)
    <3>1. pipe[t].end \in {"clean", "error"}
      BY <1>5, <2>2 DEF Catch, PhaseOf
    <3> QED BY <2>2, <3>1 DEF Catch
  <2> QED BY <2>1, <2>2
<1>7. /\ pipe' \in [Transfers -> Pipes] /\ \A u \in Transfers \ {t} : pipe'[u] = pipe[u]
      /\ pipe'[t].end = e /\ pipe'[t].client = pipe[t].client
      /\ pipe'[t].blocks = pipe[t].blocks
  BY <1>1, <1>6 DEF TypeInv, TypeOK, Pipes
<1>8. UNCHANGED <<content, unannounced, session, pool, buffer, due>>
  BY DEF ClosePipe, Catch
<1>9. TypeOK'
  BY <1>4, <1>7, <1>8 DEF TypeInv, TypeOK
<1>10. PhaseOf(t)'
  BY <1>1, <1>3, <1>4, <1>5, <1>7 DEF PhaseOf, Closing
<1>11. RoomOf(t)'
  <2>1. Filled(t)' = 0
    BY <1>3, <1>4 DEF Filled
  <2> QED BY <1>1, <1>3, <1>4, <1>7, <1>8, <2>1, RoomKept
<1> QED BY <1>4, <1>7, <1>8, <1>9, <1>10, <1>11, StepOfOne DEF TypeInv

LEMMA PostExecuteTypes ==
    ASSUME TypeInv, NEW t \in Transfers, PostExecute(t)
    PROVE  TypeInv'
<1> DEFINE k == [Idle EXCEPT !.phase = "ended", !.mode = task[t].mode,
                             !.failed = task[t].failed, !.descriptor = task[t].descriptor]
<1>1. task[t] \in Tasks /\ task[t].phase = "posted" /\ PhaseOf(t)
  BY DEF PostExecute, TypeInv, TypeOK
<1>2. task[t].held \in Buffers
  BY <1>1 DEF PhaseOf, Tasks
<1>3. /\ k \in Tasks /\ k.phase = "ended" /\ k.mode = task[t].mode /\ k.held = NoBuffer
      /\ k.offset = 0 /\ k.array = <<>> /\ k.failed = task[t].failed
      /\ k.descriptor = task[t].descriptor
  BY <1>1, NothingUsed DEF Tasks, Phases, Idle
<1> HIDE DEF k
<1>4. /\ task' \in [Transfers -> Tasks] /\ task'[t] = k
      /\ \A u \in Transfers \ {t} : task'[u] = task[u]
  BY <1>3 DEF PostExecute, TypeInv, TypeOK, k
<1>5. IsFiniteSet(pool') /\ pool' \subseteq Buffers /\ Cardinality(pool') <= PoolSize
  BY <1>2, RecycledPool DEF PostExecute
<1>6. buffer' \in [Buffers -> [memory : [1..Capacity -> Data], position : 0..Capacity]]
  <2>1. 0 \in 0..Capacity
    BY Sizes
  <2> QED BY <1>2, <2>1 DEF PostExecute, Recycle, TypeInv, TypeOK
<1>7. TypeOK'
  BY <1>4, <1>5, <1>6 DEF PostExecute, Announced, TypeInv, TypeOK
<1>8. UNCHANGED <<pipe, due>>
  BY DEF PostExecute
<1>9. PhaseOf(t)'
  BY <1>1, <1>3, <1>4, <1>8 DEF PhaseOf, Closing
<1>10. RoomOf(t)'
  <2>1. Filled(t)' = 0
    BY <1>3, <1>4 DEF Filled
  <2> QED BY <1>3, <1>4, <1>8, <2>1, RoomKept
<1> QED BY <1>4, <1>5, <1>7, <1>8, <1>9, <1>10, StepOfOne

LEMMA ReceiveTypes ==
    ASSUME TypeInv, NEW t \in Transfers, Receive(t)
    PROVE  TypeInv'
<1>0. Known(t)
  BY OfTransfer
<1> USE <1>0 DEF Known
<1> DEFINE p == pipe[t].blocks
           d == due[t]
           x == Len(task[t].array)
           y == Len(p)
           z == Len(d)
<1>1. task[t].mode = "r" /\ pipe[t].client /\ p # <<>>
  BY DEF Receive
<1>2. x \in Nat /\ y \in Nat \ {0} /\ z \in Nat /\ y <= PipeSize /\ z <= MaxLength
  BY <1>1, EmptySeq, Sizes
<1>3. Filled(t) \in Nat /\ Filled(t) + x + y <= z
  BY <1>1 DEF RoomOf, Filled
<1>4. z # 0 /\ Filled(t) + x + (y - 1) <= z - 1 /\ y - 1 <= PipeSize /\ z - 1 <= MaxLength
  <2> HIDE DEF x, y, z
  <2> QED BY <1>2, <1>3, Sizes
<1>5. d # <<>>
  BY <1>4, EmptySeq
<1>6. /\ Tail(p) \in Seq(Data) /\ Len(Tail(p)) = y - 1
      /\ Tail(d) \in Seq(Data) /\ Len(Tail(d)) = z - 1
  BY <1>1, <1>5, HeadTailProperties
<1>7. Tail(p) \in BoundedSeq(Data, PipeSize) /\ Tail(d) \in BoundedSeq(Data, MaxLength)
  BY <1>4, <1>6, Bounded
<1>8. /\ pipe' \in [Transfers -> Pipes] /\ pipe'[t] = [pipe[t] EXCEPT !.blocks = Tail(p)]
      /\ due' \in [Transfers -> BoundedSeq(Data, MaxLength)] /\ due'[t] = Tail(d)
  BY <1>7 DEF Receive, TypeInv, TypeOK, Pipes
<1>9. TypeOK' /\ IsFiniteSet(pool')
  BY <1>8 DEF Receive, TypeInv, TypeOK
<1>10. /\ pipe'[t].client = pipe[t].client /\ pipe'[t].end = pipe[t].end
       /\ Len(pipe'[t].blocks) = y - 1 /\ Len(due'[t]) = z - 1 /\ task'[t] = task[t]
  BY <1>6, <1>8 DEF Receive, Pipes
<1>11. PhaseOf(t)'
  BY <1>1, <1>10 DEF PhaseOf
<1>12. RoomOf(t)'
  <2>1. Filled(t)' = Filled(t)
    BY <1>10 DEF Filled
  <2>2. task[t].phase # "ended" => z - 1 <= task[t].offset
    <3>1. task[t].phase # "ended" => z <= task[t].offset
      BY <1>1 DEF RoomOf
    <3>2. task[t].offset \in Nat
      OBVIOUS
    <3> HIDE DEF z
    <3> QED BY <1>2, <3>1, <3>2
  <2> QED BY <1>1, <1>4, <1>10, <2>1, <2>2 DEF RoomOf
<1>13. \A u \in Transfers \ {t} : task'[u] = task[u] /\ pipe'[u] = pipe[u] /\ due'[u] = due[u]
  BY DEF Receive, TypeInv, TypeOK
<1> QED BY <1>9, <1>11, <1>12, <1>13, StepOfOne

LEMMA SendTypes ==
    ASSUME TypeInv, NEW t \in Transfers, Send(t)
    PROVE  TypeInv'
<1>0. Known(t)
  BY OfTransfer
<1> USE <1>0 DEF Known
<1> DEFINE p == pipe[t].blocks
           d == due[t]
           x == Len(task[t].array)
           y == Len(p)
           z == Len(d)
           o == task[t].offset
<1>1. /\ task[t].mode = "w" /\ pipe[t].client
      /\ y < PipeSize /\ o + z < MaxLength
      /\ UNCHANGED <<content, unannounced, session, pool, buffer, task>>
  BY DEF Send
<1>2. PICK block \in Blocks : /\ pipe' = [pipe EXCEPT ![t].blocks = Append(@, block)]
                              /\ due' = [due EXCEPT ![t] = Append(@, block)]
  BY DEF Send
<1>3. /\ x \in Nat /\ y \in Nat /\ z \in Nat /\ o \in Nat
      /\ Filled(t) \in Nat
  BY Sizes DEF Filled
<1>4. /\ y + 1 <= PipeSize /\ o + (z + 1) <= MaxLength /\ z + 1 <= MaxLength
      /\ Filled(t) + x + y <= z => Filled(t) + x + (y + 1) <= z + 1
  <2>1. y < PipeSize /\ o + z < MaxLength
    BY <1>1
  <2> HIDE DEF x, y, z, o
  <2> HIDE <1>0
  <2>2. y + 1 <= PipeSize /\ o + (z + 1) <= MaxLength /\ z + 1 <= MaxLength
    BY <1>3, <2>1, Sizes
  <2>3. Filled(t) + x + y <= z => Filled(t) + x + (y + 1) <= z + 1
    BY <1>3
  <2> QED BY <2>2, <2>3
<1>5. /\ Append(p, block) \in Seq(Data) /\ Len(Append(p, block)) = y + 1
      /\ Append(d, block) \in Seq(Data) /\ Len(Append(d, block)) = z + 1
  BY AppendProperties DEF Data
<1>6. Append(p, block) \in BoundedSeq(Data, PipeSize) /\ Append(d, block) \in BoundedSeq(Data, MaxLength)
  BY <1>4, <1>5, Bounded
<1>7. /\ pipe' \in [Transfers -> Pipes] /\ pipe'[t] = [pipe[t] EXCEPT !.blocks = Append(p, block)]
      /\ due' \in [Transfers -> BoundedSeq(Data, MaxLength)] /\ due'[t] = Append(d, block)
  BY <1>2, <1>6 DEF TypeInv, TypeOK, Pipes
<1>8. TypeOK' /\ IsFiniteSet(pool')
  BY <1>1, <1>7 DEF TypeInv, TypeOK
<1>9. /\ pipe'[t].client = pipe[t].client /\ pipe'[t].end = pipe[t].end
      /\ Len(pipe'[t].blocks) = y + 1 /\ Len(due'[t]) = z + 1 /\ task'[t] = task[t]
  BY <1>1, <1>5, <1>7 DEF Pipes
<1>10. PhaseOf(t)'
  BY <1>1, <1>9 DEF PhaseOf
<1>11. RoomOf(t)'
  <2>1. Filled(t)' = Filled(t)
    BY <1>9 DEF Filled
  <2>2. ~task[t].failed => Filled(t) + x + y <= z
    BY <1>1 DEF RoomOf
  <2> QED BY <1>1, <1>4, <1>9, <2>1, <2>2 DEF RoomOf
<1>12. \A u \in Transfers \ {t} : task'[u] = task[u] /\ pipe'[u] = pipe[u] /\ due'[u] = due[u]
  BY <1>1, <1>2 DEF TypeInv, TypeOK
<1> QED BY <1>8, <1>10, <1>11, <1>12, StepOfOne

LEMMA CloseClientTypes ==
    ASSUME TypeInv, NEW t \in Transfers, CloseClient(t)
    PROVE  TypeInv'
<1>0. Known(t)
  BY OfTransfer
<1> USE <1>0 DEF Known
<1>1. /\ pipe'[t] = [pipe[t] EXCEPT !.client = FALSE,
                                    !.blocks = IF task[t].mode = "r" THEN <<>> ELSE @]
      /\ pipe' \in [Transfers -> Pipes]
  BY Nothing DEF CloseClient, TypeInv, TypeOK, Pipes
<1>2. /\ due'[t] = IF task[t].mode = "r" THEN <<>> ELSE due[t]
      /\ due' \in [Transfers -> BoundedSeq(Data, MaxLength)]
  BY Nothing DEF CloseClient, TypeInv, TypeOK
<1>3. UNCHANGED <<content, unannounced, session, pool, buffer, task>>
  BY DEF CloseClient
<1>4. TypeOK' /\ IsFiniteSet(pool')
  BY <1>1, <1>2, <1>3 DEF TypeInv, TypeOK
<1>5. /\ pipe'[t].client = FALSE /\ pipe'[t].end = pipe[t].end
      /\ task[t].mode # "r" => pipe'[t].blocks = pipe[t].blocks
  BY <1>1 DEF Pipes
<1>6. PhaseOf(t)'
  BY <1>2, <1>3, <1>5 DEF PhaseOf
<1>7. RoomOf(t)'
  <2>1. Filled(t)' = Filled(t)
    BY <1>3 DEF Filled
  <2>2. task[t].mode = "r" => Len(due'[t]) <= task[t].offset
    BY <1>2, Nothing
  <2> QED BY <1>2, <1>3, <1>5, <2>1, <2>2 DEF RoomOf
<1>8. \A u \in Transfers \ {t} : task'[u] = task[u] /\ pipe'[u] = pipe[u] /\ due'[u] = due[u]
  BY DEF CloseClient, TypeInv, TypeOK
<1> QED BY <1>4, <1>6, <1>7, <1>8, StepOfOne

(* A transfer that has not begun. *)
LEMMA Unused ==
    ASSUME NEW t \in Transfers, task'[t] = Idle, pipe'[t] = NoPipe, due'[t] = <<>>
    PROVE  PhaseOf(t)' /\ RoomOf(t)'
<1>1. PhaseOf(t)'
  BY DEF PhaseOf, Closing, Idle, NoPipe
<1>2. RoomOf(t)'
  BY Nothing, Sizes DEF RoomOf, Idle, NoPipe
<1> QED BY <1>1, <1>2

LEMMA ForgetTypes ==
    ASSUME TypeInv, NEW t \in Transfers, Forget(t)
    PROVE  TypeInv'
<1>1. TypeOK' /\ IsFiniteSet(pool')
  BY Nothing, NothingUsed DEF Forget, TypeInv, TypeOK
<1>2. task'[t] = Idle /\ pipe'[t] = NoPipe /\ due'[t] = <<>>
  BY DEF Forget, TypeInv, TypeOK
<1>3. \A u \in Transfers \ {t} : task'[u] = task[u] /\ pipe'[u] = pipe[u] /\ due'[u] = due[u]
  BY DEF Forget, TypeInv, TypeOK
<1> QED BY <1>1, <1>2, <1>3, StepOfOne, Unused

LEMMA ResetTypes ==
    ASSUME TypeInv, Reset
    PROVE  TypeInv'
<1>1. ASSUME NEW t \in Transfers
      PROVE  /\ task'[t] \in Tasks
             /\ task'[t].phase = task[t].phase /\ task'[t].mode = task[t].mode
             /\ task'[t].file = task[t].file /\ task'[t].held = task[t].held
             /\ task'[t].offset = task[t].offset /\ task'[t].array = task[t].array
             /\ task'[t].size = task[t].size /\ task'[t].failed = task[t].failed
             /\ task'[t].descriptor # "open"
  BY DEF Reset, TypeInv, TypeOK, Tasks
<1>2. TypeOK' /\ IsFiniteSet(pool')
  <2>1. task' \in [Transfers -> Tasks]
    BY <1>1 DEF Reset
  <2> QED BY <2>1 DEF Reset, TypeInv, TypeOK
<1>3. ASSUME NEW t \in Transfers PROVE PhaseOf(t)' /\ RoomOf(t)'
  <2>1. PhaseOf(t) /\ RoomOf(t) /\ pipe'[t] = pipe[t] /\ due'[t] = due[t]
    BY DEF Reset, TypeInv
  <2>2. PhaseOf(t)'
    BY <1>1, <2>1 DEF PhaseOf
  <2>3. RoomOf(t)'
    BY <1>1, <2>1 DEF RoomOf, Filled
  <2> QED BY <2>2, <2>3
<1> QED BY <1>2, <1>3 DEF TypeInv

LEMMA ProcessDiesTypes ==
    ASSUME TypeInv, ProcessDies
    PROVE  TypeInv'
<1>1. TypeOK' /\ IsFiniteSet(pool')
  <2>1. IsFiniteSet({}) /\ Cardinality({}) = 0
    BY FS_EmptySet
  <2>2. Cardinality({}) <= PoolSize
    BY <2>1, Sizes
  <2>3. /\ task' \in [Transfers -> Tasks] /\ pipe' \in [Transfers -> Pipes]
        /\ due' \in [Transfers -> BoundedSeq(Data, MaxLength)]
    BY Nothing, NothingUsed DEF ProcessDies
  <2>4. buffer' \in [Buffers -> [memory : [1..Capacity -> Data], position : 0..Capacity]]
    BY NothingUsed DEF ProcessDies
  <2> QED BY <2>1, <2>2, <2>3, <2>4 DEF ProcessDies, TypeInv, TypeOK
<1>2. \A t \in Transfers : task'[t] = Idle /\ pipe'[t] = NoPipe /\ due'[t] = <<>>
  BY DEF ProcessDies
<1> QED BY <1>1, <1>2, Unused DEF TypeInv

LEMMA TypeInit == Init => TypeInv
<1> SUFFICES ASSUME Init PROVE TypeInv
  OBVIOUS
<1>1. BoundedSeq(Blocks, MaxLength) \subseteq BoundedSeq(Data, MaxLength)
  <2>1. ASSUME NEW s \in BoundedSeq(Blocks, MaxLength) PROVE s \in BoundedSeq(Data, MaxLength)
    <3>1. s \in Seq(Blocks) /\ Len(s) <= MaxLength
      BY BoundedSeqDef, Sizes
    <3>2. s \in Seq(Data)
      BY <3>1, ElementOfSeq, LenProperties, SeqDef DEF Data
    <3> QED BY <3>1, <3>2, Bounded
  <2> QED BY <2>1
<1>2. TypeOK /\ IsFiniteSet(pool)
  <2>1. IsFiniteSet({}) /\ Cardinality({}) = 0
    BY FS_EmptySet
  <2>2. Cardinality({}) <= PoolSize
    BY <2>1, Sizes
  <2>3. /\ task \in [Transfers -> Tasks] /\ pipe \in [Transfers -> Pipes]
        /\ due \in [Transfers -> BoundedSeq(Data, MaxLength)]
    BY Nothing, NothingUsed DEF Init
  <2>4. buffer \in [Buffers -> [memory : [1..Capacity -> Data], position : 0..Capacity]]
    BY NothingUsed DEF Init
  <2>5. content \in [Files -> BoundedSeq(Data, MaxLength)]
    BY <1>1 DEF Init
  <2> QED BY <2>1, <2>2, <2>3, <2>4, <2>5 DEF Init, TypeOK
<1>3. ASSUME NEW t \in Transfers PROVE PhaseOf(t) /\ RoomOf(t)
  <2>1. task[t] = Idle /\ pipe[t] = NoPipe /\ due[t] = <<>>
    BY DEF Init
  <2>2. PhaseOf(t)
    BY <2>1 DEF PhaseOf, Closing, Idle, NoPipe
  <2>3. RoomOf(t)
    BY <2>1, Nothing, Sizes DEF RoomOf, Idle, NoPipe
  <2> QED BY <2>2, <2>3
<1> QED BY <1>2, <1>3 DEF TypeInv

LEMMA TypeNext == TypeInv /\ [Next]_vars => TypeInv'
<1> SUFFICES ASSUME TypeInv, [Next]_vars PROVE TypeInv'
  OBVIOUS
<1>1. ASSUME NEW t \in Transfers,
             \/ OpenDocument(t) \/ OpenFile(t)    \/ ReadServer(t)
             \/ Get(t)          \/ Push(t)        \/ Pull(t)
             \/ Put(t)          \/ WriteServer(t)
      PROVE  TypeInv'
  BY <1>1, OpenDocumentTypes, OpenFileTypes, ReadServerTypes, GetTypes, PushTypes, PullTypes,
     PutTypes, WriteServerTypes
<1>2. ASSUME NEW t \in Transfers,
             \/ CloseFile(t)    \/ ClosePipe(t)   \/ Catch(t)       \/ PostExecute(t)
             \/ Receive(t)      \/ Send(t)        \/ CloseClient(t) \/ Forget(t)
             \/ OpenFileDies(t)
      PROVE  TypeInv'
  BY <1>2, CloseFileTypes, ClosePipeTypes, PostExecuteTypes, ReceiveTypes, SendTypes,
     CloseClientTypes, ForgetTypes, ProcessDiesTypes DEF OpenFileDies
<1>3. CASE Reset \/ ProcessDies
  BY <1>3, ResetTypes, ProcessDiesTypes
<1>4. CASE UNCHANGED vars
  BY <1>4 DEF vars, TypeInv, TypeOK, PhaseOf, RoomOf, Filled
<1> QED BY <1>1, <1>2, <1>3, <1>4 DEF Next

LEMMA TypeInvariant == Spec => []TypeInv
BY TypeInit, TypeNext, PTL DEF Spec

(* Whatever the clients, the server and the network do, every variable     *)
(* keeps its type: in particular no file, no buffer, no pipe and no pool   *)
(* outgrows its bound.                                                     *)
THEOREM TypeCorrect == Spec => []TypeOK
<1>1. TypeInv => TypeOK
  BY DEF TypeInv
<1> QED BY <1>1, TypeInvariant, PTL

(* A transfer that has ended has closed its file, even if the file could   *)
(* not be closed properly, and its end of the pipe.                        *)
THEOREM NothingIsLeftOpen == Spec => []NothingStaysOpen
<1>1. TypeInv => NothingStaysOpen
  BY DEF TypeInv, PhaseOf, NothingStaysOpen
<1> QED BY <1>1, TypeInvariant, PTL

-------------------------------------------------------------------------------
(* The steps by which one transfer goes on, from opening its file on.      *)
Copies(t) ==
    \/ OpenFile(t)  \/ ReadServer(t)  \/ Get(t)        \/ Push(t)  \/ Pull(t)
    \/ Put(t)       \/ WriteServer(t) \/ CloseFile(t)  \/ ClosePipe(t)
    \/ Catch(t)

(* They change nothing about what is copied and what it is copied through. *)
LEMMA CopiesKeep ==
    ASSUME TypeInv, NEW t \in Transfers, Copies(t)
    PROVE  /\ \A u \in Transfers \ {t} : task'[u] = task[u]
           /\ task'[t].mode = task[t].mode /\ task'[t].file = task[t].file
           /\ task'[t].held = task[t].held
           /\ task[t].phase \notin {"idle", "ended"}
           /\ task'[t].phase \notin {"idle", "queued", "ended"}
           /\ UNCHANGED pool
<1>0. task \in [Transfers -> Tasks] /\ task[t] \in Tasks
  BY DEF TypeInv, TypeOK
<1>1. CASE OpenFile(t)
  BY <1>0, <1>1 DEF OpenFile, Fail, Tasks
<1>2. CASE ReadServer(t)
  <2>1. \/ StopsCopying(t)
        \/ \E n \in 1..Capacity :
              task' = [task EXCEPT ![t].phase = "filled", ![t].size = n,
                                   ![t].offset = task[t].offset + n]
    BY <1>2 DEF ReadServer, StopsCopying
  <2>2. task[t].phase = "reading" /\ UNCHANGED pool
    BY <1>2 DEF ReadServer, Is
  <2>3. CASE StopsCopying(t)
    BY <1>0, <2>2, <2>3 DEF StopsCopying, Fail, Tasks
  <2>4. ASSUME NEW n, NEW o,
               task' = [task EXCEPT ![t].phase = "filled", ![t].size = n, ![t].offset = o]
        PROVE  /\ \A u \in Transfers \ {t} : task'[u] = task[u]
               /\ task'[t].mode = task[t].mode /\ task'[t].file = task[t].file
               /\ task'[t].held = task[t].held /\ task'[t].phase = "filled"
    BY <1>0, <2>4 DEF Tasks
  <2> QED BY <2>1, <2>2, <2>3, <2>4
<1>3. CASE Get(t) \/ Put(t)
  BY <1>0, <1>3 DEF Get, Put, Is, Tasks
<1>4. CASE Push(t)
  BY <1>0, <1>4 DEF Push, Is, Fail, Tasks
<1>5. CASE Pull(t)
  BY <1>0, <1>5 DEF Pull, Is, Fail, Tasks
<1>6. CASE WriteServer(t)
  BY <1>0, <1>6 DEF WriteServer, Is, Fail, Tasks
<1>7. CASE CloseFile(t)
  BY <1>0, <1>7 DEF CloseFile, Fail, Tasks
<1>8. CASE ClosePipe(t) \/ Catch(t)
  BY <1>0, <1>8 DEF ClosePipe, Catch, Tasks
<1> QED BY <1>1, <1>2, <1>3, <1>4, <1>5, <1>6, <1>7, <1>8 DEF Copies

(* The other steps.                                                        *)
LEMMA Steps ==
    ASSUME [Next]_vars
    PROVE  \/ \E t \in Transfers : Copies(t)
           \/ \E t \in Transfers : OpenDocument(t)
           \/ \E t \in Transfers : PostExecute(t)
           \/ \E t \in Transfers : Receive(t) \/ Send(t) \/ CloseClient(t)
           \/ \E t \in Transfers : Forget(t)
           \/ Reset
           \/ ProcessDies
           \/ UNCHANGED vars
BY DEF Next, Copies, OpenFileDies

-------------------------------------------------------------------------------
(***************************************************************************)
(* Announcements.  The writer that is to announce a change keeps its file  *)
(* until onPostExecute, and nobody else drops the stat of another file.    *)
(***************************************************************************)
IsWriting(t, f) ==
    /\ task[t].mode = "w"
    /\ task[t].file = f
    /\ task[t].phase \notin {"idle", "queued", "ended"}

LEMMA GoesOnWriting ==
    ASSUME TypeInv, [Next]_vars, NEW f \in unannounced, f \in unannounced',
           NEW t \in Transfers, IsWriting(t, f)
    PROVE  IsWriting(t, f)'
<1>0. task \in [Transfers -> Tasks] /\ task[t] \in Tasks
  BY DEF TypeInv, TypeOK
<1>1. ASSUME NEW u \in Transfers, Copies(u) PROVE IsWriting(t, f)'
  BY <1>1, CopiesKeep DEF IsWriting
<1>2. ASSUME NEW u \in Transfers, OpenDocument(u) PROVE IsWriting(t, f)'
  BY <1>0, <1>2 DEF OpenDocument, IsWriting
<1>3. ASSUME NEW u \in Transfers, PostExecute(u) PROVE IsWriting(t, f)'
  BY <1>0, <1>3 DEF PostExecute, Announced, IsWriting
<1>4. ASSUME NEW u \in Transfers, Receive(u) \/ Send(u) \/ CloseClient(u) PROVE IsWriting(t, f)'
  BY <1>4 DEF Receive, Send, CloseClient, IsWriting
<1>5. ASSUME NEW u \in Transfers, Forget(u) PROVE IsWriting(t, f)'
  BY <1>0, <1>5 DEF Forget, IsWriting
<1>6. CASE Reset
  BY <1>0, <1>6 DEF Reset, IsWriting, Tasks
<1>7. CASE ProcessDies
  BY <1>7 DEF ProcessDies
<1>8. CASE UNCHANGED vars
  BY <1>8 DEF vars, IsWriting
<1> QED BY <1>1, <1>2, <1>3, <1>4, <1>5, <1>6, <1>7, <1>8, Steps

(* A file is changed only by a transfer that is writing it. *)
LEMMA ChangedByWriter ==
    ASSUME TypeInv, [Next]_vars, NEW f \in unannounced', f \notin unannounced
    PROVE  \E t \in Transfers : IsWriting(t, f)'
<1>1. ASSUME NEW t \in Transfers, Copies(t) PROVE \E u \in Transfers : IsWriting(u, f)'
  <2>1. task[t].mode = "w" /\ task[t].file = f
    BY <1>1 DEF Copies, OpenFile, ReadServer, Get, Push, Pull, Put, WriteServer, Is, CloseFile,
                ClosePipe, Catch
  <2>2. IsWriting(t, f)'
    BY <1>1, <2>1, CopiesKeep DEF IsWriting
  <2> QED BY <2>2
<1>2. UNCHANGED unannounced \/ unannounced' \subseteq unannounced \/ \E t \in Transfers : Copies(t)
  BY Steps DEF OpenDocument, PostExecute, Announced, Receive, Send, CloseClient, Forget, Reset,
               ProcessDies, vars
<1> QED BY <1>1, <1>2

(* Whatever happens to a writer, the cached stat of a file that it has     *)
(* changed is dropped, or a transfer that will drop it is still under way. *)
THEOREM EveryChangeIsAnnounced == Spec => []ChangesAreAnnounced
<1>1. Init => ChangesAreAnnounced
  BY DEF Init, ChangesAreAnnounced
<1>2. TypeInv /\ ChangesAreAnnounced /\ [Next]_vars => ChangesAreAnnounced'
  <2> SUFFICES ASSUME TypeInv, ChangesAreAnnounced, [Next]_vars, NEW f \in unannounced'
               PROVE  \E t \in Transfers : IsWriting(t, f)'
    BY DEF ChangesAreAnnounced, IsWriting
  <2>1. CASE f \in unannounced
    <3>1. PICK t \in Transfers : IsWriting(t, f)
      BY <2>1 DEF ChangesAreAnnounced, IsWriting
    <3> QED BY <2>1, <3>1, GoesOnWriting
  <2>2. CASE f \notin unannounced
    BY <2>2, ChangedByWriter
  <2> QED BY <2>1, <2>2
<1> QED BY <1>1, <1>2, TypeInvariant, PTL DEF Spec

-------------------------------------------------------------------------------
(***************************************************************************)
(* Buffers.                                                                *)
(***************************************************************************)
(* A step that leaves the pool and every transfer's buffer alone.          *)
LEMMA SameHolders ==
    ASSUME BuffersExclusive, UNCHANGED pool,
           \A t \in Transfers : task'[t].held = task[t].held
    PROVE  BuffersExclusive'
BY DEF BuffersExclusive

LEMMA ExclusiveNext ==
    ASSUME TypeInv, BuffersExclusive, [Next]_vars
    PROVE  BuffersExclusive'
<1>0. task \in [Transfers -> Tasks]
  BY DEF TypeInv, TypeOK
<1>1. ASSUME NEW t \in Transfers, Copies(t) PROVE BuffersExclusive'
  BY <1>1, CopiesKeep, SameHolders
<1>2. ASSUME NEW t \in Transfers, OpenDocument(t) PROVE BuffersExclusive'
  <2>1. PICK b \in Obtainable : /\ pool' = pool \ {b}
                                /\ task'[t].held = b
                                /\ \A u \in Transfers \ {t} : task'[u] = task[u]
    BY <1>0, <1>2 DEF OpenDocument, Acquire, Idle
  <2>2. b \in Buffers /\ b # NoBuffer
    BY TransferAssumption DEF Obtainable, TypeInv, TypeOK
  <2>3. \A u \in Transfers : task[u].held # b
    BY <2>2 DEF Obtainable, Held, BuffersExclusive
  <2> QED BY <2>1, <2>3 DEF BuffersExclusive
<1>3. ASSUME NEW t \in Transfers, PostExecute(t) PROVE BuffersExclusive'
  <2>1. /\ task'[t].held = NoBuffer /\ \A u \in Transfers \ {t} : task'[u] = task[u]
        /\ pool' \subseteq pool \cup {task[t].held}
    BY <1>0, <1>3 DEF PostExecute, Recycle, Idle
  <2> QED BY <2>1 DEF BuffersExclusive
<1>4. ASSUME NEW t \in Transfers, Receive(t) \/ Send(t) \/ CloseClient(t) PROVE BuffersExclusive'
  BY <1>4 DEF Receive, Send, CloseClient, BuffersExclusive
<1>5. ASSUME NEW t \in Transfers, Forget(t) PROVE BuffersExclusive'
  <2>1. \A u \in Transfers : task'[u].held = task[u].held
    BY <1>0, <1>5 DEF Forget, Idle, TypeInv, PhaseOf
  <2> QED BY <1>5, <2>1, SameHolders DEF Forget
<1>6. CASE Reset
  <2>1. \A u \in Transfers : task'[u].held = task[u].held
    BY <1>0, <1>6 DEF Reset, Tasks
  <2> QED BY <1>6, <2>1, SameHolders DEF Reset
<1>7. CASE ProcessDies
  BY <1>7 DEF ProcessDies, BuffersExclusive, Idle
<1>8. CASE UNCHANGED vars
  BY <1>8 DEF vars, BuffersExclusive
<1> QED BY <1>1, <1>2, <1>3, <1>4, <1>5, <1>6, <1>7, <1>8, Steps

(* No ByteBuffer is ever used by two transfers at once, nor by one while   *)
(* it is in the pool: not even after failures, resets and a full pool.     *)
THEOREM NoBufferIsShared == Spec => []BuffersExclusive
<1>1. Init => BuffersExclusive
  BY DEF Init, BuffersExclusive, Idle
<1>2. TypeInv /\ BuffersExclusive /\ [Next]_vars => BuffersExclusive'
  BY ExclusiveNext
<1> QED BY <1>1, <1>2, TypeInvariant, PTL DEF Spec

(* A step of one transfer on its own buffer leaves the positions of the    *)
(* other buffers alone.                                                    *)
LEMMA OwnBuffer ==
    ASSUME BufferInv, NEW t \in Transfers, Copies(t),
           \A b \in Buffers : buffer'[b].position = buffer[b].position
                              \/ buffer'[b].position = 0 \/ b = task[t].held,
           \/ task'[t].phase \in {"queued", "reading", "pulling", "pulled"}
           \/ Is(t, "filled", "r")'
           => buffer'[task[t].held].position = 0
    PROVE  PositionInv'
<1>1. \A b \in pool : b \in Buffers /\ b # task[t].held
  <2>1. task[t].held # NoBuffer
    BY CopiesKeep DEF BufferInv, TypeInv, PhaseOf
  <2> QED BY <2>1 DEF BufferInv, TypeInv, TypeOK, BuffersExclusive
<1>2. ASSUME NEW b \in pool' PROVE buffer'[b].position = 0
  <2>1. b \in pool
    BY CopiesKeep DEF BufferInv
  <2> QED BY <1>1, <2>1 DEF BufferInv, PositionInv
<1>3. ASSUME NEW u \in Transfers,
             \/ task'[u].phase \in {"queued", "reading", "pulling", "pulled"}
             \/ Is(u, "filled", "r")'
      PROVE  buffer'[task'[u].held].position = 0
  <2>1. CASE u = t
    BY <1>3, <2>1, CopiesKeep DEF BufferInv
  <2>2. CASE u # t
    <3>1. task'[u] = task[u]
      BY <2>2, CopiesKeep DEF BufferInv
    <3>2. task[u].held \in Buffers /\ task[u].held # NoBuffer
      BY <1>3, <3>1 DEF Is, BufferInv, TypeInv, TypeOK, PhaseOf, Tasks
    <3>3. task[u].held # task[t].held
      BY <2>2, <3>2 DEF BufferInv, BuffersExclusive
    <3>4. buffer[task[u].held].position = 0
      BY <1>3, <3>1 DEF Is, BufferInv, PositionInv
    <3> QED BY <3>1, <3>2, <3>3, <3>4
  <2> QED BY <2>1, <2>2
<1> QED BY <1>2, <1>3 DEF PositionInv

LEMMA CopiesPosition ==
    ASSUME BufferInv, NEW t \in Transfers, Copies(t)
    PROVE  PositionInv'
<1> DEFINE h == task[t].held
<1>0. /\ task \in [Transfers -> Tasks] /\ task[t] \in Tasks /\ h \in Buffers
      /\ buffer \in [Buffers -> [memory : [1..Capacity -> Data], position : 0..Capacity]]
  BY CopiesKeep DEF BufferInv, TypeInv, TypeOK, PhaseOf, Tasks
<1>1. CASE OpenFile(t)
  <2>1. UNCHANGED buffer /\ buffer[h].position = 0
    BY <1>1 DEF OpenFile, BufferInv, PositionInv
  <2> QED BY <2>1, OwnBuffer
<1>2. CASE ReadServer(t)
  <2>1. buffer[h].position = 0
    BY <1>2 DEF ReadServer, Is, BufferInv, PositionInv
  <2>2. UNCHANGED buffer \/ \E m : buffer' = [buffer EXCEPT ![h].memory = m]
    BY <1>2 DEF ReadServer
  <2>3. \A b \in Buffers : buffer'[b].position = buffer[b].position
    BY <1>0, <2>2
  <2> QED BY <1>0, <2>1, <2>3, OwnBuffer
<1>3. CASE Get(t)
  <2>1. \A b \in Buffers : b # h => buffer'[b] = buffer[b]
    BY <1>0, <1>3 DEF Get
  <2>2. task'[t].phase = "pushing"
    BY <1>0, <1>3 DEF Get, Tasks
  <2> QED BY <2>1, <2>2, OwnBuffer DEF Is
<1>4. CASE Push(t)
  <2>1. UNCHANGED buffer \/ buffer' = [buffer EXCEPT ![h].position = 0]
    BY <1>4 DEF Push
  <2>2. \A b \in Buffers : b # h => buffer'[b] = buffer[b]
    BY <1>0, <2>1
  <2>3. \/ task'[t].phase \in {"pushing", "closeFile"}
        \/ task'[t].phase = "reading" /\ buffer'[h].position = 0
    BY <1>0, <1>4 DEF Push, Is, Fail, Tasks
  <2> QED BY <2>2, <2>3, OwnBuffer DEF Is
<1>5. CASE Pull(t)
  <2>1. UNCHANGED buffer /\ buffer[h].position = 0
    BY <1>5 DEF Pull, Is, BufferInv, PositionInv
  <2> QED BY <2>1, OwnBuffer
<1>6. CASE Put(t)
  <2>1. \A b \in Buffers : b # h => buffer'[b] = buffer[b]
    BY <1>0, <1>6 DEF Put
  <2>2. task'[t].phase = "filled" /\ task'[t].mode = "w"
    BY <1>0, <1>6 DEF Put, Is, Tasks
  <2> QED BY <2>1, <2>2, OwnBuffer DEF Is
<1>7. CASE WriteServer(t)
  <2>1. \/ buffer' = [buffer EXCEPT ![h].position = 0]
        \/ UNCHANGED buffer /\ task' = Fail(t, "closeFile")
    BY <1>7 DEF WriteServer
  <2>2. CASE buffer' = [buffer EXCEPT ![h].position = 0]
    BY <1>0, <2>2, OwnBuffer
  <2>3. CASE UNCHANGED buffer /\ task' = Fail(t, "closeFile")
    <3>1. task'[t].phase = "closeFile"
      BY <1>0, <2>3 DEF Fail, Tasks
    <3> QED BY <2>3, <3>1, OwnBuffer DEF Is
  <2> QED BY <2>1, <2>2, <2>3
<1>8. CASE CloseFile(t) \/ ClosePipe(t) \/ Catch(t)
  <2>1. UNCHANGED buffer /\ task'[t].phase \in {"closePipe", "catch", "posted"}
    BY <1>0, <1>8 DEF CloseFile, ClosePipe, Catch, Fail, Tasks
  <2> QED BY <2>1, OwnBuffer DEF Is
<1> QED BY <1>1, <1>2, <1>3, <1>4, <1>5, <1>6, <1>7, <1>8 DEF Copies

LEMMA PositionNext ==
    ASSUME BufferInv, [Next]_vars
    PROVE  PositionInv'
<1>0. /\ task \in [Transfers -> Tasks]
      /\ buffer \in [Buffers -> [memory : [1..Capacity -> Data], position : 0..Capacity]]
      /\ pool \subseteq Buffers
  BY DEF BufferInv, TypeInv, TypeOK
<1>1. ASSUME NEW t \in Transfers, Copies(t) PROVE PositionInv'
  BY <1>1, CopiesPosition
<1>2. ASSUME NEW t \in Transfers, OpenDocument(t) PROVE PositionInv'
  <2>1. PICK b \in Obtainable :
          /\ pool' = pool \ {b} /\ task'[t].held = b
          /\ \A u \in Transfers \ {t} : task'[u] = task[u]
          /\ buffer' = IF b \in pool THEN buffer ELSE [buffer EXCEPT ![b] = Cleared]
    BY <1>0, <1>2 DEF OpenDocument, Acquire, Idle
  <2>2. b \in Buffers
    BY <1>0 DEF Obtainable
  <2>3. buffer'[b].position = 0
    BY <1>0, <2>1, <2>2 DEF BufferInv, PositionInv, Cleared
  <2>4. \A a \in Buffers : a # b => buffer'[a] = buffer[a]
    BY <1>0, <2>1
  <2>5. ASSUME NEW a \in pool' PROVE buffer'[a].position = 0
    BY <1>0, <2>1, <2>4, <2>5 DEF BufferInv, PositionInv
  <2>6. ASSUME NEW u \in Transfers,
               \/ task'[u].phase \in {"queued", "reading", "pulling", "pulled"}
               \/ Is(u, "filled", "r")'
        PROVE  buffer'[task'[u].held].position = 0
    <3>1. CASE u = t
      BY <2>1, <2>3, <3>1
    <3>2. CASE u # t
      <4>1. task'[u] = task[u]
        BY <2>1, <3>2
      <4>2. task[u].held \in Buffers
        BY <1>0, <2>6, <4>1 DEF Is, BufferInv, TypeInv, PhaseOf, Tasks
      <4>3. buffer[task[u].held].position = 0
        BY <2>6, <4>1 DEF Is, BufferInv, PositionInv
      <4> QED BY <2>3, <2>4, <4>1, <4>2, <4>3
    <3> QED BY <3>1, <3>2
  <2> QED BY <2>5, <2>6 DEF PositionInv
<1>3. ASSUME NEW t \in Transfers, PostExecute(t) PROVE PositionInv'
  <2>1. /\ task'[t].phase = "ended" /\ \A u \in Transfers \ {t} : task'[u] = task[u]
        /\ pool' \subseteq pool \cup {task[t].held}
        /\ buffer' = [buffer EXCEPT ![task[t].held].position = 0]
    BY <1>0, <1>3 DEF PostExecute, Recycle, Idle
  <2>2. task[t].held \in Buffers
    BY <1>0, <1>3 DEF PostExecute, BufferInv, TypeInv, PhaseOf, Tasks
  <2>3. /\ buffer'[task[t].held].position = 0
        /\ \A b \in Buffers : buffer[b].position = 0 => buffer'[b].position = 0
    BY <1>0, <2>1, <2>2
  <2>4. \A b \in pool' : buffer'[b].position = 0
    BY <1>0, <2>1, <2>3 DEF BufferInv, PositionInv
  <2>5. ASSUME NEW u \in Transfers,
               \/ task'[u].phase \in {"queued", "reading", "pulling", "pulled"}
               \/ Is(u, "filled", "r")'
        PROVE  buffer'[task'[u].held].position = 0
    <3>1. u # t /\ task'[u] = task[u]
      BY <2>1, <2>5 DEF Is
    <3>2. task[u].held \in Buffers
      BY <1>0, <2>5, <3>1 DEF Is, BufferInv, TypeInv, PhaseOf, Tasks
    <3>3. buffer[task[u].held].position = 0
      BY <2>5, <3>1 DEF Is, BufferInv, PositionInv
    <3> QED BY <2>3, <3>1, <3>2, <3>3
  <2> QED BY <2>4, <2>5 DEF PositionInv
<1>4. ASSUME NEW t \in Transfers, Receive(t) \/ Send(t) \/ CloseClient(t) PROVE PositionInv'
  BY <1>4 DEF Receive, Send, CloseClient, BufferInv, PositionInv, Is
<1>5. ASSUME NEW t \in Transfers, Forget(t) PROVE PositionInv'
  BY <1>0, <1>5 DEF Forget, BufferInv, PositionInv, Is, Idle
<1>6. CASE Reset
  <2>1. \A u \in Transfers : /\ task'[u].held = task[u].held /\ task'[u].phase = task[u].phase
                             /\ task'[u].mode = task[u].mode
    BY <1>0, <1>6 DEF Reset, Tasks
  <2> QED BY <1>6, <2>1 DEF Reset, BufferInv, PositionInv, Is
<1>7. CASE ProcessDies
  BY <1>7 DEF ProcessDies, PositionInv, Is, Idle
<1>8. CASE UNCHANGED vars
  BY <1>8 DEF vars, BufferInv, PositionInv, Is
<1> QED BY <1>1, <1>2, <1>3, <1>4, <1>5, <1>6, <1>7, <1>8, Steps

LEMMA BufferInvariant == Spec => []BufferInv
<1>1. Init => BufferInv
  <2>1. Init => BuffersExclusive /\ PositionInv
    BY DEF Init, BuffersExclusive, PositionInv, Is, Idle
  <2> QED BY <2>1, TypeInit DEF BufferInv
<1>2. BufferInv /\ [Next]_vars => BufferInv'
  BY TypeNext, ExclusiveNext, PositionNext DEF BufferInv
<1> QED BY <1>1, <1>2, PTL DEF Spec

(* Every round of every transfer begins with the position at 0, also with  *)
(* a buffer that a failed transfer has given back: get and put never throw.*)
THEOREM GetAndPutSucceed == Spec => []NoBufferException
<1>1. BufferInv => NoBufferException
  BY DEF BufferInv, PositionInv, NoBufferException, Is
<1> QED BY <1>1, BufferInvariant, PTL

-------------------------------------------------------------------------------
(***************************************************************************)
(* The order of the blocks.  Here smbc_write is assumed to accept all it   *)
(* is given: the write task ignores how much it accepted.                  *)
(***************************************************************************)
(* The byte array is in use only between a read and a write.               *)
ArrayOf(t) ==
    task[t].array # <<>> =>
        \/ task[t].phase \in {"pushing", "pulled"}
        \/ task[t].mode = "r" /\ ~pipe[t].client
        \/ task[t].mode = "w" /\ task[t].failed

OrderOf(t) ==
    /\ task[t].mode = "r" /\ pipe[t].client =>
          due[t] = pipe[t].blocks \o task[t].array \o InBuffer(t)
    /\ task[t].mode = "w" /\ ~task[t].failed =>
          due[t] = InBuffer(t) \o task[t].array \o pipe[t].blocks

TransferInv ==
    /\ BufferInv
    /\ \A t \in Transfers : ArrayOf(t) /\ OrderOf(t)

(* What a task k has in a buffer b. *)
Part(k, b) ==
    IF k.phase = "filled"
    THEN LET from == IF k.mode = "r" THEN b.position ELSE 0 IN
         [i \in 1..k.size |-> IF from + i <= Capacity THEN b.memory[from + i] ELSE Zero]
    ELSE <<>>

LEMMA PartIs ==
    ASSUME NEW k, NEW b, k.phase = "filled", k.size \in Nat, k.size <= Capacity,
           b.memory \in [1..Capacity -> Data], k.mode = "r" => b.position = 0
    PROVE  /\ Part(k, b) = [i \in 1..k.size |-> b.memory[i]]
           /\ Part(k, b) \in Seq(Data) /\ Len(Part(k, b)) = k.size
<1> DEFINE n == k.size
           from == IF k.mode = "r" THEN b.position ELSE 0
           part == [i \in 1..n |-> b.memory[i]]
<1>1. from = 0
  OBVIOUS
<1>2. ASSUME NEW i \in 1..n PROVE 0 + i = i /\ i <= Capacity /\ i \in 1..Capacity
  BY Sizes
<1>3. Part(k, b) = [i \in 1..n |-> IF from + i <= Capacity THEN b.memory[from + i] ELSE Zero]
  BY DEF Part
<1>4. Part(k, b) = part
  <2> HIDE DEF from
  <2> QED BY <1>1, <1>2, <1>3
<1>5. part \in [1..n -> Data]
  BY <1>2
<1> HIDE DEF part
<1>6. part \in Seq(Data) /\ Len(part) = n
  BY <1>5, SeqOfFunction
<1> QED BY <1>4, <1>6 DEF part

LEMMA InBufferIs ==
    \A t : InBuffer(t) = Part(task[t], buffer[task[t].held])
BY DEF InBuffer, Part

LEMMA InBufferWillBe ==
    \A t : InBuffer(t)' = Part(task'[t], buffer'[task'[t].held])
BY DEF InBuffer, Part

LEMMA InBufferType ==
    ASSUME BufferInv, NEW t \in Transfers
    PROVE  InBuffer(t) \in Seq(Data)
<1> DEFINE k == task[t]
           b == buffer[k.held]
<1>1. InBuffer(t) = Part(k, b)
  BY InBufferIs
<1>2. CASE k.phase = "filled"
  <2>1. k.held \in Buffers /\ k \in Tasks
    BY <1>2 DEF BufferInv, TypeInv, TypeOK, PhaseOf, Tasks
  <2>2. /\ b.memory \in [1..Capacity -> Data] /\ k.size \in 0..Capacity
        /\ k.mode = "r" => b.position = 0
    BY <1>2, <2>1 DEF BufferInv, TypeInv, TypeOK, PositionInv, Is, Tasks
  <2> HIDE DEF k, b
  <2>3. k.size \in Nat /\ k.size <= Capacity
    BY <2>2, Sizes
  <2>4. Part(k, b) \in Seq(Data)
    BY <1>2, <2>2, <2>3, PartIs
  <2> QED BY <1>1, <2>4
<1>3. CASE k.phase # "filled"
  <2>1. Part(k, b) = <<>>
    BY <1>3 DEF Part
  <2>2. <<>> \in Seq(Data)
    OBVIOUS
  <2> QED BY <1>1, <2>1, <2>2
<1> QED BY <1>2, <1>3

LEMMA Empties == <<>> \o <<>> = <<>> /\ <<>> \o <<>> \o <<>> = <<>>
<1>1. <<>> \in Seq(Data) /\ <<>> \o <<>> = <<>>
  BY EmptySeq, ConcatEmptySeq
<1> QED BY <1>1

(* The transfers that have no part in a step. *)
LEMMA OrderKept ==
    ASSUME NEW t, ArrayOf(t), OrderOf(t),
           task'[t].phase = task[t].phase, task'[t].mode = task[t].mode,
           task'[t].array = task[t].array, task'[t].size = task[t].size,
           task'[t].failed = task[t].failed, task'[t].held = task[t].held,
           pipe'[t] = pipe[t], due'[t] = due[t],
           task[t].phase = "filled" => buffer'[task[t].held] = buffer[task[t].held]
    PROVE  ArrayOf(t)' /\ OrderOf(t)'
<1>1. InBuffer(t)' = InBuffer(t)
  BY InBufferIs, InBufferWillBe DEF Part
<1> QED BY <1>1 DEF ArrayOf, OrderOf

LEMMA OthersInOrder ==
    ASSUME TransferInv, NEW t \in Transfers, NEW b,
           \A u \in Transfers \ {t} : /\ task'[u] = task[u] /\ pipe'[u] = pipe[u]
                                     /\ due'[u] = due[u] /\ task[u].held # b,
           \A a \in Buffers \ {b} : buffer'[a] = buffer[a],
           ArrayOf(t)', OrderOf(t)', BufferInv'
    PROVE  TransferInv'
<1>1. ASSUME NEW u \in Transfers \ {t} PROVE ArrayOf(u)' /\ OrderOf(u)'
  <2>1. task[u].phase = "filled" => task[u].held \in Buffers \ {b}
    BY DEF TransferInv, BufferInv, TypeInv, TypeOK, PhaseOf, Tasks
  <2> QED BY <2>1, OrderKept DEF TransferInv
<1> QED BY <1>1 DEF TransferInv

(* A transfer without a block in its buffer before and after the step.     *)
LEMMA NothingInHand ==
    ASSUME TransferInv, NEW t \in Transfers,
           task[t].phase \notin {"filled", "pushing", "pulled"}, task'[t].phase # "filled",
           task'[t].mode = task[t].mode, task[t].failed => task'[t].failed,
           task'[t].array = task[t].array \/ task'[t].array = <<>>,
           pipe'[t].client = pipe[t].client, pipe'[t].blocks = pipe[t].blocks,
           due'[t] = due[t]
    PROVE  ArrayOf(t)' /\ OrderOf(t)'
<1>1. InBuffer(t)' = <<>> /\ InBuffer(t) = <<>>
  BY InBufferIs, InBufferWillBe DEF Part
<1>2. /\ task[t].mode = "r" /\ pipe[t].client => task'[t].array = task[t].array
      /\ task[t].mode = "w" /\ ~task[t].failed => task'[t].array = task[t].array
  BY DEF TransferInv, ArrayOf
<1>3. ArrayOf(t)'
  BY DEF TransferInv, ArrayOf
<1>4. OrderOf(t)'
  BY <1>1, <1>2 DEF TransferInv, OrderOf
<1> QED BY <1>3, <1>4

LEMMA ReadServerOrder ==
    ASSUME TransferInv, NEW t \in Transfers, ReadServer(t)
    PROVE  ArrayOf(t)' /\ OrderOf(t)'
<1>0. Known(t)
  BY OfTransfer DEF TransferInv, BufferInv
<1> USE <1>0 DEF Known
<1> DEFINE h == task[t].held
           c == content[task[t].file]
           o == task[t].offset
           old == buffer[h].memory
<1>1. /\ task[t].file \in Files /\ task[t].phase = "reading" /\ task[t].mode = "r"
      /\ h \in Buffers /\ pipe'[t] = pipe[t]
  BY DEF ReadServer, PhaseOf, Is, Tasks
<1>2. c \in Seq(Data) /\ buffer[h] \in [memory : [1..Capacity -> Data], position : 0..Capacity]
  <2>1. c \in BoundedSeq(Data, MaxLength)
    BY <1>1 DEF TransferInv, BufferInv, TypeInv, TypeOK
  <2> QED BY <1>1, <2>1, Bounded DEF TransferInv, BufferInv, TypeInv, TypeOK
<1>3. CASE StopsCopying(t) /\ UNCHANGED due
  <2>1. /\ task'[t].phase = "closeFile" /\ task'[t].mode = "r" /\ ~task[t].failed
        /\ task'[t].array = task[t].array
    BY <1>1, <1>3 DEF StopsCopying, Fail, PhaseOf, Closing, TransferInv, BufferInv, TypeInv, TypeOK,
                      Tasks
  <2> QED BY <1>1, <1>3, <2>1, NothingInHand
<1>4. ASSUME NEW n \in 1..Capacity, o + n <= Len(c),
             buffer' = [buffer EXCEPT ![h].memory =
                          [i \in 1..Capacity |-> IF i <= n THEN c[o + i] ELSE @[i]]],
             due' = [due EXCEPT ![t] = @ \o SubSeq(c, o + 1, o + n)],
             task' = [task EXCEPT ![t].phase = "filled", ![t].size = n, ![t].offset = o + n]
      PROVE  ArrayOf(t)' /\ OrderOf(t)'
  <2> DEFINE s == SubSeq(c, o + 1, o + n)
             m == [i \in 1..Capacity |-> IF i <= n THEN c[o + i] ELSE old[i]]
  <2>1. n \in Nat \ {0} /\ n <= Capacity
    BY Sizes
  <2>2. s \in Seq(Data) /\ Len(s) = n /\ \A i \in 1..n : s[i] = c[o + i] /\ c[o + i] \in Data
    BY <1>2, <1>4, <2>1, ReadPart
  <2>3. /\ task'[t].phase = "filled" /\ task'[t].mode = "r" /\ task'[t].size = n
        /\ task'[t].held = h /\ task'[t].array = task[t].array
    BY <1>1, <1>4 DEF TransferInv, BufferInv, TypeInv, TypeOK, Tasks
  <2>4. due'[t] = due[t] \o s
    BY <1>4 DEF TransferInv, BufferInv, TypeInv, TypeOK
  <2>5. buffer'[h].memory = m /\ buffer'[h].position = 0
    <3>1. buffer[h].position = 0
      BY <1>1 DEF TransferInv, BufferInv, PositionInv
    <3> QED BY <1>1, <1>2, <1>4, <3>1 DEF TransferInv, BufferInv, TypeInv, TypeOK
  <2>6. m \in [1..Capacity -> Data] /\ \A i \in 1..n : m[i] = s[i]
    <3>1. \A i \in 1..Capacity : i <= n => i \in 1..n
      BY <2>1
    <3>2. \A i \in 1..n : i \in 1..Capacity /\ i <= n
      BY <2>1, Sizes
    <3>3. old \in [1..Capacity -> Data]
      BY <1>2
    <3> HIDE DEF s
    <3> QED BY <2>2, <3>1, <3>2, <3>3
  <2> HIDE DEF s, m
  <2>7. InBuffer(t)' = s
    <3> DEFINE k == task'[t]
               b == buffer'[h]
    <3>1. /\ k.phase = "filled" /\ k.size = n /\ b.memory = m /\ b.position = 0
      BY <2>3, <2>5
    <3> HIDE DEF k, b
    <3>2. /\ Part(k, b) = [i \in 1..n |-> m[i]]
          /\ Part(k, b) \in Seq(Data) /\ Len(Part(k, b)) = n
      <4>1. /\ k.size \in Nat /\ k.size <= Capacity
            /\ b.memory \in [1..Capacity -> Data] /\ (k.mode = "r" => b.position = 0)
        BY <2>1, <2>6, <3>1
      <4>2. /\ Part(k, b) = [i \in 1..k.size |-> b.memory[i]]
            /\ Part(k, b) \in Seq(Data) /\ Len(Part(k, b)) = k.size
        BY <3>1, <4>1, PartIs
      <4> QED BY <3>1, <4>2
    <3>3. Part(k, b) = s
      <4>1. \A i \in 1..n : Part(k, b)[i] = s[i]
        BY <2>6, <3>2
      <4> QED BY <2>2, <3>2, <4>1, SeqEqual
    <3> QED BY <2>3, <3>3, InBufferWillBe DEF k, b
  <2>8. ArrayOf(t)'
    BY <1>1, <2>3 DEF TransferInv, ArrayOf
  <2>9. OrderOf(t)'
    <3>1. SUFFICES ASSUME pipe[t].client
                   PROVE  due'[t] = pipe[t].blocks \o task[t].array \o s
      BY <1>1, <2>3, <2>7 DEF OrderOf
    <3>2. task[t].array = <<>> /\ InBuffer(t) = <<>>
      BY <1>1, <3>1, InBufferIs DEF TransferInv, ArrayOf, Part
    <3>3. due[t] = pipe[t].blocks \o task[t].array \o <<>>
      BY <1>1, <3>1, <3>2 DEF TransferInv, OrderOf
    <3>4. due[t] = pipe[t].blocks \o task[t].array
      BY <3>2, <3>3, ConcatEmptySeq
    <3> QED BY <2>4, <3>4
  <2> QED BY <2>8, <2>9
<1> QED BY <1>3, <1>4 DEF ReadServer, StopsCopying

LEMMA GetOrder ==
    ASSUME TransferInv, NEW t \in Transfers, Get(t)
    PROVE  ArrayOf(t)' /\ OrderOf(t)'
<1>0. Known(t)
  BY OfTransfer DEF TransferInv, BufferInv
<1> USE <1>0 DEF Known
<1> DEFINE k == task[t]
           b == buffer[k.held]
           n == k.size
           a == [i \in 1..n |-> b.memory[b.position + i]]
<1>1. /\ k.phase = "filled" /\ k.mode = "r" /\ k.held \in Buffers /\ n \in Nat /\ n <= Capacity
      /\ b \in [memory : [1..Capacity -> Data], position : 0..Capacity] /\ b.position = 0
  BY DEF Get, PhaseOf, Is, Tasks, TransferInv, BufferInv, PositionInv, TypeInv, TypeOK
<1>2. /\ task'[t].phase = "pushing" /\ task'[t].mode = "r" /\ task'[t].array = a
      /\ pipe'[t] = pipe[t] /\ due'[t] = due[t]
  BY <1>1 DEF Get, Tasks, TransferInv, BufferInv, TypeInv, TypeOK
<1>3. a = InBuffer(t)
  <2>1. InBuffer(t) = Part(k, b)
    BY InBufferIs
  <2>2. \A i \in 1..n : b.position + i = i
    BY <1>1
  <2>3. a = [i \in 1..n |-> b.memory[i]]
    <3> HIDE DEF b, n
    <3> QED BY <2>2
  <2>4. Part(k, b) = [i \in 1..n |-> b.memory[i]]
    <3> HIDE DEF b, k
    <3> QED BY <1>1, PartIs
  <2> QED BY <2>1, <2>3, <2>4
<1> HIDE DEF a
<1>4. InBuffer(t) \in Seq(Data)
  <2> HIDE DEF b, k
  <2>1. Part(k, b) \in Seq(Data)
    BY <1>1, PartIs
  <2> QED BY <2>1, InBufferIs DEF b, k
<1>5. InBuffer(t)' = <<>>
  BY <1>2, InBufferWillBe DEF Part
<1>6. OrderOf(t)'
  <2>1. SUFFICES ASSUME pipe[t].client
                 PROVE  due[t] = pipe[t].blocks \o a \o <<>>
    BY <1>2, <1>5 DEF OrderOf
  <2>2. task[t].array = <<>>
    BY <1>1, <2>1 DEF TransferInv, ArrayOf
  <2>3. due[t] = pipe[t].blocks \o <<>> \o a
    BY <1>1, <1>3, <2>1, <2>2 DEF TransferInv, OrderOf
  <2>4. pipe[t].blocks \o a \in Seq(Data)
    BY <1>3, <1>4, ConcatProperties
  <2> QED BY <2>3, <2>4, ConcatEmptySeq
<1> QED BY <1>2, <1>6 DEF ArrayOf

LEMMA PushOrder ==
    ASSUME TransferInv, NEW t \in Transfers, Push(t)
    PROVE  ArrayOf(t)' /\ OrderOf(t)'
<1>0. Known(t)
  BY OfTransfer DEF TransferInv, BufferInv
<1> USE <1>0 DEF Known
<1> DEFINE a == task[t].array
           p == pipe[t].blocks
<1>1. task[t].phase = "pushing" /\ task[t].mode = "r" /\ a # <<>> /\ due'[t] = due[t]
  BY DEF Push, PhaseOf, Is
<1>2. CASE ~pipe[t].client /\ StopsCopying(t) /\ UNCHANGED pipe
  <2>1. task'[t].mode = "r" /\ pipe'[t].client = FALSE
    BY <1>1, <1>2 DEF StopsCopying, Fail, TransferInv, BufferInv, TypeInv, TypeOK, Tasks, Pipes
  <2> QED BY <2>1 DEF ArrayOf, OrderOf
<1>3. CASE /\ pipe' = [pipe EXCEPT ![t].blocks = Append(@, Head(a))]
           /\ task' = [task EXCEPT ![t].array = Tail(@),
                                   ![t].phase = IF Len(a) = 1 THEN "reading" ELSE @]
  <2>1. /\ task'[t].mode = "r" /\ task'[t].array = Tail(a)
        /\ task'[t].phase = IF Len(a) = 1 THEN "reading" ELSE "pushing"
        /\ pipe'[t].blocks = Append(p, Head(a)) /\ pipe'[t].client = pipe[t].client
    BY <1>1, <1>3 DEF TransferInv, BufferInv, TypeInv, TypeOK, Tasks, Pipes
  <2>2. Tail(a) \in Seq(Data) /\ Len(Tail(a)) = Len(a) - 1 /\ Head(a) \in Data
    BY <1>1, HeadTailProperties
  <2>3. ArrayOf(t)'
    <3>1. ASSUME Len(a) = 1 PROVE Tail(a) = <<>>
      <4>1. Len(Tail(a)) = 0
        BY <2>2, <3>1
      <4> QED BY <2>2, <4>1, EmptySeq
    <3> QED BY <2>1, <3>1 DEF ArrayOf
  <2>4. InBuffer(t)' = <<>> /\ InBuffer(t) = <<>>
    BY <1>1, <2>1, InBufferIs, InBufferWillBe DEF Part
  <2>5. OrderOf(t)'
    <3>1. SUFFICES ASSUME pipe[t].client
                   PROVE  due[t] = Append(p, Head(a)) \o Tail(a) \o <<>>
      BY <1>1, <2>1, <2>4 DEF OrderOf
    <3>2. due[t] = p \o a \o <<>>
      BY <1>1, <2>4, <3>1 DEF TransferInv, OrderOf
    <3>3. Append(p, Head(a)) \o Tail(a) = p \o a
      BY <1>1, MoveFirst
    <3> QED BY <3>2, <3>3
  <2> QED BY <2>3, <2>5
<1> QED BY <1>2, <1>3 DEF Push, StopsCopying

LEMMA PullOrder ==
    ASSUME TransferInv, NEW t \in Transfers, Pull(t)
    PROVE  ArrayOf(t)' /\ OrderOf(t)'
<1>0. Known(t)
  BY OfTransfer DEF TransferInv, BufferInv
<1> USE <1>0 DEF Known
<1> DEFINE p == pipe[t].blocks
<1>1. /\ task[t].phase = "pulling" /\ task[t].mode = "w" /\ due'[t] = due[t]
      /\ ~task[t].failed
  BY DEF Pull, PhaseOf, Is, Closing
<1>2. CASE StopsCopying(t) /\ UNCHANGED pipe
  <2>1. /\ task'[t].phase = "closeFile" /\ task'[t].mode = "w" /\ task'[t].array = task[t].array
    BY <1>1, <1>2 DEF StopsCopying, Fail, TransferInv, BufferInv, TypeInv, TypeOK, Tasks
  <2> QED BY <1>1, <1>2, <2>1, NothingInHand
<1>3. ASSUME NEW n \in 1..Capacity, n <= Len(p),
             task' = [task EXCEPT ![t].phase = "pulled", ![t].array = SubSeq(p, 1, n)],
             pipe' = [pipe EXCEPT ![t].blocks = SubSeq(@, n + 1, Len(@))]
      PROVE  ArrayOf(t)' /\ OrderOf(t)'
  <2>1. n \in 1..Len(p)
    BY <1>3, Sizes
  <2>2. /\ task'[t].mode = "w" /\ task'[t].array = SubSeq(p, 1, n) /\ task'[t].phase = "pulled"
        /\ pipe'[t].blocks = SubSeq(p, n + 1, Len(p))
    BY <1>1, <1>3 DEF TransferInv, BufferInv, TypeInv, TypeOK, Tasks, Pipes
  <2>3. InBuffer(t)' = <<>> /\ InBuffer(t) = <<>>
    BY <1>1, <2>2, InBufferIs, InBufferWillBe DEF Part
  <2>4. task[t].array = <<>>
    BY <1>1 DEF TransferInv, ArrayOf
  <2>5. due[t] = <<>> \o <<>> \o p
    BY <1>1, <2>3, <2>4 DEF TransferInv, OrderOf
  <2>6. due[t] = p /\ <<>> \o SubSeq(p, 1, n) = SubSeq(p, 1, n)
    <3>1. SubSeq(p, 1, n) \in Seq(Data) /\ <<>> \in Seq(Data)
      BY <2>1, CutSeq
    <3> QED BY <2>5, <3>1, ConcatEmptySeq
  <2>7. due'[t] = InBuffer(t)' \o task'[t].array \o pipe'[t].blocks
    BY <1>1, <2>1, <2>2, <2>3, <2>6, CutSeq
  <2> QED BY <2>2, <2>7 DEF ArrayOf, OrderOf
<1> QED BY <1>2, <1>3 DEF Pull, StopsCopying

LEMMA PutOrder ==
    ASSUME TransferInv, NEW t \in Transfers, Put(t)
    PROVE  ArrayOf(t)' /\ OrderOf(t)'
<1>0. Known(t)
  BY OfTransfer DEF TransferInv, BufferInv
<1> USE <1>0 DEF Known
<1> DEFINE h == task[t].held
           p == buffer[h].position
           old == buffer[h].memory
           a == task[t].array
           n == Len(a)
           m == [i \in 1..Capacity |-> IF i > p /\ i <= p + n THEN a[i - p] ELSE old[i]]
<1>1. /\ task[t].phase = "pulled" /\ task[t].mode = "w" /\ h \in Buffers /\ ~task[t].failed
      /\ p = 0 /\ n \in Nat /\ p + n <= Capacity /\ old \in [1..Capacity -> Data]
      /\ pipe'[t] = pipe[t] /\ due'[t] = due[t]
  BY Sizes DEF Put, PhaseOf, Is, Tasks, Closing, TransferInv, BufferInv, PositionInv, TypeInv, TypeOK
<1>2. /\ task'[t].phase = "filled" /\ task'[t].mode = "w" /\ task'[t].size = n
      /\ task'[t].held = h /\ task'[t].array = <<>>
  BY <1>1 DEF Put, Tasks, TransferInv, BufferInv, TypeInv, TypeOK
<1>3. buffer'[h].memory = m
  BY <1>1 DEF Put, TransferInv, BufferInv, TypeInv, TypeOK
<1>4. n <= Capacity
  BY <1>1, Sizes
<1>5. m \in [1..Capacity -> Data] /\ \A i \in 1..n : m[i] = a[i]
  <2>1. \A i \in 1..n : a[i] \in Data
    BY ElementOfSeq
  <2> HIDE DEF n, p
  <2>2. \A i \in 1..Capacity : i > p /\ i <= p + n => i - p \in 1..n
    BY <1>1, <1>4, Sizes
  <2>3. m \in [1..Capacity -> Data]
    BY <1>1, <2>1, <2>2
  <2>4. \A i \in 1..n : i \in 1..Capacity /\ i > p /\ i <= p + n /\ i - p = i
    BY <1>1, <1>4, Sizes
  <2> QED BY <2>3, <2>4
<1> HIDE DEF m
<1>6. InBuffer(t)' = a
  <2> DEFINE k == task'[t]
             b == buffer'[h]
  <2>1. /\ k.phase = "filled" /\ k.size = n /\ k.mode # "r" /\ b.memory = m
    BY <1>2, <1>3
  <2> HIDE DEF k, b, n
  <2>2. /\ k.size \in Nat /\ k.size <= Capacity
        /\ b.memory \in [1..Capacity -> Data] /\ (k.mode = "r" => b.position = 0)
    BY <1>1, <1>4, <1>5, <2>1
  <2>3. /\ Part(k, b) = [i \in 1..k.size |-> b.memory[i]]
        /\ Part(k, b) \in Seq(Data) /\ Len(Part(k, b)) = k.size
    BY <2>1, <2>2, PartIs
  <2>4. Part(k, b) = a
    <3>1. \A i \in 1..n : Part(k, b)[i] = a[i]
      BY <1>5, <2>1, <2>3
    <3> QED BY <2>1, <2>3, <3>1, SeqEqual DEF n
  <2> QED BY <1>2, <2>4, InBufferWillBe DEF k, b
<1>7. OrderOf(t)'
  <2>1. InBuffer(t) = <<>>
    BY <1>1, InBufferIs DEF Part
  <2>2. due[t] = <<>> \o a \o pipe[t].blocks
    BY <1>1, <2>1 DEF TransferInv, OrderOf
  <2>3. <<>> \o a = a /\ a \o <<>> = a
    BY ConcatEmptySeq
  <2> QED BY <1>1, <1>2, <1>6, <2>2, <2>3 DEF OrderOf
<1> QED BY <1>2, <1>7 DEF ArrayOf

LEMMA WriteServerOrder ==
    ASSUME TransferInv, NEW t \in Transfers, WriteServer(t), ShortWrites = FALSE
    PROVE  ArrayOf(t)' /\ OrderOf(t)'
<1>0. Known(t)
  BY OfTransfer DEF TransferInv, BufferInv
<1> USE <1>0 DEF Known
<1> DEFINE n == task[t].size
           p == pipe[t].blocks
           held == InBuffer(t)
<1>1. /\ task[t].phase = "filled" /\ task[t].mode = "w" /\ ~task[t].failed
      /\ task[t].held \in Buffers /\ pipe'[t] = pipe[t]
  BY DEF WriteServer, PhaseOf, Is, Closing, Tasks
<1>2. task[t].array = <<>>
  BY <1>1 DEF TransferInv, ArrayOf
<1>3. CASE task' = Fail(t, "closeFile") /\ UNCHANGED due
  <2>1. task'[t].failed = TRUE /\ task'[t].mode = "w" /\ task'[t].array = <<>>
    BY <1>1, <1>2, <1>3 DEF Fail, TransferInv, BufferInv, TypeInv, TypeOK, Tasks
  <2> QED BY <2>1 DEF ArrayOf, OrderOf
<1>4. CASE /\ due' = [due EXCEPT ![t] = SubSeq(@, n + 1, Len(@))]
           /\ task' = [task EXCEPT ![t].phase = "pulling", ![t].size = 0, ![t].offset = @ + n]
  <2>1. /\ task'[t].phase = "pulling" /\ task'[t].mode = "w" /\ task'[t].array = <<>>
        /\ due'[t] = SubSeq(due[t], n + 1, Len(due[t]))
    BY <1>1, <1>2, <1>4 DEF TransferInv, BufferInv, TypeInv, TypeOK, Tasks
  <2>2. InBuffer(t)' = <<>>
    BY <2>1, InBufferWillBe DEF Part
  <2>3. held \in Seq(Data) /\ Len(held) = n
    <3> DEFINE k == task[t]
               b == buffer[k.held]
    <3>1. /\ k.phase = "filled" /\ k.mode # "r" /\ k.size \in Nat /\ k.size <= Capacity
          /\ b.memory \in [1..Capacity -> Data]
      BY <1>1 DEF TransferInv, BufferInv, TypeInv, TypeOK
    <3> HIDE DEF k, b
    <3>2. Part(k, b) \in Seq(Data) /\ Len(Part(k, b)) = k.size
      BY <3>1, PartIs
    <3> QED BY <3>2, InBufferIs DEF k, b
  <2>4. due[t] = held \o p
    <3>1. due[t] = held \o <<>> \o p
      BY <1>1, <1>2 DEF TransferInv, OrderOf
    <3> QED BY <2>3, <3>1, ConcatEmptySeq
  <2>5. due'[t] = p
    <3>1. SubSeq(held \o p, Len(held) + 1, Len(held \o p)) = p
      BY <2>3, DropFirst
    <3> HIDE DEF held
    <3> QED BY <2>1, <2>3, <2>4, <3>1
  <2>6. <<>> \o <<>> \o p = p
    <3>1. <<>> \in Seq(Data) /\ <<>> \o <<>> = <<>>
      BY EmptySeq, ConcatEmptySeq
    <3> QED BY <3>1, ConcatEmptySeq
  <2> QED BY <1>1, <2>1, <2>2, <2>5, <2>6 DEF ArrayOf, OrderOf
<1> QED BY <1>3, <1>4 DEF WriteServer

LEMMA ReceiveOrder ==
    ASSUME TransferInv, NEW t \in Transfers, Receive(t)
    PROVE  ArrayOf(t)' /\ OrderOf(t)'
<1>0. Known(t)
  BY OfTransfer DEF TransferInv, BufferInv
<1> USE <1>0 DEF Known
<1> DEFINE p == pipe[t].blocks
           a == task[t].array
           held == InBuffer(t)
<1>1. /\ task[t].mode = "r" /\ pipe[t].client /\ p # <<>> /\ UNCHANGED <<task, buffer>>
      /\ pipe'[t].client = pipe[t].client /\ pipe'[t].blocks = Tail(p) /\ due'[t] = Tail(due[t])
  BY DEF Receive, TransferInv, BufferInv, TypeInv, TypeOK, Pipes
<1>2. held' = held
  BY <1>1, InBufferIs, InBufferWillBe
<1>3. held \in Seq(Data)
  BY InBufferType DEF TransferInv
<1>4. due[t] = p \o a \o held
  BY <1>1 DEF TransferInv, OrderOf
<1> HIDE DEF held
<1>5. Tail(due[t]) = Tail(p) \o a \o held
  <2>1. p \o a # <<>> /\ p \o a \in Seq(Data)
    <3>1. Len(p) \in Nat \ {0} /\ Len(a) \in Nat
      BY <1>1, EmptySeq, LenProperties
    <3>2. p \o a \in Seq(Data) /\ Len(p \o a) = Len(p) + Len(a)
      BY ConcatProperties
    <3>3. Len(p \o a) # 0
      <4> DEFINE x == Len(p)
                 y == Len(a)
      <4>1. x \in Nat \ {0} /\ y \in Nat
        BY <3>1
      <4> HIDE DEF x, y
      <4>2. x + y # 0
        BY <4>1
      <4> QED BY <3>2, <4>2 DEF x, y
    <3> QED BY <3>2, <3>3, EmptySeq
  <2>2. Tail((p \o a) \o held) = Tail(p \o a) \o held
    BY <1>3, <2>1, TailOfConcat
  <2>3. Tail(p \o a) = Tail(p) \o a
    BY <1>1, TailOfConcat
  <2> QED BY <1>4, <2>2, <2>3
<1>6. ArrayOf(t)'
  BY <1>1 DEF TransferInv, ArrayOf
<1>7. OrderOf(t)'
  BY <1>1, <1>2, <1>5 DEF OrderOf, held
<1> QED BY <1>6, <1>7

LEMMA SendOrder ==
    ASSUME TransferInv, NEW t \in Transfers, Send(t)
    PROVE  ArrayOf(t)' /\ OrderOf(t)'
<1>0. Known(t)
  BY OfTransfer DEF TransferInv, BufferInv
<1> USE <1>0 DEF Known
<1> DEFINE p == pipe[t].blocks
           a == task[t].array
           held == InBuffer(t)
<1>1. task[t].mode = "w" /\ UNCHANGED <<task, buffer>>
  BY DEF Send
<1>2. PICK block \in Blocks :
         pipe'[t].blocks = Append(p, block) /\ due'[t] = Append(due[t], block)
  <2>1. pipe \in [Transfers -> Pipes] /\ due \in [Transfers -> BoundedSeq(Data, MaxLength)]
    BY DEF TransferInv, BufferInv, TypeInv, TypeOK
  <2>2. PICK block \in Blocks : /\ pipe' = [pipe EXCEPT ![t].blocks = Append(@, block)]
                                /\ due' = [due EXCEPT ![t] = Append(@, block)]
    BY DEF Send
  <2>3. pipe'[t].blocks = Append(p, block) /\ due'[t] = Append(due[t], block)
    BY <2>1, <2>2 DEF Pipes
  <2> QED BY <2>3
<1>3. held' = held
  BY <1>1, InBufferIs, InBufferWillBe
<1>4. held \in Seq(Data)
  BY InBufferType DEF TransferInv
<1> HIDE DEF held
<1>5. OrderOf(t)'
  <2>1. SUFFICES ASSUME ~task[t].failed
                 PROVE  Append(due[t], block) = held \o a \o Append(p, block)
    BY <1>1, <1>2, <1>3 DEF OrderOf, held
  <2>2. due[t] = (held \o a) \o p
    BY <1>1, <2>1 DEF TransferInv, OrderOf, held
  <2>3. held \o a \in Seq(Data) /\ block \in Data
    BY <1>4, ConcatProperties DEF Data
  <2>4. Append((held \o a) \o p, block) = (held \o a) \o Append(p, block)
    <3> DEFINE q == held \o a
    <3>1. q \in Seq(Data) /\ p \in Seq(Data) /\ block \in Data
      BY <2>3
    <3> HIDE DEF q, p
    <3> HIDE <1>0
    <3>2. Append(q \o p, block) = q \o Append(p, block)
      <4>1. <<block>> \in Seq(Data) /\ q \o p \in Seq(Data)
        BY <3>1, ConcatProperties
      <4>2. Append(q \o p, block) = (q \o p) \o <<block>> /\ Append(p, block) = p \o <<block>>
        BY <3>1, <4>1, AppendIsConcat
      <4> QED BY <3>1, <4>1, <4>2, ConcatAssociative
    <3> QED BY <3>2 DEF q
  <2> QED BY <2>2, <2>4
<1>6. ArrayOf(t)'
  BY <1>1 DEF TransferInv, ArrayOf
<1> QED BY <1>5, <1>6

LEMMA CopiesOrder ==
    ASSUME TransferInv, NEW t \in Transfers, Copies(t), ShortWrites = FALSE
    PROVE  ArrayOf(t)' /\ OrderOf(t)'
<1>0. task \in [Transfers -> Tasks] /\ task[t] \in Tasks /\ pipe \in [Transfers -> Pipes]
  BY DEF TransferInv, BufferInv, TypeInv, TypeOK
<1>1. CASE OpenFile(t)
  <2>1. /\ task[t].phase = "queued" /\ task'[t].phase # "filled" /\ task'[t].mode = task[t].mode
        /\ task'[t].array = task[t].array /\ task[t].failed => task'[t].failed
        /\ UNCHANGED <<pipe, due>>
    BY <1>0, <1>1 DEF OpenFile, Fail, Tasks
  <2>2. task'[t].array = task[t].array
    BY <1>0, <1>1 DEF OpenFile, Fail, Tasks
  <2> QED BY <2>1, <2>2, NothingInHand
<1>2. CASE CloseFile(t)
  <2>1. /\ task[t].phase = "closeFile" /\ task'[t].phase # "filled" /\ task'[t].mode = task[t].mode
        /\ task'[t].array = task[t].array
        /\ UNCHANGED <<pipe, due>>
    BY <1>0, <1>2 DEF CloseFile, Fail, Tasks
  <2>2. task[t].failed => task'[t].failed
    BY <1>0, <1>2 DEF CloseFile, Fail, Tasks
  <2> QED BY <2>1, <2>2, NothingInHand
<1>3. CASE ClosePipe(t) \/ Catch(t)
  <2>1. /\ task[t].phase \in {"closePipe", "catch"} /\ task'[t].phase # "filled"
        /\ task'[t].mode = task[t].mode
        /\ task'[t].array = task[t].array
        /\ pipe'[t].client = pipe[t].client /\ pipe'[t].blocks = pipe[t].blocks
        /\ UNCHANGED due
    BY <1>0, <1>3 DEF ClosePipe, Catch, Tasks, Pipes
  <2>2. task[t].failed => task'[t].failed
    BY <1>0, <1>3 DEF ClosePipe, Catch, Tasks
  <2> QED BY <2>1, <2>2, NothingInHand
<1> QED BY <1>1, <1>2, <1>3, ReadServerOrder, GetOrder, PushOrder, PullOrder, PutOrder,
           WriteServerOrder DEF Copies

LEMMA TransferNext ==
    ASSUME TransferInv, [Next]_vars, BufferInv', ShortWrites = FALSE
    PROVE  TransferInv'
<1>0. /\ task \in [Transfers -> Tasks] /\ pipe \in [Transfers -> Pipes]
      /\ due \in [Transfers -> BoundedSeq(Data, MaxLength)]
      /\ buffer \in [Buffers -> [memory : [1..Capacity -> Data], position : 0..Capacity]]
      /\ pool \subseteq Buffers /\ BuffersExclusive
  BY DEF TransferInv, BufferInv, TypeInv, TypeOK
<1>1. ASSUME NEW t \in Transfers, Copies(t) PROVE TransferInv'
  <2>1. /\ task[t].held \in Buffers /\ task[t].held # NoBuffer
        /\ \A u \in Transfers \ {t} : task[u].held # task[t].held
    <3>1. task[t].held # NoBuffer
      BY <1>1, CopiesKeep DEF TransferInv, BufferInv, TypeInv, PhaseOf
    <3> QED BY <1>0, <3>1 DEF BuffersExclusive, Tasks
  <2>2. \A u \in Transfers \ {t} : task'[u] = task[u] /\ pipe'[u] = pipe[u] /\ due'[u] = due[u]
    <3>1. \A u \in Transfers \ {t} : task'[u] = task[u]
      BY <1>1, CopiesKeep DEF TransferInv, BufferInv
    <3>2. \A u \in Transfers \ {t} : pipe'[u] = pipe[u] /\ due'[u] = due[u]
      BY <1>0, <1>1 DEF Copies, OpenFile, ReadServer, Get, Push, Pull, Put, WriteServer, CloseFile,
                        ClosePipe, Catch
    <3> QED BY <3>1, <3>2
  <2>3. \A a \in Buffers \ {task[t].held} : buffer'[a] = buffer[a]
    BY <1>0, <1>1 DEF Copies, OpenFile, ReadServer, Get, Push, Pull, Put, WriteServer, CloseFile,
                      ClosePipe, Catch
  <2>4. ArrayOf(t)' /\ OrderOf(t)'
    BY <1>1, CopiesOrder
  <2> QED BY <2>1, <2>2, <2>3, <2>4, OthersInOrder
<1>2. ASSUME NEW t \in Transfers, OpenDocument(t) PROVE TransferInv'
  <2>1. PICK f \in Files, mode \in Modes, b \in Obtainable :
          /\ task' = [task EXCEPT ![t] = [Idle EXCEPT !.phase = "queued", !.mode = mode,
                                                      !.file = f, !.held = b]]
          /\ buffer' = IF b \in pool THEN buffer ELSE [buffer EXCEPT ![b] = Cleared]
    BY <1>2 DEF OpenDocument
  <2>2. b \in Buffers /\ b # NoBuffer
    BY <1>0, TransferAssumption DEF Obtainable
  <2>3. \A u \in Transfers : task[u].held # b
    BY <1>0, <2>2 DEF Obtainable, Held, BuffersExclusive
  <2>4. \A u \in Transfers \ {t} : task'[u] = task[u] /\ pipe'[u] = pipe[u] /\ due'[u] = due[u]
    BY <1>0, <1>2, <2>1 DEF OpenDocument
  <2>5. \A a \in Buffers \ {b} : buffer'[a] = buffer[a]
    BY <1>0, <2>1
  <2>6. /\ task'[t].phase = "queued" /\ task'[t].array = <<>>
        /\ pipe'[t].blocks = <<>> /\ due'[t] = <<>>
    BY <1>0, <1>2, <2>1 DEF OpenDocument, Idle, OpenPipe
  <2>7. ArrayOf(t)' /\ OrderOf(t)'
    <3>1. InBuffer(t)' = <<>>
      BY <2>6, InBufferWillBe DEF Part
    <3> QED BY <2>6, <3>1, Empties DEF ArrayOf, OrderOf
  <2> QED BY <2>3, <2>4, <2>5, <2>7, OthersInOrder
<1>3. ASSUME NEW t \in Transfers, PostExecute(t) PROVE TransferInv'
  <2>1. /\ task[t].phase = "posted" /\ task'[t].phase = "ended" /\ task'[t].mode = task[t].mode
        /\ task'[t].failed = task[t].failed /\ task'[t].array = <<>>
        /\ UNCHANGED <<pipe, due>>
        /\ \A u \in Transfers \ {t} : task'[u] = task[u]
        /\ buffer' = [buffer EXCEPT ![task[t].held].position = 0]
    BY <1>0, <1>3 DEF PostExecute, Recycle, Idle
  <2>2. task[t].held # NoBuffer
    BY <2>1 DEF TransferInv, BufferInv, TypeInv, PhaseOf
  <2>3. \A u \in Transfers \ {t} : task[u].held # task[t].held
    BY <1>0, <2>2 DEF BuffersExclusive
  <2>4. \A a \in Buffers \ {task[t].held} : buffer'[a] = buffer[a]
    BY <1>0, <2>1
  <2>5. ArrayOf(t)' /\ OrderOf(t)'
    BY <2>1, NothingInHand
  <2> QED BY <2>1, <2>3, <2>4, <2>5, OthersInOrder
<1>4. ASSUME NEW t \in Transfers, Receive(t) \/ Send(t) \/ CloseClient(t) PROVE TransferInv'
  <2>1. UNCHANGED <<task, buffer>>
    BY <1>4 DEF Receive, Send, CloseClient
  <2>2. \A u \in Transfers \ {t} : pipe'[u] = pipe[u] /\ due'[u] = due[u]
    BY <1>0, <1>4 DEF Receive, Send, CloseClient
  <2>3. ASSUME NEW u \in Transfers, u # t PROVE ArrayOf(u)' /\ OrderOf(u)'
    BY <2>1, <2>2, <2>3, OrderKept DEF TransferInv
  <2>4. CASE CloseClient(t)
    <3>1. /\ pipe'[t].client = FALSE
          /\ task[t].mode = "w" => pipe'[t].blocks = pipe[t].blocks /\ due'[t] = due[t]
      BY <1>0, <2>4 DEF CloseClient, Pipes
    <3>2. InBuffer(t)' = InBuffer(t)
      BY <2>1, InBufferIs, InBufferWillBe
    <3>3. ArrayOf(t)' /\ OrderOf(t)'
      BY <2>1, <3>1, <3>2 DEF TransferInv, ArrayOf, OrderOf
    <3> QED BY <2>3, <3>3 DEF TransferInv
  <2>5. CASE Receive(t) \/ Send(t)
    <3>1. ArrayOf(t)' /\ OrderOf(t)'
      BY <2>5, ReceiveOrder, SendOrder
    <3> QED BY <2>3, <3>1 DEF TransferInv
  <2> QED BY <1>4, <2>4, <2>5
<1>5. ASSUME NEW t \in Transfers, Forget(t) PROVE TransferInv'
  <2>1. /\ task'[t] = Idle /\ pipe'[t] = NoPipe /\ due'[t] = <<>> /\ UNCHANGED buffer
        /\ \A u \in Transfers \ {t} : task'[u] = task[u] /\ pipe'[u] = pipe[u] /\ due'[u] = due[u]
    BY <1>0, <1>5 DEF Forget
  <2>2. ArrayOf(t)' /\ OrderOf(t)'
    BY <2>1 DEF ArrayOf, OrderOf, Idle, NoPipe
  <2>3. ASSUME NEW u \in Transfers, u # t PROVE ArrayOf(u)' /\ OrderOf(u)'
    BY <2>1, <2>3, OrderKept DEF TransferInv
  <2> QED BY <2>2, <2>3 DEF TransferInv
<1>6. CASE Reset
  <2>1. ASSUME NEW t \in Transfers
        PROVE  /\ task'[t].phase = task[t].phase /\ task'[t].mode = task[t].mode
               /\ task'[t].array = task[t].array /\ task'[t].size = task[t].size
               /\ task'[t].failed = task[t].failed /\ task'[t].held = task[t].held
    BY <1>0, <1>6 DEF Reset, Tasks
  <2>2. UNCHANGED <<pipe, due, buffer>>
    BY <1>6 DEF Reset
  <2>3. ASSUME NEW t \in Transfers PROVE ArrayOf(t)' /\ OrderOf(t)'
    BY <2>1, <2>2, OrderKept DEF TransferInv
  <2> QED BY <2>3 DEF TransferInv
<1>7. CASE ProcessDies
  <2>1. ASSUME NEW t \in Transfers PROVE ArrayOf(t)' /\ OrderOf(t)'
    BY <1>7 DEF ProcessDies, ArrayOf, OrderOf, Idle, NoPipe
  <2> QED BY <2>1 DEF TransferInv
<1>8. CASE UNCHANGED vars
  <2>1. ASSUME NEW t \in Transfers PROVE ArrayOf(t)' /\ OrderOf(t)'
    BY <1>8, OrderKept DEF TransferInv, vars
  <2> QED BY <2>1 DEF TransferInv
<1> QED BY <1>1, <1>2, <1>3, <1>4, <1>5, <1>6, <1>7, <1>8, Steps

(* Where the blocks are, in every state.                                   *)
LEMMA TransferInvariant == ShortWrites = FALSE /\ Spec => []TransferInv
<1>1. Init => TransferInv
  <2>1. Init => BufferInv
    <3>1. Init => BuffersExclusive /\ PositionInv
      BY DEF Init, BuffersExclusive, PositionInv, Is, Idle
    <3> QED BY <3>1, TypeInit DEF BufferInv
  <2>2. Init => \A t \in Transfers : ArrayOf(t) /\ OrderOf(t)
    BY DEF Init, ArrayOf, OrderOf, Idle, NoPipe
  <2> QED BY <2>1, <2>2 DEF TransferInv
<1>2. CASE ShortWrites = FALSE
  <2>1. TransferInv /\ [Next]_vars => TransferInv'
    <3>1. BufferInv /\ [Next]_vars => BufferInv'
      BY TypeNext, ExclusiveNext, PositionNext DEF BufferInv
    <3> QED BY <1>2, <3>1, TransferNext DEF TransferInv
  <2> QED BY <1>1, <2>1, PTL DEF Spec
<1>3. CASE ~(ShortWrites = FALSE)
  BY <1>3, PTL
<1> QED BY <1>2, <1>3

(* If the server accepts all it is given in one call, no transfer loses,   *)
(* repeats or reorders a block, and none delivers a block of another one,  *)
(* however the transfers are interleaved and whichever operations fail.    *)
THEOREM BlocksStayInOrder ==
    ASSUME ShortWrites = FALSE
    PROVE  Spec => []BlocksInOrder
<1>1. TransferInv => BlocksInOrder
  BY DEF TransferInv, OrderOf, BlocksInOrder
<1> QED BY <1>1, TransferInvariant, PTL

-------------------------------------------------------------------------------
(***************************************************************************)
(* The refinement of DocumentStreams.  By TransferInv what is between the  *)
(* ends of a transfer is what is due, so a step that only moves blocks     *)
(* from one place to the next changes no stream.                           *)
(***************************************************************************)
Queued(t) == IF Interesting(t) THEN due[t] ELSE <<>>

BetweenIsDue == \A t \in Transfers : Between(t) = Queued(t)

(* TransferInv, read for a stream: its queue is what is due, as long as     *)
(* somebody is interested.                                                 *)
LEMMA OnTheWay == TransferInv => BetweenIsDue
<1> SUFFICES ASSUME TransferInv, NEW t \in Transfers PROVE Between(t) = Queued(t)
  BY DEF BetweenIsDue
<1>1. task[t].mode \in {"r", "w"} /\ OrderOf(t)
  BY DEF TransferInv, BufferInv, TypeInv, TypeOK, Tasks
<1>2. CASE ~Interesting(t)
  BY <1>2 DEF Between, Queued
<1>3. CASE Interesting(t) /\ task[t].mode = "r"
  BY <1>1, <1>3 DEF Between, Queued, Interesting, OrderOf
<1>4. CASE Interesting(t) /\ task[t].mode = "w"
  BY <1>1, <1>4 DEF Between, Queued, Interesting, OrderOf
<1> QED BY <1>1, <1>2, <1>3, <1>4

LEMMA OnTheWayNext == TransferInv' => BetweenIsDue'
BY OnTheWay, PTL

(* What a step does to the other transfers.                                *)
OthersStay(t) ==
    \A u \in Transfers \ {t} : task'[u] = task[u] /\ pipe'[u] = pipe[u] /\ due'[u] = due[u]

LEMMA OtherStreams ==
    ASSUME NEW t, OthersStay(t), NEW u \in Transfers, u # t
    PROVE  /\ Place(u)' = Place(u) /\ FileOf(u)' = FileOf(u) /\ OffsetOf(u)' = OffsetOf(u)
           /\ Queued(u)' = Queued(u)
<1>1. task'[u] = task[u] /\ pipe'[u] = pipe[u] /\ due'[u] = due[u]
  BY DEF OthersStay
<1> QED BY <1>1 DEF Place, FileOf, OffsetOf, IsOpen, Queued, Interesting

(* The streams, by what a transfer is made of.                             *)
StreamIs(t) ==
    /\ AtPlace[t] = Place(t) /\ InMode[t] = task[t].mode
    /\ OfFile[t] = FileOf(t) /\ AtOffset[t] = OffsetOf(t)
    /\ InQueue[t] = Queued(t) /\ HasEnd[t] = pipe[t].client

LEMMA AllStreams == TransferInv => \A t \in Transfers : StreamIs(t)
BY OnTheWay DEF StreamIs, BetweenIsDue, AtPlace, InMode, OfFile, AtOffset, InQueue, HasEnd

(* A step of one transfer changes one stream.                              *)
OneStreamChanges(t) ==
    /\ AtPlace'  = [AtPlace EXCEPT ![t] = Place(t)']
    /\ InMode'   = [InMode EXCEPT ![t] = task'[t].mode]
    /\ OfFile'   = [OfFile EXCEPT ![t] = FileOf(t)']
    /\ AtOffset' = [AtOffset EXCEPT ![t] = OffsetOf(t)']
    /\ InQueue'  = [InQueue EXCEPT ![t] = Queued(t)']
    /\ HasEnd'   = [HasEnd EXCEPT ![t] = pipe'[t].client]

LEMMA OneStream ==
    ASSUME TransferInv, TransferInv', NEW t \in Transfers, OthersStay(t)
    PROVE  OneStreamChanges(t)
<1>1. \A u \in Transfers \ {t} :
         /\ Place(u)' = Place(u) /\ FileOf(u)' = FileOf(u) /\ OffsetOf(u)' = OffsetOf(u)
         /\ Queued(u)' = Queued(u)
  BY OtherStreams
<1>2. \A u \in Transfers \ {t} : task'[u] = task[u] /\ pipe'[u] = pipe[u]
  BY DEF OthersStay
<1>3. BetweenIsDue /\ BetweenIsDue'
  BY OnTheWay, OnTheWayNext
<1>4. AtPlace' = [AtPlace EXCEPT ![t] = Place(t)']
  BY <1>1 DEF AtPlace
<1>5. InMode' = [InMode EXCEPT ![t] = task'[t].mode]
  BY <1>2 DEF InMode
<1>6. OfFile' = [OfFile EXCEPT ![t] = FileOf(t)'] /\ AtOffset' = [AtOffset EXCEPT ![t] = OffsetOf(t)']
  BY <1>1 DEF OfFile, AtOffset
<1>7. InQueue' = [InQueue EXCEPT ![t] = Queued(t)']
  <2>1. InQueue' = [u \in Transfers |-> Queued(u)'] /\ InQueue = [u \in Transfers |-> Queued(u)]
    BY <1>3 DEF InQueue, BetweenIsDue
  <2> QED BY <1>1, <2>1
<1>8. HasEnd' = [HasEnd EXCEPT ![t] = pipe'[t].client]
  BY <1>2 DEF HasEnd
<1> QED BY <1>4, <1>5, <1>6, <1>7, <1>8 DEF OneStreamChanges

(* What is the same in that stream is the same in all of them.             *)
LEMMA SomeStay ==
    ASSUME TransferInv, NEW t \in Transfers, OneStreamChanges(t)
    PROVE  /\ Place(t)' = Place(t) => AtPlace' = AtPlace
           /\ task'[t].mode = task[t].mode => InMode' = InMode
           /\ FileOf(t)' = FileOf(t) => OfFile' = OfFile
           /\ OffsetOf(t)' = OffsetOf(t) => AtOffset' = AtOffset
           /\ Queued(t)' = Queued(t) => InQueue' = InQueue
           /\ pipe'[t].client = pipe[t].client => HasEnd' = HasEnd
<1>1. BetweenIsDue
  BY OnTheWay
<1>2. Place(t)' = Place(t) => AtPlace' = AtPlace
  BY DEF OneStreamChanges, AtPlace
<1>3. task'[t].mode = task[t].mode => InMode' = InMode
  BY DEF OneStreamChanges, InMode
<1>4. FileOf(t)' = FileOf(t) => OfFile' = OfFile
  BY DEF OneStreamChanges, OfFile
<1>5. OffsetOf(t)' = OffsetOf(t) => AtOffset' = AtOffset
  BY DEF OneStreamChanges, AtOffset
<1>6. Queued(t)' = Queued(t) => InQueue' = InQueue
  BY <1>1 DEF OneStreamChanges, InQueue, BetweenIsDue
<1>7. pipe'[t].client = pipe[t].client => HasEnd' = HasEnd
  BY DEF OneStreamChanges, HasEnd
<1> QED BY <1>2, <1>3, <1>4, <1>5, <1>6, <1>7

(* Steps that no client and no file can tell from none.                    *)
LEMMA StreamStays ==
    ASSUME TransferInv, TransferInv', NEW t \in Transfers, OthersStay(t), UNCHANGED content,
           Place(t)' = Place(t), task'[t].mode = task[t].mode, task'[t].failed = task[t].failed,
           IsOpen(t) => task'[t].file = task[t].file /\ task'[t].offset = task[t].offset,
           due'[t] = due[t], pipe'[t].client = pipe[t].client
    PROVE  UNCHANGED Streams!streamVars
<1>1. FileOf(t)' = FileOf(t) /\ OffsetOf(t)' = OffsetOf(t) /\ Queued(t)' = Queued(t)
  BY DEF FileOf, OffsetOf, IsOpen, Queued, Interesting
<1> QED BY <1>1, OneStream, SomeStay DEF Streams!streamVars, Streams!position

(* After a failure both ends see what the stream still holds.              *)
LEMMA TransferBreaks ==
    ASSUME TransferInv, TransferInv', NEW t \in Transfers, OthersStay(t), UNCHANGED content,
           Place(t) \in {"opened", "running", "finished"}, Place(t)' = "broken",
           ~task[t].failed, task'[t].failed, task'[t].mode = task[t].mode,
           due'[t] = due[t], pipe'[t].client = pipe[t].client
    PROVE  Streams!Break(t)
<1>1. StreamIs(t) /\ OneStreamChanges(t)
  BY AllStreams, OneStream
<1>2. task[t].mode \in {"r", "w"}
  BY DEF TransferInv, BufferInv, TypeInv, TypeOK, Tasks
<1>3. FileOf(t)' = NoFile /\ OffsetOf(t)' = 0
  BY DEF FileOf, OffsetOf, IsOpen
<1>4. /\ task[t].mode = "w" => Queued(t)' = <<>>
      /\ task[t].mode # "w" => Queued(t)' = Queued(t)
  BY <1>2 DEF Queued, Interesting
<1>5. /\ AtPlace' = [AtPlace EXCEPT ![t] = "broken"] /\ Streams!LetGo(t)
      /\ task[t].mode = "w" => InQueue' = [InQueue EXCEPT ![t] = <<>>]
  BY <1>1, <1>3, <1>4 DEF OneStreamChanges, Streams!LetGo
<1>6. /\ InMode' = InMode /\ HasEnd' = HasEnd
      /\ task[t].mode # "w" => InQueue' = InQueue
  BY <1>1, <1>4, SomeStay
<1> QED BY <1>1, <1>5, <1>6 DEF StreamIs, Streams!Break

(* A transfer stops on its own only when there is nothing left to copy.    *)
LEMMA TransferFinishes ==
    ASSUME TransferInv, TransferInv', NEW t \in Transfers, OthersStay(t), UNCHANGED content,
           Place(t) = "running", Place(t)' = "finished",
           \/ task[t].mode = "r" /\ task[t].offset >= Len(content[task[t].file])
           \/ task[t].mode = "w" /\ due[t] = <<>> /\ ~pipe[t].client,
           task'[t].failed = task[t].failed, task'[t].mode = task[t].mode,
           due'[t] = due[t], pipe'[t].client = pipe[t].client
    PROVE  Streams!Finish(t)
<1>1. StreamIs(t) /\ OneStreamChanges(t)
  BY AllStreams, OneStream
<1>2. FileOf(t)' = NoFile /\ OffsetOf(t)' = 0 /\ FileOf(t) = task[t].file /\ OffsetOf(t) = task[t].offset
  BY DEF FileOf, OffsetOf, IsOpen
<1>3. Queued(t)' = Queued(t) /\ (due[t] = <<>> => Queued(t) = <<>>)
  BY DEF Queued, Interesting
<1>4. AtPlace' = [AtPlace EXCEPT ![t] = "finished"] /\ Streams!LetGo(t)
  BY <1>1, <1>2 DEF OneStreamChanges, Streams!LetGo
<1>5. InMode' = InMode /\ HasEnd' = HasEnd /\ InQueue' = InQueue
  BY <1>1, <1>3, SomeStay
<1> QED BY <1>1, <1>2, <1>3, <1>4, <1>5 DEF StreamIs, Streams!Finish

(* openDocument, then one lemma for each step of doInBackground.           *)
LEMMA OpenDocumentOpens ==
    ASSUME TransferInv, TransferInv', NEW t \in Transfers, OthersStay(t), OpenDocument(t)
    PROVE  Streams!Open(t)
<1>0. task \in [Transfers -> Tasks] /\ pipe \in [Transfers -> Pipes]
      /\ due \in [Transfers -> BoundedSeq(Data, MaxLength)]
  BY DEF TransferInv, BufferInv, TypeInv, TypeOK
<1>1. PICK f \in Files, mode \in Modes, b \in Obtainable :
         task' = [task EXCEPT ![t] = [Idle EXCEPT !.phase = "queued", !.mode = mode,
                                                  !.file = f, !.held = b]]
  BY DEF OpenDocument
<1>2. /\ task[t].phase = "idle" /\ due'[t] = <<>> /\ pipe'[t].client = TRUE
      /\ UNCHANGED content
  BY <1>0 DEF OpenDocument, OpenPipe
<1>3. /\ task'[t].phase = "queued" /\ task'[t].mode = mode /\ task'[t].file = f
      /\ task'[t].offset = 0
  BY <1>0, <1>1 DEF Idle
<1>4. /\ Place(t) = "idle" /\ Place(t)' = "opened" /\ FileOf(t)' = f /\ OffsetOf(t)' = 0
      /\ Queued(t)' = <<>>
  BY <1>2, <1>3 DEF Place, FileOf, OffsetOf, IsOpen, Queued
<1>5. StreamIs(t) /\ OneStreamChanges(t)
  BY AllStreams, OneStream
<1> QED BY <1>2, <1>3, <1>4, <1>5 DEF StreamIs, OneStreamChanges, Streams!Open

LEMMA OpenFileStarts ==
    ASSUME TransferInv, TransferInv', NEW t \in Transfers, OthersStay(t), OpenFile(t)
    PROVE  Streams!Start(t) \/ Streams!Break(t)
<1>0. task \in [Transfers -> Tasks] /\ task[t] \in Tasks
  BY DEF TransferInv, BufferInv, TypeInv, TypeOK
<1>1. task[t].phase = "queued" /\ UNCHANGED <<pipe, due>> /\ ~task[t].failed
  BY OfTransfer DEF OpenFile, TransferInv, BufferInv, Known, PhaseOf, Closing
<1>2. CASE task' = Fail(t, "closePipe") /\ UNCHANGED content
  <2>1. task'[t].phase = "closePipe" /\ task'[t].failed = TRUE /\ task'[t].mode = task[t].mode
    BY <1>0, <1>2 DEF Fail, Tasks
  <2>2. Place(t) = "opened" /\ Place(t)' = "broken"
    BY <1>1, <2>1 DEF Place
  <2> QED BY <1>1, <1>2, <2>1, <2>2, TransferBreaks
<1>3. CASE /\ task' = [task EXCEPT ![t].descriptor = "open",
                                   ![t].phase = IF task[t].mode = "r" THEN "reading"
                                                                      ELSE "pulling"]
           /\ content' = IF task[t].mode = "w" THEN [content EXCEPT ![task[t].file] = <<>>]
                                               ELSE content
  <2>1. /\ task'[t].phase \in {"reading", "pulling"} /\ task'[t].mode = task[t].mode
        /\ task'[t].file = task[t].file /\ task'[t].offset = task[t].offset
        /\ task'[t].failed = task[t].failed
    BY <1>0, <1>3 DEF Tasks
  <2>2. /\ Place(t) = "opened" /\ Place(t)' = "running" /\ FileOf(t) = task[t].file
        /\ FileOf(t)' = FileOf(t) /\ OffsetOf(t)' = OffsetOf(t) /\ Queued(t)' = Queued(t)
    BY <1>1, <2>1 DEF Place, FileOf, OffsetOf, IsOpen, Queued, Interesting
  <2>3. StreamIs(t) /\ OneStreamChanges(t)
    BY AllStreams, OneStream
  <2>4. UNCHANGED <<InMode, OfFile, AtOffset, InQueue, HasEnd>>
    BY <1>1, <2>1, <2>2, <2>3, SomeStay
  <2> QED BY <1>3, <2>2, <2>3, <2>4
          DEF StreamIs, OneStreamChanges, Streams!Start, Streams!position
<1> QED BY <1>2, <1>3 DEF OpenFile

LEMMA ReadServerFills ==
    ASSUME TransferInv, TransferInv', NEW t \in Transfers, OthersStay(t), ReadServer(t)
    PROVE  Streams!Fill(t) \/ Streams!Finish(t) \/ Streams!Break(t)
<1> DEFINE c == content[task[t].file]
           o == task[t].offset
<1>0. task \in [Transfers -> Tasks] /\ task[t] \in Tasks
      /\ due \in [Transfers -> BoundedSeq(Data, MaxLength)]
  BY DEF TransferInv, BufferInv, TypeInv, TypeOK
<1>1. /\ task[t].phase = "reading" /\ task[t].mode = "r" /\ UNCHANGED <<content, pipe>>
      /\ ~task[t].failed /\ o \in Nat /\ task[t].file \in Files
  BY OfTransfer DEF ReadServer, Is, TransferInv, BufferInv, Known, PhaseOf, Closing
<1>2. Place(t) = "running"
  BY <1>1 DEF Place
<1>3. CASE task' = Fail(t, "closeFile") /\ UNCHANGED due
  <2>1. task'[t].phase = "closeFile" /\ task'[t].failed = TRUE /\ task'[t].mode = task[t].mode
    BY <1>0, <1>3 DEF Fail, Tasks
  <2>2. Place(t)' = "broken"
    BY <2>1 DEF Place
  <2> QED BY <1>1, <1>2, <1>3, <2>1, <2>2, TransferBreaks
<1>4. CASE task' = [task EXCEPT ![t].phase = "closeFile"] /\ o >= Len(c) /\ UNCHANGED due
  <2>1. /\ task'[t].phase = "closeFile" /\ task'[t].failed = task[t].failed
        /\ task'[t].mode = task[t].mode
    BY <1>0, <1>4 DEF Tasks
  <2>2. Place(t)' = "finished"
    BY <1>1, <2>1 DEF Place
  <2> QED BY <1>1, <1>2, <1>4, <2>1, <2>2, TransferFinishes
<1>5. ASSUME NEW n \in 1..Capacity, o + n <= Len(c),
             due' = [due EXCEPT ![t] = @ \o SubSeq(c, o + 1, o + n)],
             task' = [task EXCEPT ![t].phase = "filled", ![t].size = n, ![t].offset = o + n]
      PROVE  Streams!Fill(t)
  <2>1. /\ task'[t].phase = "filled" /\ task'[t].failed = task[t].failed
        /\ task'[t].mode = task[t].mode /\ task'[t].file = task[t].file
        /\ task'[t].offset = o + n
    BY <1>0, <1>5 DEF Tasks
  <2>2. due'[t] = due[t] \o SubSeq(c, o + 1, o + n)
    BY <1>0, <1>5
  <2>3. /\ Place(t)' = Place(t) /\ FileOf(t) = task[t].file /\ FileOf(t)' = FileOf(t)
        /\ OffsetOf(t) = o /\ OffsetOf(t)' = o + n
    BY <1>2, <2>1 DEF Place, FileOf, OffsetOf, IsOpen
  <2>4. /\ pipe[t].client => Queued(t)' = Queued(t) \o SubSeq(c, o + 1, o + n)
        /\ ~pipe[t].client => Queued(t)' = Queued(t)
    BY <1>1, <2>1, <2>2 DEF Queued, Interesting
  <2>5. StreamIs(t) /\ OneStreamChanges(t)
    BY AllStreams, OneStream
  <2>6. /\ UNCHANGED <<AtPlace, InMode, OfFile, HasEnd>>
        /\ ~pipe[t].client => InQueue' = InQueue
    BY <1>1, <2>1, <2>3, <2>4, <2>5, SomeStay
  <2>7. n \in 1..Len(c)
    <3>1. c \in Seq(Data)
      BY <1>1, Bounded DEF TransferInv, BufferInv, TypeInv, TypeOK
    <3>2. Len(c) \in Nat
      BY <3>1, LenProperties
    <3> HIDE DEF c, o
    <3> QED BY <1>1, <1>5, <3>2, Sizes
  <2>8. /\ AtOffset' = [AtOffset EXCEPT ![t] = AtOffset[t] + n]
        /\ pipe[t].client => InQueue' = [InQueue EXCEPT ![t] =
                                            InQueue[t] \o SubSeq(c, o + 1, o + n)]
    BY <2>3, <2>4, <2>5 DEF StreamIs, OneStreamChanges
  <2> QED BY <1>1, <1>2, <1>5, <2>3, <2>5, <2>6, <2>7, <2>8 DEF StreamIs, Streams!Fill
<1> QED BY <1>3, <1>4, <1>5 DEF ReadServer

(* Blocks that go from the buffer to the array or back are in the stream.  *)
LEMMA MovesInside ==
    ASSUME TransferInv, TransferInv', NEW t \in Transfers, OthersStay(t),
           Get(t) \/ Put(t) \/ ClosePipe(t) \/ Catch(t)
    PROVE  UNCHANGED Streams!streamVars
<1>0. task \in [Transfers -> Tasks] /\ task[t] \in Tasks /\ pipe \in [Transfers -> Pipes]
  BY DEF TransferInv, BufferInv, TypeInv, TypeOK
<1>1. /\ UNCHANGED <<content, due>>
      /\ task'[t].mode = task[t].mode /\ task'[t].file = task[t].file
      /\ task'[t].offset = task[t].offset /\ task'[t].failed = task[t].failed
      /\ pipe'[t].client = pipe[t].client
  BY <1>0 DEF Get, Put, ClosePipe, Catch, Is, Tasks, Pipes
<1>2. \/ task[t].phase \in {"filled", "pulled"} /\ task'[t].phase \in {"pushing", "filled"}
      \/ task[t].phase \in {"closePipe", "catch"} /\ task'[t].phase \in {"catch", "posted"}
  BY <1>0 DEF Get, Put, ClosePipe, Catch, Is, Tasks
<1>3. Place(t)' = Place(t)
  BY <1>1, <1>2 DEF Place
<1> QED BY <1>1, <1>3, StreamStays

(* So are those that go from the array into the pipe.                      *)
LEMMA PushStep ==
    ASSUME TransferInv, TransferInv', NEW t \in Transfers, OthersStay(t), Push(t)
    PROVE  Streams!Break(t) \/ UNCHANGED Streams!streamVars
<1>0. task \in [Transfers -> Tasks] /\ task[t] \in Tasks /\ pipe \in [Transfers -> Pipes]
  BY DEF TransferInv, BufferInv, TypeInv, TypeOK
<1>1. task[t].phase = "pushing" /\ UNCHANGED <<content, due>> /\ ~task[t].failed
  BY OfTransfer DEF Push, Is, TransferInv, BufferInv, Known, PhaseOf, Closing
<1>2. Place(t) = "running"
  BY <1>1 DEF Place
<1>3. CASE task' = Fail(t, "closeFile") /\ UNCHANGED pipe
  <2>1. task'[t].phase = "closeFile" /\ task'[t].failed = TRUE /\ task'[t].mode = task[t].mode
    BY <1>0, <1>3 DEF Fail, Tasks
  <2>2. Place(t)' = "broken"
    BY <2>1 DEF Place
  <2> QED BY <1>1, <1>2, <1>3, <2>1, <2>2, TransferBreaks
<1>4. CASE /\ pipe' = [pipe EXCEPT ![t].blocks = Append(@, Head(task[t].array))]
           /\ task' = [task EXCEPT ![t].array = Tail(@),
                                   ![t].phase = IF Len(task[t].array) = 1 THEN "reading" ELSE @]
  <2>1. /\ task'[t].mode = task[t].mode /\ task'[t].file = task[t].file
        /\ task'[t].offset = task[t].offset /\ task'[t].failed = task[t].failed
        /\ pipe'[t].client = pipe[t].client /\ task'[t].phase \in {"reading", "pushing"}
    BY <1>0, <1>1, <1>4 DEF Tasks, Pipes
  <2>2. Place(t)' = Place(t)
    BY <1>1, <2>1 DEF Place
  <2> QED BY <1>1, <2>1, <2>2, StreamStays
<1> QED BY <1>3, <1>4 DEF Push

(* ... and out of it.                                                      *)
LEMMA PullStep ==
    ASSUME TransferInv, TransferInv', NEW t \in Transfers, OthersStay(t), Pull(t)
    PROVE  Streams!Finish(t) \/ Streams!Break(t) \/ UNCHANGED Streams!streamVars
<1>0. task \in [Transfers -> Tasks] /\ task[t] \in Tasks /\ pipe \in [Transfers -> Pipes]
  BY DEF TransferInv, BufferInv, TypeInv, TypeOK
<1>1. /\ task[t].phase = "pulling" /\ task[t].mode = "w" /\ UNCHANGED <<content, due>>
      /\ ~task[t].failed
  BY OfTransfer DEF Pull, Is, TransferInv, BufferInv, Known, PhaseOf, Closing
<1>2. Place(t) = "running"
  BY <1>1 DEF Place
<1>3. CASE /\ pipe[t].blocks = <<>> /\ ~pipe[t].client
           /\ task' = [task EXCEPT ![t].phase = "closeFile"] /\ UNCHANGED pipe
  <2>1. /\ task'[t].phase = "closeFile" /\ task'[t].failed = task[t].failed
        /\ task'[t].mode = task[t].mode
    BY <1>0, <1>3 DEF Tasks
  <2>2. Place(t)' = "finished"
    BY <1>1, <2>1 DEF Place
  <2>3. due[t] = <<>>
    <3>1. InBuffer(t) = <<>> /\ task[t].array = <<>>
      BY <1>1, InBufferIs DEF TransferInv, ArrayOf, Part
    <3>2. due[t] = <<>> \o <<>> \o <<>>
      BY <1>1, <1>3, <3>1 DEF TransferInv, OrderOf
    <3> QED BY <3>2, Empties
  <2> QED BY <1>1, <1>2, <1>3, <2>1, <2>2, <2>3, TransferFinishes
<1>4. CASE task' = Fail(t, "closeFile") /\ UNCHANGED pipe
  <2>1. task'[t].phase = "closeFile" /\ task'[t].failed = TRUE /\ task'[t].mode = task[t].mode
    BY <1>0, <1>4 DEF Fail, Tasks
  <2>2. Place(t)' = "broken"
    BY <2>1 DEF Place
  <2> QED BY <1>1, <1>2, <1>4, <2>1, <2>2, TransferBreaks
<1>5. ASSUME NEW n,
             task' = [task EXCEPT ![t].phase = "pulled",
                                  ![t].array = SubSeq(pipe[t].blocks, 1, n)],
             pipe' = [pipe EXCEPT ![t].blocks = SubSeq(@, n + 1, Len(@))]
      PROVE  UNCHANGED Streams!streamVars
  <2>1. /\ task'[t].mode = task[t].mode /\ task'[t].file = task[t].file
        /\ task'[t].offset = task[t].offset /\ task'[t].failed = task[t].failed
        /\ pipe'[t].client = pipe[t].client /\ task'[t].phase = "pulled"
    BY <1>0, <1>1, <1>5 DEF Tasks, Pipes
  <2>2. Place(t)' = Place(t)
    BY <1>1, <2>1 DEF Place
  <2> QED BY <1>1, <2>1, <2>2, StreamStays
<1> QED BY <1>3, <1>4, <1>5 DEF Pull

(* A transfer that is done may still break: close may fail.                *)
LEMMA CloseFileStep ==
    ASSUME TransferInv, TransferInv', NEW t \in Transfers, OthersStay(t), CloseFile(t)
    PROVE  Streams!Break(t) \/ UNCHANGED Streams!streamVars
<1>0. task \in [Transfers -> Tasks] /\ task[t] \in Tasks /\ pipe \in [Transfers -> Pipes]
  BY DEF TransferInv, BufferInv, TypeInv, TypeOK
<1>1. /\ task[t].phase = "closeFile" /\ UNCHANGED <<content, pipe, due>>
  BY DEF CloseFile
<1>2. /\ task'[t].phase = "closePipe" /\ task'[t].mode = task[t].mode
      /\ task'[t].file = task[t].file /\ task'[t].offset = task[t].offset
      /\ task'[t].failed = task[t].failed \/ task'[t].failed = TRUE
  BY <1>0 DEF CloseFile, Fail, Tasks
<1>3. CASE task'[t].failed = task[t].failed
  <2>1. Place(t)' = Place(t)
    BY <1>1, <1>2, <1>3 DEF Place
  <2> QED BY <1>1, <1>2, <1>3, <2>1, StreamStays
<1>4. CASE task'[t].failed = TRUE /\ task[t].failed # TRUE
  <2>1. ~task[t].failed
    BY <1>0, <1>4 DEF Tasks
  <2>2. Place(t) = "finished" /\ Place(t)' = "broken"
    BY <1>1, <1>2, <1>4, <2>1 DEF Place
  <2> QED BY <1>1, <1>2, <1>4, <2>1, <2>2, TransferBreaks
<1> QED BY <1>2, <1>3, <1>4

(* onPostExecute gives the buffer back, which is no longer in use.         *)
LEMMA PostExecuteStep ==
    ASSUME TransferInv, TransferInv', NEW t \in Transfers, OthersStay(t), PostExecute(t)
    PROVE  UNCHANGED Streams!streamVars
<1>0. task \in [Transfers -> Tasks] /\ task[t] \in Tasks
  BY DEF TransferInv, BufferInv, TypeInv, TypeOK
<1>1. /\ task[t].phase = "posted" /\ UNCHANGED <<content, pipe, due>>
      /\ task'[t].phase = "ended" /\ task'[t].mode = task[t].mode
      /\ task'[t].failed = task[t].failed
  BY <1>0 DEF PostExecute, Idle
<1>2. Place(t)' = Place(t) /\ ~IsOpen(t)
  BY <1>1 DEF Place, IsOpen
<1> QED BY <1>1, <1>2, StreamStays

(* The first elements of a sequence. *)
LEMMA FirstPart ==
    ASSUME NEW c \in Seq(Data), NEW n \in Nat \ {0}, n <= Len(c)
    PROVE  /\ SubSeq(c, 1, n) \in Seq(Data) /\ Len(SubSeq(c, 1, n)) = n
           /\ \A i \in 1..n : SubSeq(c, 1, n)[i] = c[i]
<1>1. 0 \in Nat /\ 0 + n <= Len(c) /\ 0 + 1 = 1 /\ 0 + n = n /\ \A i \in 1..n : 0 + i = i
  BY LenProperties
<1>2. /\ SubSeq(c, 0 + 1, 0 + n) \in Seq(Data) /\ Len(SubSeq(c, 0 + 1, 0 + n)) = n
      /\ \A i \in 1..n : SubSeq(c, 0 + 1, 0 + n)[i] = c[0 + i]
  BY <1>1, ReadPart
<1> QED BY <1>1, <1>2

(* The first part of a concatenation.                                      *)
LEMMA FirstOfConcat ==
    ASSUME NEW s \in Seq(Data), NEW r \in Seq(Data), s # <<>>
    PROVE  SubSeq(s \o r, 1, Len(s)) = s
<1> DEFINE n == Len(s)
           c == s \o r
<1>1. n \in Nat \ {0}
  BY LenProperties, EmptySeq
<1>2. c \in Seq(Data) /\ Len(c) = n + Len(r) /\ \A i \in 1..n : c[i] = s[i]
  BY ConcatProperties
<1>3. n <= Len(c)
  BY <1>1, <1>2, LenProperties
<1> HIDE DEF c
<1>4. /\ SubSeq(c, 1, n) \in Seq(Data) /\ Len(SubSeq(c, 1, n)) = n
      /\ \A i \in 1..n : SubSeq(c, 1, n)[i] = c[i]
  BY <1>1, <1>2, <1>3, FirstPart
<1>5. SubSeq(c, 1, n) = s
  BY <1>2, <1>4, SeqEqual
<1> QED BY <1>5 DEF c

(* Both modules mean the same by writing into a file.                      *)
LEMMA SameOverwritten == \A c, o, s : Streams!Overwritten(c, o, s) = Written(c, o, s)
BY DEF Streams!Overwritten, Written

(* What a writer hands to the server is the beginning of what is due.      *)
LEMMA WritesWhatIsDue ==
    ASSUME TransferInv, NEW t \in Transfers, Is(t, "filled", "w"), ~task[t].failed
    PROVE  /\ task[t].size \in 1..Len(due[t])
           /\ SubSeq(buffer[task[t].held].memory, 1, task[t].size)
                  = SubSeq(due[t], 1, task[t].size)
<1> DEFINE k == task[t]
           b == buffer[k.held]
           n == k.size
           p == pipe[t].blocks
           held == InBuffer(t)
<1>0. Known(t)
  BY OfTransfer DEF TransferInv, BufferInv
<1>1. /\ k.phase = "filled" /\ k.mode = "w" /\ n \in Nat \ {0} /\ n <= Capacity
      /\ k.held \in Buffers /\ k.array = <<>> /\ p \in Seq(Data)
  BY <1>0 DEF Is, Known, PhaseOf, Tasks, TransferInv, ArrayOf
<1>2. b.memory \in [1..Capacity -> Data]
  BY <1>1 DEF TransferInv, BufferInv, TypeInv, TypeOK
<1>3. due[t] = held \o <<>> \o p
  BY <1>1 DEF TransferInv, OrderOf
<1>4. held = Part(k, b)
  BY InBufferIs
<1> HIDE DEF k, b, p, held
<1>5. held = [i \in 1..n |-> b.memory[i]] /\ held \in Seq(Data) /\ Len(held) = n
  BY <1>1, <1>2, <1>4, PartIs
<1>6. b.memory \in Seq(Data) /\ Len(b.memory) = Capacity
  BY <1>2, Sizes, SeqOfFunction
<1>7. /\ SubSeq(b.memory, 1, n) \in Seq(Data) /\ Len(SubSeq(b.memory, 1, n)) = n
      /\ \A i \in 1..n : SubSeq(b.memory, 1, n)[i] = b.memory[i]
  BY <1>1, <1>6, FirstPart
<1> HIDE DEF n
<1>8. \A i \in 1..n : held[i] = b.memory[i]
  BY <1>5
<1>9. SubSeq(b.memory, 1, n) = held
  BY <1>5, <1>7, <1>8, SeqEqual
<1>10. due[t] = held \o p /\ held # <<>>
  BY <1>1, <1>3, <1>5, ConcatEmptySeq, EmptySeq
<1>11. SubSeq(due[t], 1, n) = held
  BY <1>1, <1>5, <1>10, FirstOfConcat
<1>12. n \in 1..Len(due[t])
  <2>1. Len(due[t]) = n + Len(p) /\ Len(p) \in Nat
    BY <1>1, <1>5, <1>10, ConcatProperties, LenProperties
  <2> QED BY <1>1, <2>1
<1> QED BY <1>9, <1>11, <1>12 DEF n, b, k

LEMMA WriteServerStores ==
    ASSUME TransferInv, TransferInv', NEW t \in Transfers, OthersStay(t), WriteServer(t),
           ShortWrites = FALSE
    PROVE  Streams!Store(t) \/ Streams!Break(t)
<1> DEFINE n == task[t].size
           f == task[t].file
           o == task[t].offset
           s == SubSeq(buffer[task[t].held].memory, 1, n)
<1>0. task \in [Transfers -> Tasks] /\ task[t] \in Tasks
      /\ due \in [Transfers -> BoundedSeq(Data, MaxLength)]
  BY DEF TransferInv, BufferInv, TypeInv, TypeOK
<1>1. /\ Is(t, "filled", "w") /\ task[t].phase = "filled" /\ task[t].mode = "w"
      /\ ~task[t].failed /\ UNCHANGED pipe
  BY OfTransfer DEF WriteServer, Is, TransferInv, BufferInv, Known, PhaseOf, Closing
<1>2. Place(t) = "running"
  BY <1>1 DEF Place
<1>3. CASE task' = Fail(t, "closeFile") /\ UNCHANGED <<content, due>>
  <2>1. task'[t].phase = "closeFile" /\ task'[t].failed = TRUE /\ task'[t].mode = task[t].mode
    BY <1>0, <1>3 DEF Fail, Tasks
  <2>2. Place(t)' = "broken"
    BY <2>1 DEF Place
  <2> QED BY <1>1, <1>2, <1>3, <2>1, <2>2, TransferBreaks
<1>4. CASE /\ content' = [content EXCEPT ![f] = Written(@, o, s)]
           /\ due' = [due EXCEPT ![t] = SubSeq(@, n + 1, Len(@))]
           /\ task' = [task EXCEPT ![t].phase = "pulling", ![t].size = 0, ![t].offset = @ + n]
  <2>1. /\ task'[t].phase = "pulling" /\ task'[t].mode = "w" /\ task'[t].file = f
        /\ task'[t].offset = o + n /\ task'[t].failed = task[t].failed
        /\ due'[t] = SubSeq(due[t], n + 1, Len(due[t]))
    BY <1>0, <1>1, <1>4 DEF Tasks
  <2>2. n \in 1..Len(due[t]) /\ s = SubSeq(due[t], 1, n)
    BY <1>1, WritesWhatIsDue
  <2>3. /\ Place(t)' = Place(t) /\ FileOf(t) = f /\ FileOf(t)' = FileOf(t)
        /\ OffsetOf(t) = o /\ OffsetOf(t)' = o + n
        /\ Queued(t) = due[t] /\ Queued(t)' = due'[t]
    BY <1>1, <1>2, <2>1 DEF Place, FileOf, OffsetOf, IsOpen, Queued, Interesting
  <2>4. StreamIs(t) /\ OneStreamChanges(t)
    BY AllStreams, OneStream
  <2>5. UNCHANGED <<AtPlace, InMode, OfFile, HasEnd>>
    BY <1>1, <2>1, <2>3, <2>4, SomeStay
  <2>6. /\ content' = [content EXCEPT ![f] = Streams!Overwritten(content[f], o, s)]
        /\ AtOffset' = [AtOffset EXCEPT ![t] = AtOffset[t] + n]
        /\ InQueue' = [InQueue EXCEPT ![t] = SubSeq(InQueue[t], n + 1, Len(InQueue[t]))]
    BY <1>4, <2>1, <2>3, <2>4, SameOverwritten DEF StreamIs, OneStreamChanges
  <2> QED BY <1>1, <1>2, <2>2, <2>3, <2>4, <2>5, <2>6 DEF StreamIs, Streams!Store
<1> QED BY <1>3, <1>4 DEF WriteServer

(* The client's own steps.                                                 *)
LEMMA ReceiveDelivers ==
    ASSUME TransferInv, TransferInv', NEW t \in Transfers, OthersStay(t), Receive(t)
    PROVE  Streams!Deliver(t)
<1>0. Known(t)
  BY OfTransfer DEF TransferInv, BufferInv
<1>1. /\ task[t].mode = "r" /\ pipe[t].client /\ pipe[t].blocks # <<>>
      /\ UNCHANGED <<content, task>> /\ due'[t] = Tail(due[t])
      /\ pipe'[t].client = pipe[t].client
  BY DEF Receive, TransferInv, BufferInv, TypeInv, TypeOK, Pipes
<1>2. due[t] # <<>>
  <2> DEFINE l == Len(pipe[t].blocks)
             k == Len(due[t])
             a == Len(task[t].array)
             b == Filled(t)
  <2>1. l \in Nat \ {0} /\ k \in Nat /\ a \in Nat /\ b \in Nat /\ b + a + l <= k
    BY <1>0, <1>1, EmptySeq, LenProperties DEF Known, RoomOf, Filled
  <2>2. k # 0
    <3> HIDE DEF l, k, a, b
    <3> QED BY <2>1
  <2> QED BY <2>2, Nothing
<1>3. /\ Place(t)' = Place(t) /\ FileOf(t)' = FileOf(t) /\ OffsetOf(t)' = OffsetOf(t)
      /\ Queued(t) = due[t] /\ Queued(t)' = Tail(due[t])
  BY <1>1 DEF Place, FileOf, OffsetOf, IsOpen, Queued, Interesting
<1>4. StreamIs(t) /\ OneStreamChanges(t)
  BY AllStreams, OneStream
<1>5. UNCHANGED <<AtPlace, InMode, OfFile, AtOffset, HasEnd>>
  BY <1>1, <1>3, <1>4, SomeStay
<1>6. InQueue' = [InQueue EXCEPT ![t] = Tail(InQueue[t])]
  BY <1>3, <1>4 DEF StreamIs, OneStreamChanges
<1> QED BY <1>1, <1>2, <1>3, <1>4, <1>5, <1>6 DEF StreamIs, Streams!Deliver, Streams!position

LEMMA SendSupplies ==
    ASSUME TransferInv, TransferInv', NEW t \in Transfers, OthersStay(t), Send(t)
    PROVE  Streams!Supply(t) \/ UNCHANGED Streams!streamVars
<1>0. pipe \in [Transfers -> Pipes] /\ due \in [Transfers -> BoundedSeq(Data, MaxLength)]
      /\ task[t].failed \in BOOLEAN
  BY DEF TransferInv, BufferInv, TypeInv, TypeOK, Tasks
<1>1. PICK block \in Blocks : /\ pipe' = [pipe EXCEPT ![t].blocks = Append(@, block)]
                              /\ due' = [due EXCEPT ![t] = Append(@, block)]
  BY DEF Send
<1>2. /\ task[t].mode = "w" /\ pipe[t].client /\ UNCHANGED <<content, task>>
      /\ due'[t] = Append(due[t], block) /\ pipe'[t].client = pipe[t].client
  BY <1>0, <1>1 DEF Send, Pipes
<1>3. /\ Place(t)' = Place(t) /\ FileOf(t)' = FileOf(t) /\ OffsetOf(t)' = OffsetOf(t)
  BY <1>2 DEF Place, FileOf, OffsetOf, IsOpen
<1>4. StreamIs(t) /\ OneStreamChanges(t)
  BY AllStreams, OneStream
<1>5. UNCHANGED <<AtPlace, InMode, OfFile, AtOffset, HasEnd>>
  BY <1>2, <1>3, <1>4, SomeStay
<1>6. CASE task[t].failed
  <2>1. Queued(t) = <<>> /\ Queued(t)' = <<>>
    BY <1>2, <1>6 DEF Queued, Interesting
  <2>2. InQueue' = InQueue
    BY <1>4, <2>1, SomeStay
  <2> QED BY <1>2, <1>5, <2>2 DEF Streams!streamVars, Streams!position
<1>7. CASE ~task[t].failed
  <2>1. Queued(t) = due[t] /\ Queued(t)' = Append(due[t], block) /\ Place(t) # "broken"
    BY <1>2, <1>7 DEF Queued, Interesting, Place
  <2>2. InQueue' = [InQueue EXCEPT ![t] = Append(InQueue[t], block)]
    BY <1>4, <2>1 DEF StreamIs, OneStreamChanges
  <2> QED BY <1>2, <1>4, <1>5, <2>1, <2>2 DEF StreamIs, Streams!Supply, Streams!position
<1> QED BY <1>6, <1>7

LEMMA CloseClientHangsUp ==
    ASSUME TransferInv, TransferInv', NEW t \in Transfers, OthersStay(t), CloseClient(t)
    PROVE  Streams!HangUp(t)
<1>0. pipe \in [Transfers -> Pipes] /\ task[t].mode \in {"r", "w"}
  BY DEF TransferInv, BufferInv, TypeInv, TypeOK, Tasks
<1>1. /\ pipe[t].client /\ pipe'[t].client = FALSE /\ UNCHANGED <<content, task>>
      /\ task[t].mode # "r" => due' = due
  BY <1>0 DEF CloseClient, Pipes
<1>2. /\ Place(t)' = Place(t) /\ FileOf(t)' = FileOf(t) /\ OffsetOf(t)' = OffsetOf(t)
      /\ task[t].mode = "r" => Queued(t)' = <<>>
      /\ task[t].mode # "r" => Queued(t)' = Queued(t)
  BY <1>0, <1>1 DEF Place, FileOf, OffsetOf, IsOpen, Queued, Interesting
<1>3. StreamIs(t) /\ OneStreamChanges(t)
  BY AllStreams, OneStream
<1>4. /\ UNCHANGED <<AtPlace, InMode, OfFile, AtOffset>>
      /\ task[t].mode # "r" => InQueue' = InQueue
  BY <1>1, <1>2, <1>3, SomeStay
<1>5. /\ HasEnd' = [HasEnd EXCEPT ![t] = FALSE]
      /\ task[t].mode = "r" => InQueue' = [InQueue EXCEPT ![t] = <<>>]
  BY <1>1, <1>2, <1>3 DEF OneStreamChanges
<1> QED BY <1>1, <1>3, <1>4, <1>5 DEF StreamIs, Streams!HangUp, Streams!position

LEMMA ForgetEnds ==
    ASSUME TransferInv, TransferInv', NEW t \in Transfers, OthersStay(t), Forget(t)
    PROVE  Streams!End(t)
<1>0. task \in [Transfers -> Tasks] /\ pipe \in [Transfers -> Pipes]
      /\ due \in [Transfers -> BoundedSeq(Data, MaxLength)]
  BY DEF TransferInv, BufferInv, TypeInv, TypeOK
<1>1. /\ task[t].phase = "ended" /\ ~pipe[t].client /\ task'[t] = Idle /\ pipe'[t] = NoPipe
      /\ due'[t] = <<>> /\ UNCHANGED content
  BY <1>0 DEF Forget
<1>2. /\ Place(t) \in {"finished", "broken"} /\ Place(t)' = "idle" /\ task'[t].mode = "r"
      /\ FileOf(t)' = FileOf(t) /\ OffsetOf(t)' = OffsetOf(t) /\ Queued(t)' = <<>>
  BY <1>1 DEF Place, FileOf, OffsetOf, IsOpen, Queued, Idle
<1>3. pipe'[t].client = pipe[t].client
  <2>1. pipe[t].client \in BOOLEAN /\ pipe'[t].client = FALSE
    BY <1>0, <1>1 DEF Pipes, NoPipe
  <2> QED BY <1>1, <2>1
<1>4. StreamIs(t) /\ OneStreamChanges(t)
  BY AllStreams, OneStream
<1>5. UNCHANGED <<OfFile, AtOffset, HasEnd>>
  BY <1>2, <1>3, <1>4, SomeStay
<1>6. /\ AtPlace' = [AtPlace EXCEPT ![t] = "idle"] /\ InMode' = [InMode EXCEPT ![t] = "r"]
      /\ InQueue' = [InQueue EXCEPT ![t] = <<>>]
  BY <1>2, <1>4 DEF OneStreamChanges
<1> QED BY <1>1, <1>2, <1>4, <1>5, <1>6 DEF StreamIs, Streams!End, Streams!position

(* A reset makes descriptors stale, which no stream shows until it breaks. *)
LEMMA ResetStays ==
    ASSUME TransferInv, TransferInv', Reset
    PROVE  UNCHANGED Streams!streamVars
<1>0. task \in [Transfers -> Tasks]
  BY DEF TransferInv, BufferInv, TypeInv, TypeOK
<1>1. ASSUME NEW t \in Transfers
      PROVE  /\ task'[t].phase = task[t].phase /\ task'[t].mode = task[t].mode
             /\ task'[t].file = task[t].file /\ task'[t].offset = task[t].offset
             /\ task'[t].failed = task[t].failed
  BY <1>0 DEF Reset, Tasks
<1>2. UNCHANGED <<content, pipe, due>>
  BY DEF Reset
<1>3. \A t \in Transfers :
         /\ Place(t)' = Place(t) /\ FileOf(t)' = FileOf(t) /\ OffsetOf(t)' = OffsetOf(t)
         /\ Queued(t)' = Queued(t)
  BY <1>1, <1>2 DEF Place, FileOf, OffsetOf, IsOpen, Queued, Interesting
<1>4. BetweenIsDue /\ BetweenIsDue'
  BY OnTheWay, OnTheWayNext
<1>5. UNCHANGED <<AtPlace, InMode, OfFile, AtOffset, InQueue, HasEnd>>
  BY <1>1, <1>2, <1>3, <1>4
     DEF AtPlace, InMode, OfFile, AtOffset, InQueue, HasEnd, BetweenIsDue
<1> QED BY <1>2, <1>5 DEF Streams!streamVars, Streams!position

(* The death of the process ends all streams and leaves the files.         *)
LEMMA ProcessDiesDies ==
    ASSUME TransferInv', ProcessDies
    PROVE  Streams!Die
<1>1. \A t \in Transfers :
         task'[t] = Idle /\ pipe'[t].client = FALSE /\ due'[t] = <<>>
  BY DEF ProcessDies, NoPipe
<1>2. \A t \in Transfers :
         /\ Place(t)' = "idle" /\ task'[t].mode = "r" /\ FileOf(t)' = NoFile
         /\ OffsetOf(t)' = 0 /\ Queued(t)' = <<>>
  BY <1>1 DEF Place, FileOf, OffsetOf, IsOpen, Queued, Idle
<1>3. BetweenIsDue'
  BY OnTheWayNext
<1>4. /\ AtPlace' = [t \in Transfers |-> "idle"] /\ InMode' = [t \in Transfers |-> "r"]
      /\ OfFile' = [t \in Transfers |-> NoFile] /\ AtOffset' = [t \in Transfers |-> 0]
      /\ InQueue' = [t \in Transfers |-> <<>>] /\ HasEnd' = [t \in Transfers |-> FALSE]
  BY <1>1, <1>2, <1>3 DEF AtPlace, InMode, OfFile, AtOffset, InQueue, HasEnd, BetweenIsDue
<1>5. UNCHANGED content
  BY DEF ProcessDies
<1> QED BY <1>4, <1>5 DEF Streams!Die

(* All steps but resets and deaths are steps of one transfer.              *)
LEMMA OneAtATime ==
    ASSUME TransferInv, NEW t \in Transfers,
           \/ Copies(t) \/ OpenDocument(t) \/ PostExecute(t) \/ Forget(t)
           \/ Receive(t) \/ Send(t) \/ CloseClient(t)
    PROVE  OthersStay(t)
<1>0. task \in [Transfers -> Tasks] /\ pipe \in [Transfers -> Pipes]
      /\ due \in [Transfers -> BoundedSeq(Data, MaxLength)]
  BY DEF TransferInv, BufferInv, TypeInv, TypeOK
<1>1. CASE Copies(t)
  <2>1. \A u \in Transfers \ {t} : task'[u] = task[u]
    BY <1>1, CopiesKeep DEF TransferInv, BufferInv
  <2>2. \A u \in Transfers \ {t} : pipe'[u] = pipe[u] /\ due'[u] = due[u]
    BY <1>0, <1>1 DEF Copies, OpenFile, ReadServer, Get, Push, Pull, Put, WriteServer, CloseFile,
                      ClosePipe, Catch
  <2> QED BY <2>1, <2>2 DEF OthersStay
<1>2. CASE OpenDocument(t) \/ PostExecute(t) \/ Forget(t)
  BY <1>0, <1>2 DEF OpenDocument, PostExecute, Forget, OthersStay
<1>3. CASE Receive(t) \/ Send(t) \/ CloseClient(t)
  BY <1>0, <1>3 DEF Receive, Send, CloseClient, OthersStay
<1> QED BY <1>1, <1>2, <1>3

(* Every step of FileTransfer is one of a stream, or none that shows.      *)
LEMMA StreamsStep ==
    ASSUME TransferInv, TransferInv', [Next]_vars, ShortWrites = FALSE
    PROVE  [Streams!StreamsNext]_(Streams!streamVars)
<1>1. ASSUME NEW t \in Transfers, Copies(t)
      PROVE  [Streams!StreamsNext]_(Streams!streamVars)
  <2>1. OthersStay(t)
    BY <1>1, OneAtATime
  <2>2. \/ Streams!Start(t) \/ Streams!Fill(t) \/ Streams!Store(t) \/ Streams!Finish(t)
        \/ Streams!Break(t) \/ UNCHANGED Streams!streamVars
    BY <1>1, <2>1, OpenFileStarts, ReadServerFills, MovesInside, PushStep, PullStep,
       WriteServerStores, CloseFileStep DEF Copies
  <2> QED BY <2>2 DEF Streams!StreamsNext
<1>2. ASSUME NEW t \in Transfers,
             OpenDocument(t) \/ PostExecute(t) \/ Forget(t) \/ Receive(t) \/ Send(t) \/ CloseClient(t)
      PROVE  [Streams!StreamsNext]_(Streams!streamVars)
  <2>1. OthersStay(t)
    BY <1>2, OneAtATime
  <2>2. \/ Streams!Open(t) \/ Streams!Deliver(t) \/ Streams!Supply(t) \/ Streams!HangUp(t)
        \/ Streams!End(t) \/ UNCHANGED Streams!streamVars
    BY <1>2, <2>1, OpenDocumentOpens, PostExecuteStep, ForgetEnds, ReceiveDelivers,
       SendSupplies, CloseClientHangsUp
  <2> QED BY <2>2 DEF Streams!StreamsNext
<1>3. CASE Reset
  BY <1>3, ResetStays
<1>4. CASE ProcessDies
  BY <1>4, ProcessDiesDies DEF Streams!StreamsNext
<1>5. CASE UNCHANGED vars
  BY <1>5 DEF vars, Streams!streamVars, Streams!position, AtPlace, InMode, OfFile, AtOffset,
              InQueue, HasEnd, Place, FileOf, OffsetOf, IsOpen, Between, Interesting, InBuffer
<1> QED BY <1>1, <1>2, <1>3, <1>4, <1>5, Steps

LEMMA StreamsBegin ==
    ASSUME Init
    PROVE  Streams!StreamsInit
<1>1. \A t \in Transfers : task[t] = Idle /\ pipe[t] = NoPipe
  BY DEF Init
<1>2. \A t \in Transfers :
         /\ Place(t) = "idle" /\ task[t].mode = "r" /\ FileOf(t) = NoFile /\ OffsetOf(t) = 0
         /\ pipe[t].client = FALSE
  BY <1>1 DEF Place, FileOf, OffsetOf, IsOpen, Idle, NoPipe
<1>3. \A t \in Transfers : Between(t) = <<>>
  BY <1>1 DEF Between, Interesting, Idle, NoPipe
<1>4. content \in [Files -> Seq(Blocks)]
  <2>1. BoundedSeq(Blocks, MaxLength) \subseteq Seq(Blocks)
    BY BoundedSeqDef, Sizes
  <2> QED BY <2>1 DEF Init
<1> QED BY <1>2, <1>3, <1>4
        DEF Streams!StreamsInit, AtPlace, InMode, OfFile, AtOffset, InQueue, HasEnd

(* If the server accepts all it is given in one call, the transfers        *)
(* implement DocumentStreams: between a client and a file there is a queue *)
(* of blocks and nothing else, however buffers are shared and recycled     *)
(* (SambaDocumentsProvider.openDocument, ReadFileTask, WriteFileTask).     *)
THEOREM TransferImplementsStreams ==
    ShortWrites = FALSE /\ Spec => ImplementsStreams
<1>1. CASE ShortWrites = FALSE
  <2>1. TransferInv /\ TransferInv' /\ [Next]_vars => [Streams!StreamsNext]_(Streams!streamVars)
    BY <1>1, StreamsStep
  <2> QED BY <1>1, <2>1, StreamsBegin, TransferInvariant, PTL
          DEF Spec, ImplementsStreams, Streams!StreamsSpec
<1>2. CASE ~(ShortWrites = FALSE)
  BY <1>2, PTL
<1> QED BY <1>1, <1>2
===============================================================================
