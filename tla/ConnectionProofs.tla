-------------------------- MODULE ConnectionProofs --------------------------
(***************************************************************************)
(* Connection: whatever the clients send and when, whenever they leave, and *)
(* however the kernel splits what is written, each request is answered      *)
(* once, and only a client that leaves too early makes a write fail or lets *)
(* bus_callback use a socket that is gone.                                  *)
(***************************************************************************)
EXTENDS Connection, FiniteSetTheorems, SequenceTheorems, WellFoundedInduction, TLAPS

\* The handshake is sent and read before any request, and what a client has sent
\* is in the inbox until it has been read.
Ordered(c) ==
  /\ phase[c] \in {"offline", "backlog", "handshake"} =>
       \/ client[c].sent = 0 /\ inbox[c] = << >>
       \/ /\ client[c].sent > 0 /\ inbox[c] # << >>
          /\ Head(inbox[c]) \in Openings /\ Tail(inbox[c]) \in Seq(Requests)
  /\ phase[c] = "request" => client[c].sent > 0 /\ inbox[c] \in Seq(Requests)

\* What c waits for, Unserved and Underway, is what it is due: exactly while it
\* reads nothing but answers and events, at most that much in any case, unless it
\* left before it had read everything.
Paid(c) ==
  Up => /\ phase[c] = "closed" => peer[c] # "here"
        /\ peer[c] # "here" => kernel[c] = << >>
        /\ peer[c] # "here" /\ c \notin hasty => client[c].due = 0
        /\ peer[c] = "here" \/ c \notin hasty => Unserved(c) + Underway(c) <= client[c].due
        /\ peer[c] = "here" /\ c \notin mangled => client[c].due = Unserved(c) + Underway(c)

Piece(kind, part) == [kind |-> kind, part |-> part, late |-> FALSE]

\* A client that sends one request at a time and is sent no event: what the
\* kernel holds for it is one message whole, or the rest of the answer it is
\* reading, and no write has to wait.
Calm(c) ==
  Up /\ peer[c] = "here" /\ c \notin pipelining \cup called =>
    /\ client[c].due <= 1 /\ queue[c] = << >> /\ posted[c] = << >>
    /\ \/ kernel[c] = << >> /\ client[c].within = "none"
       \/ kernel[c] = <<Piece("hello", 1)>> /\ client[c].within = "none"
       \/ kernel[c] = <<Piece("answer", 1), Piece("answer", 2)>> /\ client[c].within = "none"
       \/ kernel[c] = <<Piece("answer", 2)>> /\ client[c].within = "answer"

Local(c) ==
  Ordered(c) /\ Paid(c) /\ Calm(c) /\ (c \in mangled => c \in pipelining \cup called)

\* What FreedSocketNeedsHangUp needs to hold before the event that dies of it.
Hearing ==
  /\ receiving => sock \in Conn
  /\ sock \in Conn => sock \in configured
  /\ Up /\ receiving /\ peer[sock] # "here" =>
       deserted \/ sock \in hasty \/ configured # {sock}

IInv ==
  /\ TypeOK
  /\ \A c \in Conn : Local(c)
  /\ Hearing
  /\ WriteErrorsNeedHaste
  /\ FreedSocketNeedsHangUp

-----------------------------------------------------------------------------
\* Counting in sequences.

LEMMA CountType ==
  ASSUME NEW T, NEW s \in Seq(T), NEW S
  PROVE  /\ IsFiniteSet({i \in DOMAIN s : s[i] \in S})
         /\ Count(s, S) \in Nat
         /\ Count(s, S) = 0 <=> \A i \in DOMAIN s : s[i] \notin S
<1>1. IsFiniteSet(1 .. Len(s))
  BY FS_Interval
<1>2. {i \in DOMAIN s : s[i] \in S} \in SUBSET (1 .. Len(s))
  OBVIOUS
<1>. QED
  BY <1>1, <1>2, FS_Subset, FS_CardinalityType, FS_EmptySet DEF Count

LEMMA CountEmpty ==
  ASSUME NEW S
  PROVE  Count(<< >>, S) = 0
<1>1. << >> \in Seq({}) /\ DOMAIN << >> = {}
  OBVIOUS
<1>. QED
  BY <1>1, CountType

LEMMA CountAppend ==
  ASSUME NEW T, NEW s \in Seq(T), NEW x \in T, NEW S
  PROVE  Count(Append(s, x), S) = Count(s, S) + IF x \in S THEN 1 ELSE 0
<1>. DEFINE A == {i \in DOMAIN s : s[i] \in S}
            t == Append(s, x)
            B == {i \in DOMAIN t : t[i] \in S}
<1>1. IsFiniteSet(A) /\ Cardinality(A) \in Nat
  BY CountType DEF Count
<1>2. Len(t) = Len(s) + 1 /\ t[Len(s) + 1] = x /\ \A i \in 1 .. Len(s) : t[i] = s[i]
  OBVIOUS
<1>3. DOMAIN s = 1 .. Len(s) /\ DOMAIN t = 1 .. Len(s) + 1
  OBVIOUS
<1>4. Len(s) \in Nat /\ Len(s) + 1 \notin A
  BY <1>3
<1>5. /\ x \in S => B = A \cup {Len(s) + 1}
      /\ x \notin S => B = A
  <2>. HIDE DEF t
  <2>1. \A i \in 1 .. Len(s) : i \in B <=> i \in A
    BY <1>2, <1>3
  <2>2. Len(s) + 1 \in B <=> x \in S
    BY <1>2, <1>3
  <2>3. \A i \in B : i \in 1 .. Len(s) \/ i = Len(s) + 1
    BY <1>3
  <2>4. A \subseteq 1 .. Len(s)
    BY <1>3
  <2>. HIDE DEF A, B
  <2>. QED BY <2>1, <2>2, <2>3, <2>4
<1>6. Cardinality(A \cup {Len(s) + 1}) = Cardinality(A) + 1
  <2>. HIDE DEF A
  <2>. QED BY <1>1, <1>4, FS_AddElement
<1>7. Count(s, S) = Cardinality(A) /\ Count(t, S) = Cardinality(B)
  BY DEF Count
<1>. HIDE DEF A, B, t
<1>8. CASE x \in S
  BY <1>5, <1>6, <1>7, <1>8 DEF t
<1>9. CASE x \notin S
  BY <1>1, <1>5, <1>7, <1>9 DEF t
<1>. QED
  BY <1>8, <1>9

LEMMA CountTail ==
  ASSUME NEW T, NEW s \in Seq(T), s # << >>, NEW S
  PROVE  Count(s, S) = Count(Tail(s), S) + IF Head(s) \in S THEN 1 ELSE 0
<1>. DEFINE t == Tail(s)
            A == {i \in DOMAIN t : t[i] \in S}
            B == {i \in DOMAIN s : s[i] \in S} \ {1}
            f == [i \in A |-> i + 1]
<1>1. /\ t \in Seq(T) /\ Len(s) \in Nat \ {0} /\ Len(t) = Len(s) - 1 /\ Head(s) = s[1]
      /\ \A i \in 1 .. Len(t) : t[i] = s[i + 1]
  OBVIOUS
<1>2. DOMAIN s = 1 .. Len(s) /\ DOMAIN t = 1 .. Len(s) - 1
  BY <1>1
<1>3. IsFiniteSet(A) /\ Cardinality(A) \in Nat /\ IsFiniteSet({i \in DOMAIN s : s[i] \in S})
  BY <1>1, CountType DEF Count
<1>. HIDE DEF t
<1>4. f \in Bijection(A, B)
  <2>1. \A i \in A : i \in Nat /\ i + 1 \in B
    BY <1>1, <1>2
  <2>2. \A j \in B : j - 1 \in A /\ j - 1 + 1 = j
    BY <1>1, <1>2
  <2>3. f \in Injection(A, B)
    BY <2>1 DEF Injection, IsInjective
  <2>4. f \in Surjection(A, B)
    <3>1. f \in [A -> B]
      BY <2>1
    <3>2. \A j \in B : f[j - 1] = j
      BY <2>2
    <3>. HIDE DEF f
    <3>. QED BY <2>2, <3>1, <3>2 DEF Surjection
  <2>. QED BY <2>3, <2>4 DEF Bijection
<1>5. IsFiniteSet(B) /\ Cardinality(B) = Cardinality(A)
  BY <1>3, <1>4, FS_Bijection DEF ExistsBijection
<1>6. {i \in DOMAIN s : s[i] \in S} = IF Head(s) \in S THEN B \cup {1} ELSE B
  BY <1>1, <1>2
<1>7. Cardinality(B \cup {1}) = Cardinality(B) + 1
  <2>. 1 \notin B
    OBVIOUS
  <2>. HIDE DEF B
  <2>. QED BY <1>5, FS_AddElement
<1>8. Count(s, S) = Cardinality(IF Head(s) \in S THEN B \cup {1} ELSE B)
  BY <1>6 DEF Count
<1>9. Count(t, S) = Cardinality(A)
  BY DEF Count
<1>. HIDE DEF A, B
<1>10. CASE Head(s) \in S
  BY <1>5, <1>7, <1>8, <1>9, <1>10 DEF t
<1>11. CASE Head(s) \notin S
  BY <1>3, <1>5, <1>8, <1>9, <1>11 DEF t
<1>. QED
  BY <1>10, <1>11

\* What one call takes of a write: nothing, one chunk or two.
LEMMA Extended ==
  ASSUME NEW T, NEW s \in Seq(T), NEW n \in 0 .. 2, NEW f \in [1 .. n -> T]
  PROVE  /\ s \o f \in Seq(T) /\ Len(s \o f) = Len(s) + n
         /\ n = 0 => s \o f = s
         /\ n = 1 => s \o f = Append(s, f[1])
         /\ n = 2 => s \o f = Append(Append(s, f[1]), f[2])
<1>1. f \in Seq(T) /\ Len(f) = n
  OBVIOUS
<1>2. s \o f \in Seq(T) /\ Len(s \o f) = Len(s) + n
  BY <1>1
<1>3. CASE n = 0
  BY <1>1, <1>2, <1>3
<1>4. CASE n = 1
  BY <1>1, <1>2, <1>4
<1>5. CASE n = 2
  BY <1>1, <1>2, <1>5
<1>. QED
  BY <1>2, <1>3, <1>4, <1>5

-----------------------------------------------------------------------------
\* Heard, a recursive function: a set that holds 0 and with each number the next
\* holds them all.

LEMMA SetInduction ==
  ASSUME NEW S, 0 \in S, \A n \in Nat : n \in S => n + 1 \in S
  PROVE  Nat \subseteq S
<1>. SUFFICES ASSUME Nat \ S # {} PROVE FALSE
  OBVIOUS
<1>1. PICK x \in Nat \ S : \A y \in Nat \ S : ~ (<<y, x>> \in OpToRel(<, Nat))
  <2>. Nat \ S \subseteq Nat
    OBVIOUS
  <2>. QED BY WFMin, NatLessThanWellFounded
<1>2. \A y \in Nat \ S : ~ (y < x)
  BY <1>1 DEF OpToRel
<1>3. x # 0 /\ x - 1 \in Nat /\ x - 1 < x
  OBVIOUS
<1>4. x - 1 \in S
  BY <1>2, <1>3
<1>. QED
  BY <1>3, <1>4

\* What Heard's first i calls return, whether such a function exists or not.
Step(s, i, f) == IF s[i].kind \in Throws THEN Append(f[i - 1], s[i]) ELSE f[i - 1]

Kept(s, n) == CHOOSE f : f = [i \in 0 .. n |-> IF i = 0 THEN << >> ELSE Step(s, i, f)]

LEMMA KeptExists ==
  ASSUME NEW s, NEW n \in Nat
  PROVE  \E f : f = [i \in 0 .. n |-> IF i = 0 THEN << >> ELSE Step(s, i, f)]
<1>. DEFINE P(m) == \E f : f = [i \in 0 .. m |-> IF i = 0 THEN << >> ELSE Step(s, i, f)]
            S == {m \in Nat : P(m)}
<1>1. 0 \in S
  <2>. DEFINE f == [i \in {0} |-> << >>]
  <2>1. f = [i \in 0 .. 0 |-> IF i = 0 THEN << >> ELSE Step(s, i, f)]
    OBVIOUS
  <2>. QED BY <2>1
<1>2. ASSUME NEW m \in Nat, m \in S PROVE m + 1 \in S
  <2>1. PICK f : f = [i \in 0 .. m |-> IF i = 0 THEN << >> ELSE Step(s, i, f)]
    BY <1>2
  <2>. DEFINE g == [i \in 0 .. m + 1 |-> IF i \in 0 .. m THEN f[i] ELSE Step(s, m + 1, f)]
  <2>2. \A i \in 0 .. m : g[i] = f[i]
    OBVIOUS
  <2>3. \A i \in 1 .. m + 1 : i - 1 \in 0 .. m /\ Step(s, i, f) = Step(s, i, g)
    BY <2>2 DEF Step
  <2>4. \A i \in 0 .. m : f[i] = IF i = 0 THEN << >> ELSE Step(s, i, f)
    BY <2>1
  <2>5. \A i \in 0 .. m + 1 : g[i] = IF i = 0 THEN << >> ELSE Step(s, i, g)
    <3>. SUFFICES ASSUME NEW i \in 0 .. m + 1
                  PROVE  g[i] = IF i = 0 THEN << >> ELSE Step(s, i, g)
      OBVIOUS
    <3>1. CASE i \in 0 .. m
      <4>. HIDE DEF g
      <4>. QED BY <2>2, <2>3, <2>4, <3>1
    <3>2. CASE i = m + 1
      <4>1. g[i] = Step(s, i, f)
        BY <3>2
      <4>. HIDE DEF g
      <4>. QED BY <2>3, <3>2, <4>1
    <3>. QED BY <3>1, <3>2
  <2>6. g = [i \in 0 .. m + 1 |-> IF i = 0 THEN << >> ELSE Step(s, i, g)]
    <3>1. g = [i \in 0 .. m + 1 |-> g[i]]
      OBVIOUS
    <3>. HIDE DEF g
    <3>. QED BY <2>5, <3>1
  <2>7. P(m + 1)
    <3>. HIDE DEF g
    <3>. QED BY <2>6
  <2>. QED BY <2>7
<1>3. Nat \subseteq S
  <2>. HIDE DEF S
  <2>. QED BY <1>1, <1>2, SetInduction
<1>. QED BY <1>3

\* Whatever all writes of s have in common, those that Heard returns have too.
LEMMA HeardType ==
  ASSUME NEW T, NEW s \in Seq(T)
  PROVE  Heard(s) \in Seq(T)
<1>. DEFINE n == Len(s)
            f == Kept(s, n)
            S == {m \in Nat : m <= n => f[m] \in Seq(T)}
<1>1. n \in Nat
  OBVIOUS
<1>2. f = [i \in 0 .. n |-> IF i = 0 THEN << >> ELSE Step(s, i, f)]
  BY <1>1, KeptExists DEF Kept
<1>3. Heard(s) = f[n]
  BY DEF Heard, Kept, Step
<1>. HIDE DEF f
<1>4. \A i \in 0 .. n : f[i] = IF i = 0 THEN << >> ELSE Step(s, i, f)
  BY <1>2
<1>5. 0 \in S
  <2>1. f[0] = << >>
    BY <1>1, <1>4
  <2>2. << >> \in Seq(T)
    OBVIOUS
  <2>3. f[0] \in Seq(T)
    BY <2>1, <2>2
  <2>. QED BY <2>3
<1>6. ASSUME NEW m \in Nat, m \in S PROVE m + 1 \in S
  <2>. SUFFICES ASSUME m + 1 <= n PROVE f[m + 1] \in Seq(T)
    OBVIOUS
  <2>1. f[m] \in Seq(T) /\ s[m + 1] \in T
    BY <1>6
  <2>2. f[m + 1] = IF s[m + 1].kind \in Throws THEN Append(f[m], s[m + 1]) ELSE f[m]
    BY <1>1, <1>4 DEF Step
  <2>. QED BY <2>1, <2>2
<1>7. Nat \subseteq S
  <2>. HIDE DEF S
  <2>. QED BY <1>5, <1>6, SetInduction
<1>. QED
  BY <1>1, <1>3, <1>7

-----------------------------------------------------------------------------
\* Writing.

LEMMA Sizes ==
  /\ DOMAIN Size = {"hello", "answer", "event"}
  /\ Size["hello"] = 1 /\ Size["answer"] = 2 /\ Size["event"] = 2
  /\ \A kind \in DOMAIN Size : Size[kind] \in 1 .. 2
  BY DEF Size

LEMMA WriteType ==
  ASSUME NEW w \in Write
  PROVE  /\ w.kind \in DOMAIN Size /\ w.left \in 1 .. Size[w.kind]
         /\ \A n \in 1 .. w.left - 1 :
              [w EXCEPT !.left = @ - n] \in Write
                /\ ([w EXCEPT !.left = @ - n] \in Answering <=> w \in Answering)
  BY Sizes DEF Write, Answering

\* A transfer fills the kernel to its capacity at most, and the last chunk of an
\* answer goes with the last chunks of its write.
LEMMA TransferWorks ==
  ASSUME TypeOK, NEW c \in Conn, NEW w \in Write, NEW late \in BOOLEAN,
         NEW n \in 0 .. w.left, n <= Room(c), Transfer(c, w, n, late)
  PROVE  /\ kernel' \in [Conn -> Seq(Chunk)] /\ \A d \in Conn : Len(kernel'[d]) <= Capacity
         /\ peer' \in [Conn -> Ends]
         /\ peer'[c] = "here" <=> peer[c] = "here"
         /\ \A d \in Conn \ {c} : kernel'[d] = kernel[d] /\ peer'[d] = peer[d]
         /\ peer[c] # "here" => kernel'[c] = kernel[c]
         /\ peer[c] = "here" =>
              Count(kernel'[c], Ending) =
                Count(kernel[c], Ending) + IF w \in Answering /\ n = w.left THEN 1 ELSE 0
<1>. DEFINE sent == [i \in 1 .. n |->
                       [kind |-> w.kind, part |-> Size[w.kind] - w.left + i, late |-> late]]
<1>1. w.kind \in DOMAIN Size /\ w.left \in 1 .. Size[w.kind] /\ Size[w.kind] \in 1 .. 2
  BY WriteType, Sizes
<1>2. n \in 0 .. 2
  BY <1>1
<1>3. \A i \in 1 .. n :
        sent[i] \in Chunk /\ (sent[i] \in Ending <=> w \in Answering /\ i = w.left)
  BY <1>1 DEF Chunk, Ending, Answering
<1>4. sent \in [1 .. n -> Chunk]
  <2>1. sent = [i \in 1 .. n |-> sent[i]]
    OBVIOUS
  <2>. HIDE DEF sent
  <2>. QED BY <1>3, <2>1
<1>5. kernel[c] \in Seq(Chunk) /\ Len(kernel[c]) \in Nat /\ Len(kernel[c]) + n <= Capacity
  BY <1>2, ConnectionAssumption DEF TypeOK, Room
<1>6. CASE peer[c] = "here"
  <2>1. kernel' = [kernel EXCEPT ![c] = kernel[c] \o sent] /\ peer' = peer
    BY <1>6 DEF Transfer
  <2>. DEFINE full == kernel[c] \o sent
  <2>. HIDE DEF sent
  <2>2. /\ full \in Seq(Chunk) /\ Len(full) = Len(kernel[c]) + n
        /\ n = 0 => full = kernel[c]
        /\ n = 1 => full = Append(kernel[c], sent[1])
        /\ n = 2 => full = Append(Append(kernel[c], sent[1]), sent[2])
    BY <1>2, <1>4, <1>5, Extended
  <2>. HIDE DEF full
  <2>3. Count(full, Ending) =
          Count(kernel[c], Ending) + IF w \in Answering /\ n = w.left THEN 1 ELSE 0
    <3>1. Count(kernel[c], Ending) \in Nat
      BY <1>5, CountType
    <3>2. CASE n = 0
      BY <1>1, <2>2, <3>1, <3>2
    <3>3. CASE n = 1
      <4>1. sent[1] \in Chunk /\ (sent[1] \in Ending <=> w \in Answering /\ n = w.left)
        BY <1>1, <1>3, <3>3
      <4>2. Count(Append(kernel[c], sent[1]), Ending) =
              Count(kernel[c], Ending) + IF sent[1] \in Ending THEN 1 ELSE 0
        BY <1>5, <4>1, CountAppend
      <4>. QED BY <2>2, <3>1, <3>3, <4>1, <4>2
    <3>4. CASE n = 2
      <4>1. /\ sent[1] \in Chunk /\ sent[1] \notin Ending /\ sent[2] \in Chunk
            /\ sent[2] \in Ending <=> w \in Answering /\ n = w.left
        <5>1. 1 \in 1 .. n /\ 2 \in 1 .. n /\ w.left = 2
          BY <1>1, <3>4
        <5>. QED BY <1>3, <3>4, <5>1
      <4>. DEFINE half == Append(kernel[c], sent[1])
      <4>2. half \in Seq(Chunk)
        BY <1>5, <4>1
      <4>3. Count(half, Ending) = Count(kernel[c], Ending)
        BY <1>5, <3>1, <4>1, CountAppend
      <4>. HIDE DEF half
      <4>4. Count(Append(half, sent[2]), Ending) =
              Count(half, Ending) + IF sent[2] \in Ending THEN 1 ELSE 0
        BY <4>1, <4>2, CountAppend
      <4>5. full = Append(half, sent[2])
        BY <2>2, <3>4 DEF half
      <4>. QED BY <3>1, <3>4, <4>1, <4>3, <4>4, <4>5
    <3>. QED BY <1>2, <3>2, <3>3, <3>4
  <2>. QED BY <1>5, <1>6, <2>1, <2>2, <2>3 DEF TypeOK, full
<1>7. CASE peer[c] # "here"
  <2>1. kernel' = kernel /\ peer' \in {peer, [peer EXCEPT ![c] = "rejecting"]}
    BY <1>7 DEF Transfer
  <2>. QED BY <1>7, <2>1 DEF TypeOK, Ends
<1>. QED
  BY <1>6, <1>7

\* async_write loses no answer and adds none, whether it sends the write at once,
\* in part or not at all; with nothing in the way it is sent at once.
LEMMA SubmitWorks ==
  ASSUME TypeOK, NEW c \in Conn, NEW w \in Write, NEW late \in BOOLEAN,
         NEW others \in Seq(Write), Submit(c, w, others, late)
  PROVE  /\ kernel' \in [Conn -> Seq(Chunk)] /\ \A d \in Conn : Len(kernel'[d]) <= Capacity
         /\ peer' \in [Conn -> Ends]
         /\ queue' \in [Conn -> Seq(Write)] /\ posted' \in [Conn -> Seq(Write)]
         /\ peer'[c] = "here" <=> peer[c] = "here"
         /\ \A d \in Conn \ {c} : /\ kernel'[d] = kernel[d] /\ peer'[d] = peer[d]
                                  /\ queue'[d] = queue[d] /\ posted'[d] = posted[d]
         /\ peer[c] # "here" => kernel'[c] = kernel[c]
         /\ LET before == Count(kernel[c], Ending) + Count(queue[c], Answering)
                            + Count(others, Answering) + IF w \in Answering THEN 1 ELSE 0
            IN  Underway(c)' <= before /\ (peer[c] = "here" => Underway(c)' = before)
<1>. DEFINE n == IF queue[c] = << >> /\ peer[c] # "reset" THEN Smaller(Room(c), w.left) ELSE 0
            rest == [w EXCEPT !.left = @ - n]
<1>1. w.left \in 1 .. 2
  BY WriteType, Sizes
<1>2. Room(c) \in Nat
  BY ConnectionAssumption DEF TypeOK, Room
<1>3. n \in 0 .. w.left /\ n <= Room(c)
  BY <1>1, <1>2 DEF Smaller
<1>4. /\ Transfer(c, w, n, late)
      /\ queue' = IF n = 0 THEN [queue EXCEPT ![c] = Append(@, w)] ELSE queue
      /\ posted' = [posted EXCEPT ![c] = IF n \in 1 .. w.left - 1 THEN Append(others, rest)
                                                                 ELSE others]
  BY DEF Submit
<1>5. n \in 1 .. w.left - 1 => rest \in Write /\ (rest \in Answering <=> w \in Answering)
  BY WriteType
<1>. HIDE DEF n, rest
<1>6. /\ kernel' \in [Conn -> Seq(Chunk)] /\ \A d \in Conn : Len(kernel'[d]) <= Capacity
      /\ peer' \in [Conn -> Ends]
      /\ peer'[c] = "here" <=> peer[c] = "here"
      /\ \A d \in Conn \ {c} : kernel'[d] = kernel[d] /\ peer'[d] = peer[d]
      /\ peer[c] # "here" => kernel'[c] = kernel[c]
      /\ peer[c] = "here" =>
           Count(kernel'[c], Ending) =
             Count(kernel[c], Ending) + IF w \in Answering /\ n = w.left THEN 1 ELSE 0
  BY <1>3, <1>4, TransferWorks
<1>7. /\ queue' \in [Conn -> Seq(Write)] /\ posted' \in [Conn -> Seq(Write)]
      /\ \A d \in Conn \ {c} : queue'[d] = queue[d] /\ posted'[d] = posted[d]
      /\ queue'[c] = IF n = 0 THEN Append(queue[c], w) ELSE queue[c]
      /\ posted'[c] = IF n \in 1 .. w.left - 1 THEN Append(others, rest) ELSE others
  BY <1>4, <1>5 DEF TypeOK
<1>8. /\ queue[c] \in Seq(Write)
      /\ Count(kernel[c], Ending) \in Nat /\ Count(queue[c], Answering) \in Nat
      /\ Count(others, Answering) \in Nat
  BY CountType DEF TypeOK
<1>9. Count(queue'[c], Answering) =
        Count(queue[c], Answering) + IF w \in Answering /\ n = 0 THEN 1 ELSE 0
  BY <1>7, <1>8, CountAppend
<1>10. Count(posted'[c], Answering) =
         Count(others, Answering) + IF w \in Answering /\ n \in 1 .. w.left - 1 THEN 1 ELSE 0
  BY <1>5, <1>7, <1>8, CountAppend
<1>11. Underway(c)' = Count(kernel'[c], Ending) + Count(queue'[c], Answering)
                        + Count(posted'[c], Answering)
  BY DEF Underway
<1>12. LET before == Count(kernel[c], Ending) + Count(queue[c], Answering)
                       + Count(others, Answering) + IF w \in Answering THEN 1 ELSE 0
       IN  Underway(c)' <= before /\ (peer[c] = "here" => Underway(c)' = before)
  <2>1. Count(kernel'[c], Ending) <=
          Count(kernel[c], Ending) + IF w \in Answering /\ n = w.left THEN 1 ELSE 0
    BY <1>6, <1>8
  <2>2. CASE w \notin Answering
    BY <1>6, <1>8, <1>9, <1>10, <1>11, <2>1, <2>2
  <2>3. CASE w \in Answering /\ n = 0
    BY <1>1, <1>6, <1>8, <1>9, <1>10, <1>11, <2>1, <2>3
  <2>4. CASE w \in Answering /\ n = w.left
    BY <1>1, <1>6, <1>8, <1>9, <1>10, <1>11, <2>1, <2>4
  <2>5. CASE w \in Answering /\ n \in 1 .. w.left - 1
    BY <1>1, <1>6, <1>8, <1>9, <1>10, <1>11, <2>1, <2>5
  <2>. QED BY <1>1, <1>3, <2>2, <2>3, <2>4, <2>5
<1>. QED
  BY <1>6, <1>7, <1>12

LEMMA SendWorks ==
  ASSUME TypeOK, NEW c \in Conn, NEW kind \in DOMAIN Size, Send(c, kind)
  PROVE  /\ kernel' \in [Conn -> Seq(Chunk)] /\ \A d \in Conn : Len(kernel'[d]) <= Capacity
         /\ peer' \in [Conn -> Ends]
         /\ queue' \in [Conn -> Seq(Write)] /\ posted' \in [Conn -> Seq(Write)]
         /\ peer'[c] = "here" <=> peer[c] = "here"
         /\ \A d \in Conn \ {c} : /\ kernel'[d] = kernel[d] /\ peer'[d] = peer[d]
                                  /\ queue'[d] = queue[d] /\ posted'[d] = posted[d]
         /\ peer[c] # "here" => kernel'[c] = kernel[c]
         /\ Underway(c) \in Nat /\ Underway(c)' \in Nat
         /\ kind = "event" =>
              Underway(c)' <= Underway(c) /\ (peer[c] = "here" => Underway(c)' = Underway(c))
         /\ kind # "event" =>
              /\ Underway(c)' <= Underway(c) + 1
              /\ peer[c] = "here" => Underway(c)' = Underway(c) + 1
<1>. DEFINE w == [kind |-> kind, left |-> Size[kind]]
<1>1. w \in Write /\ (w \in Answering <=> kind # "event")
  BY Sizes DEF Write, Answering
<1>2. Submit(c, w, posted[c], FALSE)
  BY DEF Send
<1>. HIDE DEF w
<1>3. /\ posted[c] \in Seq(Write) /\ queue[c] \in Seq(Write) /\ kernel[c] \in Seq(Chunk)
  BY DEF TypeOK
<1>4. /\ Count(posted[c], Answering) \in Nat /\ Count(queue[c], Answering) \in Nat
      /\ Count(kernel[c], Ending) \in Nat
  BY <1>3, CountType
<1>5. /\ kernel' \in [Conn -> Seq(Chunk)] /\ \A d \in Conn : Len(kernel'[d]) <= Capacity
      /\ peer' \in [Conn -> Ends]
      /\ queue' \in [Conn -> Seq(Write)] /\ posted' \in [Conn -> Seq(Write)]
      /\ peer'[c] = "here" <=> peer[c] = "here"
      /\ \A d \in Conn \ {c} : /\ kernel'[d] = kernel[d] /\ peer'[d] = peer[d]
                               /\ queue'[d] = queue[d] /\ posted'[d] = posted[d]
      /\ peer[c] # "here" => kernel'[c] = kernel[c]
      /\ LET before == Count(kernel[c], Ending) + Count(queue[c], Answering)
                         + Count(posted[c], Answering) + IF w \in Answering THEN 1 ELSE 0
         IN  Underway(c)' <= before /\ (peer[c] = "here" => Underway(c)' = before)
  BY <1>1, <1>2, <1>3, SubmitWorks
<1>6. /\ Count(posted'[c], Answering) \in Nat /\ Count(queue'[c], Answering) \in Nat
      /\ Count(kernel'[c], Ending) \in Nat
  BY <1>5, CountType
<1>7. Underway(c) \in Nat /\ Underway(c)' \in Nat
  BY <1>4, <1>6 DEF Underway
<1>8. Underway(c) = Count(kernel[c], Ending) + Count(queue[c], Answering)
                     + Count(posted[c], Answering)
  BY DEF Underway
<1>9. CASE kind = "event"
  BY <1>1, <1>4, <1>5, <1>7, <1>8, <1>9
<1>10. CASE kind # "event"
  BY <1>1, <1>4, <1>5, <1>7, <1>8, <1>10
<1>. QED
  BY <1>5, <1>7, <1>9, <1>10

LEMMA AppendTuples ==
  ASSUME NEW S, NEW a \in S, NEW b \in S
  PROVE  Append(<< >>, a) = <<a>> /\ Append(<<a>>, b) = <<a, b>>
<1>. DEFINE s == Append(<<a>>, b)
            t == <<a, b>>
<1>1. Append(<< >>, a) = <<a>>
  OBVIOUS
<1>2. <<a>> \in Seq(S) /\ Len(<<a>>) = 1
  OBVIOUS
<1>3. s \in Seq(S) /\ Len(s) = 2 /\ s[1] = a /\ s[2] = b
  BY <1>2, AppendProperties
<1>4. t \in Seq(S) /\ Len(t) = 2 /\ t[1] = a /\ t[2] = b
  OBVIOUS
<1>5. s = t
  <2>. HIDE DEF s, t
  <2>1. \A i \in 1 .. Len(s) : i = 1 \/ i = 2
    BY <1>3
  <2>2. \A i \in 1 .. Len(s) : s[i] = t[i]
    BY <1>3, <1>4, <2>1, Zenon
  <2>. QED BY <1>3, <1>4, <2>2, SeqEqual
<1>. QED BY <1>1, <1>5

\* A client that reads nothing behind is sent its message at once: two chunks
\* are what the kernel holds at least.
LEMMA SentAtOnce ==
  ASSUME TypeOK, NEW c \in Conn, NEW kind \in {"hello", "answer"}, Send(c, kind),
         peer[c] = "here", kernel[c] = << >>, queue[c] = << >>, posted[c] = << >>
  PROVE  /\ queue'[c] = << >> /\ posted'[c] = << >>
         /\ kind = "hello" => kernel'[c] = <<Piece("hello", 1)>>
         /\ kind = "answer" => kernel'[c] = <<Piece("answer", 1), Piece("answer", 2)>>
<1>. DEFINE w == [kind |-> kind, left |-> Size[kind]]
            n == IF queue[c] = << >> /\ peer[c] # "reset" THEN Smaller(Room(c), w.left) ELSE 0
            sent == [i \in 1 .. n |->
                       [kind |-> w.kind, part |-> Size[w.kind] - w.left + i, late |-> FALSE]]
<1>1. /\ Transfer(c, w, n, FALSE)
      /\ queue' = IF n = 0 THEN [queue EXCEPT ![c] = Append(@, w)] ELSE queue
      /\ posted' = [posted EXCEPT ![c] = IF n \in 1 .. w.left - 1
                                           THEN Append(posted[c], [w EXCEPT !.left = @ - n])
                                           ELSE posted[c]]
  <2>1. Submit(c, w, posted[c], FALSE)
    BY DEF Send
  <2>. HIDE DEF w
  <2>. QED BY <2>1 DEF Submit
<1>2. Size[kind] \in 1 .. 2 /\ w.left = Size[kind] /\ w.kind = kind
  BY Sizes
<1>3. n = Size[kind]
  <2>1. Room(c) = Capacity /\ Capacity \in Nat /\ Capacity >= 2
    BY ConnectionAssumption DEF Room
  <2>. QED BY <1>2, <2>1 DEF Smaller
<1>4. kernel' = [kernel EXCEPT ![c] = << >> \o sent]
  BY <1>1 DEF Transfer
<1>. HIDE DEF n
<1>5. \A i \in 1 .. n : sent[i] = Piece(kind, i)
  <2>1. \A i \in 1 .. n : i \in Int /\ Size[w.kind] - w.left + i = i
    BY <1>2, <1>3
  <2>2. \A i \in 1 .. n :
          sent[i] = [kind |-> w.kind, part |-> Size[w.kind] - w.left + i, late |-> FALSE]
    OBVIOUS
  <2>. HIDE DEF sent, w
  <2>. QED BY <1>2, <2>1, <2>2 DEF Piece
<1>6. sent \in [1 .. n -> {Piece(kind, 1), Piece(kind, 2)}]
  <2>1. sent = [i \in 1 .. n |-> sent[i]]
    OBVIOUS
  <2>. HIDE DEF sent, w
  <2>2. \A i \in 1 .. n : i = 1 \/ i = 2
    BY <1>2, <1>3
  <2>. HIDE DEF Piece
  <2>3. \A i \in 1 .. n : sent[i] \in {Piece(kind, 1), Piece(kind, 2)}
    BY <1>5, <2>2, Zenon
  <2>. QED BY <2>1, <2>3
<1>. HIDE DEF sent, w
<1>7. /\ n = 1 => << >> \o sent = Append(<< >>, sent[1])
      /\ n = 2 => << >> \o sent = Append(Append(<< >>, sent[1]), sent[2])
  <2>. << >> \in Seq({Piece(kind, 1), Piece(kind, 2)}) /\ n \in 0 .. 2
    BY <1>2, <1>3
  <2>. QED BY <1>6, Extended
<1>8. /\ n = 1 => kernel'[c] = <<Piece(kind, 1)>>
      /\ n = 2 => kernel'[c] = <<Piece(kind, 1), Piece(kind, 2)>>
  <2>1. kernel'[c] = << >> \o sent
    BY <1>4 DEF TypeOK
  <2>2. Append(<< >>, Piece(kind, 1)) = <<Piece(kind, 1)>>
    <3>. DEFINE Pieces == {Piece(kind, 1), Piece(kind, 2)}
    <3>1. Piece(kind, 1) \in Pieces /\ Piece(kind, 2) \in Pieces
      OBVIOUS
    <3>. HIDE DEF Piece, Pieces
    <3>. QED BY <3>1, AppendTuples
  <2>3. Append(<<Piece(kind, 1)>>, Piece(kind, 2)) = <<Piece(kind, 1), Piece(kind, 2)>>
    <3>. DEFINE Pieces == {Piece(kind, 1), Piece(kind, 2)}
    <3>1. Piece(kind, 1) \in Pieces /\ Piece(kind, 2) \in Pieces
      OBVIOUS
    <3>. HIDE DEF Piece, Pieces
    <3>. QED BY <3>1, AppendTuples
  <2>4. n = 1 => sent[1] = Piece(kind, 1)
    BY <1>5
  <2>5. n = 2 => sent[1] = Piece(kind, 1) /\ sent[2] = Piece(kind, 2)
    BY <1>5
  <2>. HIDE DEF Piece
  <2>6. n = 1 => << >> \o sent = <<Piece(kind, 1)>>
    BY <1>7, <2>2, <2>4, Zenon
  <2>7. n = 2 => << >> \o sent = <<Piece(kind, 1), Piece(kind, 2)>>
    BY <1>7, <2>2, <2>3, <2>5, Zenon
  <2>. QED BY <2>1, <2>6, <2>7, Zenon
<1>9. queue'[c] = << >> /\ posted'[c] = << >>
  BY <1>1, <1>2, <1>3 DEF TypeOK
<1>. QED
  BY <1>3, <1>8, <1>9, Sizes

-----------------------------------------------------------------------------
\* What every step needs.

\* A step of one connection leaves the others as they are.
LEMMA ElsewhereKept ==
  ASSUME NEW d \in Conn, Local(d), death' = death,
         phase'[d] = phase[d], peer'[d] = peer[d], inbox'[d] = inbox[d],
         kernel'[d] = kernel[d], queue'[d] = queue[d], posted'[d] = posted[d],
         client'[d] = client[d],
         d \in mangled' <=> d \in mangled, d \in hasty' <=> d \in hasty,
         d \in pipelining => d \in pipelining', d \in called => d \in called'
  PROVE  Local(d)'
<1>1. Ordered(d)'
  BY DEF Local, Ordered
<1>2. Paid(d)'
  BY DEF Local, Paid, Up, Unserved, Underway
<1>3. Calm(d)'
  BY DEF Local, Calm, Up
<1>. QED
  BY <1>1, <1>2, <1>3 DEF Local

\* Only DtmfEvent, HangUp and Serve say anything about the receiver.
LEMMA HearingKept ==
  ASSUME Hearing, core' = core, configured' = configured, death' = death,
         deserted => deserted', hasty \subseteq hasty',
         \A c \in Conn : peer[c] = "here" => peer'[c] = "here"
  PROVE  Hearing'
  BY DEF Hearing, core, Up

\* A step after which the process is still up leaves nothing to show of deaths.
LEMMA StillUp ==
  ASSUME Up, death' = death, TypeOK', \A c \in Conn : Local(c)', Hearing'
  PROVE  IInv'
  BY DEF IInv, Up, WriteErrorsNeedHaste, FreedSocketNeedsHangUp

\* When the process ends every connection is closed and nothing waits.
LEMMA DeathKeeps ==
  ASSUME IInv, NEW cause \in {"accept", "request", "write", "freed"}, Die(cause),
         UNCHANGED <<peer, core, clients, events>>,
         WriteErrorsNeedHaste', FreedSocketNeedsHangUp'
  PROVE  IInv'
<1>1. TypeOK'
  <2>1. phase' \in [Conn -> Phases]
    BY DEF Die, Phases
  <2>2. \A T : [c \in Conn |-> << >>] \in [Conn -> Seq(T)]
    OBVIOUS
  <2>3. /\ inbox' \in [Conn -> Seq(Openings \cup Requests)]
        /\ kernel' \in [Conn -> Seq(Chunk)]
        /\ queue' \in [Conn -> Seq(Write)] /\ posted' \in [Conn -> Seq(Write)]
    BY <2>2 DEF Die
  <2>4. \A c \in Conn : Len(kernel'[c]) <= Capacity
    <3>1. \A c \in Conn : Len(kernel'[c]) = 0
      BY DEF Die
    <3>. QED BY <3>1, ConnectionAssumption
  <2>5. death' = cause /\ peer' = peer /\ sock' = sock /\ receiving' = receiving
          /\ client' = client
          /\ UNCHANGED <<mangled, hasty, pipelining, called, configured, deserted>>
    BY DEF Die, core, clients, events
  <2>. QED BY <2>1, <2>3, <2>4, <2>5 DEF IInv, TypeOK
<1>2. ASSUME NEW c \in Conn PROVE Local(c)'
  BY <1>2 DEF IInv, Local, Ordered, Paid, Calm, Up, Die, clients, events
<1>3. Hearing'
  BY DEF IInv, Hearing, Up, Die, core, clients, events
<1>. QED
  BY <1>1, <1>2, <1>3 DEF IInv

-----------------------------------------------------------------------------
\* Accepting, reading and answering.

LEMMA AcceptKeeps ==
  ASSUME IInv, NEW c \in Conn, Accept(c)
  PROVE  IInv'
<1>. USE DEF Accept, network, writes, core, clients, events
<1>1. TypeOK'
  BY DEF IInv, TypeOK, Phases
<1>2. Local(c)'
  BY DEF IInv, TypeOK, Local, Ordered, Paid, Calm, Up, Unserved, Underway
<1>3. ASSUME NEW d \in Conn \ {c} PROVE Local(d)'
  BY <1>3, ElsewhereKept DEF IInv, TypeOK
<1>4. Hearing'
  BY HearingKept DEF IInv
<1>. QED
  BY <1>1, <1>2, <1>3, <1>4, StillUp

LEMMA AcceptFailsKeeps ==
  ASSUME IInv, NEW c \in Conn, AcceptFails(c)
  PROVE  IInv'
<1>1. WriteErrorsNeedHaste' /\ FreedSocketNeedsHangUp'
  BY DEF AcceptFails, Die, WriteErrorsNeedHaste, FreedSocketNeedsHangUp
<1>. QED
  BY <1>1, DeathKeeps DEF AcceptFails

LEMMA ServeMalformedKeeps ==
  ASSUME IInv, NEW c \in Conn, ServeMalformed(c)
  PROVE  IInv'
<1>1. WriteErrorsNeedHaste' /\ FreedSocketNeedsHangUp'
  BY DEF ServeMalformed, Die, WriteErrorsNeedHaste, FreedSocketNeedsHangUp
<1>. QED
  BY <1>1, DeathKeeps DEF ServeMalformed

\* Reading takes the first message and leaves the others.
LEMMA ReadWorks ==
  ASSUME TypeOK, NEW c \in Conn, NEW at, Reads(c, at)
  PROVE  /\ inbox' \in [Conn -> Seq(Openings \cup Requests)]
         /\ inbox'[c] = Tail(inbox[c])
         /\ \A d \in Conn \ {c} : inbox'[d] = inbox[d]
         /\ Head(inbox[c]) \in Openings \cup Requests
         /\ Unserved(c) \in Nat /\ Unserved(c)' \in Nat
         /\ Head(inbox[c]) # "wrong" => Unserved(c) = Unserved(c)' + 1
         /\ Head(inbox[c]) = "wrong" => Unserved(c) = Unserved(c)'
<1>1. /\ inbox[c] \in Seq(Openings \cup Requests) /\ inbox[c] # << >>
      /\ inbox' = [inbox EXCEPT ![c] = Tail(inbox[c])]
  BY DEF TypeOK, Reads
<1>2. Tail(inbox[c]) \in Seq(Openings \cup Requests) /\ Head(inbox[c]) \in Openings \cup Requests
  BY <1>1
<1>3. /\ inbox' \in [Conn -> Seq(Openings \cup Requests)]
      /\ inbox'[c] = Tail(inbox[c])
      /\ \A d \in Conn \ {c} : inbox'[d] = inbox[d]
  BY <1>1, <1>2 DEF TypeOK
<1>4. Count(inbox[c], Answered) =
        Count(Tail(inbox[c]), Answered) + IF Head(inbox[c]) \in Answered THEN 1 ELSE 0
  BY <1>1, CountTail
<1>5. Unserved(c) = Count(inbox[c], Answered) /\ Unserved(c)' = Count(Tail(inbox[c]), Answered)
  BY <1>3 DEF Unserved
<1>6. Unserved(c) \in Nat /\ Unserved(c)' \in Nat
  <2>1. Count(inbox[c], Answered) \in Nat
    BY <1>1, CountType
  <2>. DEFINE rest == Tail(inbox[c])
  <2>. HIDE DEF rest
  <2>2. Count(rest, Answered) \in Nat
    BY <1>2, CountType DEF rest
  <2>. QED BY <1>5, <2>1, <2>2 DEF rest
<1>7. Head(inbox[c]) \in Answered <=> Head(inbox[c]) # "wrong"
  BY <1>2 DEF Answered
<1>. QED
  BY <1>2, <1>3, <1>4, <1>5, <1>6, <1>7

\* What waits for a calm client, if anything does, holds the end of an answer.
LEMMA CalmKernel ==
  ASSUME TypeOK, NEW c \in Conn, Up, Calm(c), peer[c] = "here", c \notin pipelining \cup called,
         Underway(c) = 0
  PROVE  kernel[c] = << >> /\ client[c].within = "none"
<1>1. \A i \in DOMAIN kernel[c] : kernel[c][i] \notin Ending
  <2>1. kernel[c] \in Seq(Chunk) /\ queue[c] \in Seq(Write) /\ posted[c] \in Seq(Write)
    BY DEF TypeOK
  <2>2. /\ Count(kernel[c], Ending) \in Nat /\ Count(queue[c], Answering) \in Nat
        /\ Count(posted[c], Answering) \in Nat
    BY <2>1, CountType
  <2>3. Count(kernel[c], Ending) = 0
    BY <2>2 DEF Underway
  <2>. QED BY <2>1, <2>3, CountType
<1>2. {Piece("hello", 1), Piece("answer", 2)} \subseteq Ending
  BY Sizes DEF Ending, Chunk, Piece
<1>3. kernel[c] # <<Piece("hello", 1)>> /\ kernel[c] # <<Piece("answer", 2)>>
  BY <1>1, <1>2
<1>4. kernel[c] # <<Piece("answer", 1), Piece("answer", 2)>>
  BY <1>1, <1>2
<1>. QED
  BY <1>3, <1>4 DEF Calm

\* A message is read and its answer sent: what the client waits for stays the same.
LEMMA AnswerWorks ==
  ASSUME IInv, NEW c \in Conn, NEW at \in {"handshake", "request"}, Reads(c, at),
         Head(inbox[c]) # "wrong", NEW kind \in {"hello", "answer"}, Send(c, kind),
         phase'[c] = "request", death' = death, UNCHANGED <<clients, called>>
  PROVE  Paid(c)' /\ Calm(c)'
<1>1. TypeOK /\ Local(c) /\ Up /\ Up'
  BY DEF IInv, Reads, Up
<1>2. client[c].due \in Nat
  BY <1>1 DEF TypeOK
<1>3. Unserved(c) \in Nat /\ Unserved(c)' \in Nat /\ Unserved(c) = Unserved(c)' + 1
  BY <1>1, ReadWorks
<1>4. /\ peer'[c] = "here" <=> peer[c] = "here"
      /\ peer[c] # "here" => kernel'[c] = kernel[c]
      /\ Underway(c) \in Nat /\ Underway(c)' \in Nat
      /\ Underway(c)' <= Underway(c) + 1
      /\ peer[c] = "here" => Underway(c)' = Underway(c) + 1
  BY <1>1, SendWorks, Sizes
<1>5. UNCHANGED <<client, mangled, hasty, pipelining>>
  BY DEF clients
<1>6. Paid(c)'
  BY <1>1, <1>2, <1>3, <1>4, <1>5 DEF Local, Paid
<1>7. Calm(c)'
  <2>. SUFFICES ASSUME peer[c] = "here", c \notin pipelining \cup called
                PROVE  Calm(c)'
    BY <1>4, <1>5 DEF Calm
  <2>1. /\ client[c].due <= 1 /\ queue[c] = << >> /\ posted[c] = << >>
        /\ client[c].due = Unserved(c) + Underway(c)
    BY <1>1 DEF Local, Calm, Paid
  <2>2. Underway(c) = 0
    BY <1>2, <1>3, <1>4, <2>1
  <2>3. kernel[c] = << >> /\ client[c].within = "none"
    BY <1>1, <2>2, CalmKernel DEF Local
  <2>4. /\ queue'[c] = << >> /\ posted'[c] = << >>
        /\ kind = "hello" => kernel'[c] = <<Piece("hello", 1)>>
        /\ kind = "answer" => kernel'[c] = <<Piece("answer", 1), Piece("answer", 2)>>
    BY <1>1, <2>1, <2>3, SentAtOnce
  <2>5. client'[c].due <= 1 /\ client'[c].within = "none"
    BY <1>5, <2>1, <2>3
  <2>. QED BY <2>4, <2>5 DEF Calm
<1>. QED
  BY <1>6, <1>7

LEMMA ReadHandshakeKeeps ==
  ASSUME IInv, NEW c \in Conn, ReadHandshake(c)
  PROVE  IInv'
<1>1. TypeOK /\ Local(c) /\ Up /\ Up' /\ Reads(c, "handshake")
  BY DEF IInv, ReadHandshake, Reads, Up
<1>2. /\ phase' = [phase EXCEPT ![c] = "request"] /\ phase[c] = "handshake"
      /\ UNCHANGED <<core, death, clients, events>>
  BY DEF ReadHandshake, Reads
<1>3. /\ inbox' \in [Conn -> Seq(Openings \cup Requests)]
      /\ inbox'[c] = Tail(inbox[c])
      /\ \A d \in Conn \ {c} : inbox'[d] = inbox[d]
      /\ Unserved(c) \in Nat /\ Unserved(c)' \in Nat
      /\ Head(inbox[c]) = "wrong" => Unserved(c) = Unserved(c)'
  BY <1>1, ReadWorks
<1>4. Head(inbox[c]) \in Openings /\ client[c].sent > 0 /\ Tail(inbox[c]) \in Seq(Requests)
  BY <1>1, <1>2 DEF Local, Ordered, Reads
<1>5. Ordered(c)'
  BY <1>1, <1>2, <1>3, <1>4 DEF Ordered, clients, TypeOK
<1>6. CASE Head(inbox[c]) = "surfapi"
  <2>1. Send(c, "hello")
    BY <1>6 DEF ReadHandshake
  <2>2. /\ kernel' \in [Conn -> Seq(Chunk)] /\ \A d \in Conn : Len(kernel'[d]) <= Capacity
        /\ peer' \in [Conn -> Ends]
        /\ queue' \in [Conn -> Seq(Write)] /\ posted' \in [Conn -> Seq(Write)]
        /\ peer'[c] = "here" <=> peer[c] = "here"
        /\ \A d \in Conn \ {c} : /\ kernel'[d] = kernel[d] /\ peer'[d] = peer[d]
                                 /\ queue'[d] = queue[d] /\ posted'[d] = posted[d]
    BY <1>1, <2>1, SendWorks, Sizes
  <2>3. TypeOK'
    BY <1>1, <1>2, <1>3, <2>2 DEF TypeOK, core, clients, events, Phases
  <2>4. Paid(c)' /\ Calm(c)'
    BY <1>1, <1>2, <1>6, <2>1, AnswerWorks DEF TypeOK, events
  <2>5. Local(c)'
    BY <1>1, <1>2, <1>5, <2>4 DEF Local, clients, events
  <2>6. ASSUME NEW d \in Conn \ {c} PROVE Local(d)'
    BY <1>1, <1>2, <1>3, <2>2, <2>6, ElsewhereKept DEF IInv, TypeOK, clients, events
  <2>7. Hearing'
    BY <1>2, <2>2, HearingKept DEF IInv, clients, events
  <2>. QED BY <1>1, <1>2, <2>3, <2>5, <2>6, <2>7, StillUp
<1>7. CASE Head(inbox[c]) = "wrong"
  <2>1. UNCHANGED <<peer, kernel, queue, posted>>
    BY <1>7 DEF ReadHandshake, writes
  <2>2. TypeOK'
    BY <1>1, <1>2, <1>3, <2>1 DEF TypeOK, core, clients, events, Phases
  <2>3. Paid(c)'
    BY <1>1, <1>2, <1>3, <1>7, <2>1 DEF TypeOK, Local, Paid, Underway, clients
  <2>4. Calm(c)'
    BY <1>1, <1>2, <2>1 DEF Local, Calm, clients, events
  <2>5. Local(c)'
    BY <1>1, <1>2, <1>5, <2>3, <2>4 DEF Local, clients, events
  <2>6. ASSUME NEW d \in Conn \ {c} PROVE Local(d)'
    BY <1>1, <1>2, <1>3, <2>1, <2>6, ElsewhereKept DEF IInv, TypeOK, clients, events
  <2>7. Hearing'
    BY <1>2, <2>1, HearingKept DEF IInv, clients, events
  <2>. QED BY <1>1, <1>2, <2>2, <2>5, <2>6, <2>7, StillUp
<1>. QED
  BY <1>4, <1>6, <1>7 DEF Openings

LEMMA ServeKeeps ==
  ASSUME IInv, NEW c \in Conn, Serve(c)
  PROVE  IInv'
<1>1. TypeOK /\ Local(c) /\ Up /\ Up' /\ Reads(c, "request") /\ Send(c, "answer")
  BY DEF IInv, Serve, Reads, Up
<1>2. /\ phase' = phase /\ phase[c] = "request"
      /\ UNCHANGED <<death, clients, called, deserted>>
  BY DEF Serve, Reads
<1>3. /\ inbox' \in [Conn -> Seq(Openings \cup Requests)]
      /\ inbox'[c] = Tail(inbox[c])
      /\ \A d \in Conn \ {c} : inbox'[d] = inbox[d]
      /\ Unserved(c) \in Nat /\ Unserved(c)' \in Nat
      /\ Head(inbox[c]) # "wrong" => Unserved(c) = Unserved(c)' + 1
  BY <1>1, ReadWorks
<1>4. /\ Head(inbox[c]) \in {"config", "remove", "other"}
      /\ client[c].sent > 0 /\ Tail(inbox[c]) \in Seq(Requests)
  <2>1. inbox[c] # << >> /\ inbox[c] \in Seq(Requests) /\ client[c].sent > 0
    BY <1>1, <1>2 DEF Local, Ordered, Reads
  <2>2. Head(inbox[c]) \in Requests /\ Tail(inbox[c]) \in Seq(Requests)
    BY <2>1
  <2>. QED BY <2>1, <2>2 DEF Serve, Requests
<1>5. /\ kernel' \in [Conn -> Seq(Chunk)] /\ \A d \in Conn : Len(kernel'[d]) <= Capacity
      /\ peer' \in [Conn -> Ends]
      /\ queue' \in [Conn -> Seq(Write)] /\ posted' \in [Conn -> Seq(Write)]
      /\ peer'[c] = "here" <=> peer[c] = "here"
      /\ \A d \in Conn \ {c} : /\ kernel'[d] = kernel[d] /\ peer'[d] = peer[d]
                               /\ queue'[d] = queue[d] /\ posted'[d] = posted[d]
      /\ Underway(c) \in Nat
  BY <1>1, SendWorks, Sizes
<1>6. \/ Head(inbox[c]) = "config" /\ Configure(c)
      \/ (receiving' => receiving) /\ UNCHANGED <<sock, configured>> /\ receiving' \in BOOLEAN
  BY <1>1, <1>4 DEF TypeOK, Serve, core
<1>7. sock' \in Conn \cup {NoConn} /\ receiving' \in BOOLEAN /\ configured' \subseteq Conn
  BY <1>1, <1>6 DEF TypeOK, Configure
<1>8. TypeOK'
  BY <1>1, <1>2, <1>3, <1>5, <1>7 DEF TypeOK, clients
<1>9. Paid(c)' /\ Calm(c)'
  BY <1>1, <1>2, <1>4, AnswerWorks
<1>10. Ordered(c)'
  BY <1>2, <1>3, <1>4 DEF Ordered, clients
<1>11. Local(c)'
  BY <1>1, <1>2, <1>9, <1>10 DEF Local, clients
<1>12. ASSUME NEW d \in Conn \ {c} PROVE Local(d)'
  BY <1>1, <1>2, <1>3, <1>5, <1>12, ElsewhereKept DEF IInv, TypeOK, clients
<1>13. \A d \in Conn : peer'[d] = "here" <=> peer[d] = "here"
  BY <1>5
<1>14. Hearing'
  <2>1. CASE Head(inbox[c]) = "config" /\ Configure(c)
    <3>1. peer[c] # "here" => c \in hasty
      <4>1. Unserved(c) >= 1
        BY <1>3, <2>1
      <4>2. client[c].due \in Nat
        BY <1>1 DEF TypeOK
      <4>. QED BY <1>1, <1>3, <1>5, <4>1, <4>2 DEF Local, Paid
    <3>2. sock' \in Conn /\ (sock' = sock \/ sock' = c) /\ configured' = configured \cup {c}
      BY <1>1, <2>1 DEF Configure, TypeOK
    <3>3. sock' = sock => sock \in configured
      BY <3>2 DEF IInv, Hearing
    <3>. QED BY <1>1, <1>2, <1>13, <3>1, <3>2, <3>3 DEF Hearing, clients
  <2>2. CASE (receiving' => receiving) /\ UNCHANGED <<sock, configured>>
    BY <1>1, <1>2, <1>13, <2>2 DEF IInv, Hearing, clients
  <2>. QED BY <1>6, <2>1, <2>2
<1>. QED
  BY <1>1, <1>2, <1>8, <1>11, <1>12, <1>14, StillUp

-----------------------------------------------------------------------------
\* Writes that go on, and writes that fail.

LEMMA UnderwayType ==
  ASSUME TypeOK, NEW c \in Conn
  PROVE  /\ Unserved(c) \in Nat /\ Underway(c) \in Nat
         /\ Underway(c) = 0 => /\ Count(kernel[c], Ending) = 0 /\ Count(queue[c], Answering) = 0
                               /\ Count(posted[c], Answering) = 0
<1>1. /\ kernel[c] \in Seq(Chunk) /\ queue[c] \in Seq(Write) /\ posted[c] \in Seq(Write)
      /\ inbox[c] \in Seq(Openings \cup Requests)
  BY DEF TypeOK
<1>2. /\ Count(kernel[c], Ending) \in Nat /\ Count(queue[c], Answering) \in Nat
      /\ Count(posted[c], Answering) \in Nat /\ Count(inbox[c], Answered) \in Nat
  BY <1>1, CountType
<1>. QED
  BY <1>2 DEF Unserved, Underway

\* A step that moves on what is underway.
LEMMA MovingOn ==
  ASSUME IInv, TypeOK', NEW c \in Conn, Up, queue[c] # << >> \/ posted[c] # << >>,
         UNCHANGED <<phase, inbox, core, death, clients, events>>,
         \A d \in Conn \ {c} : /\ kernel'[d] = kernel[d] /\ peer'[d] = peer[d]
                              /\ queue'[d] = queue[d] /\ posted'[d] = posted[d],
         peer'[c] = "here" <=> peer[c] = "here",
         peer[c] # "here" => kernel'[c] = kernel[c],
         Underway(c)' <= Underway(c), peer[c] = "here" => Underway(c)' = Underway(c)
  PROVE  IInv'
<1>1. Unserved(c)' = Unserved(c)
  BY DEF Unserved
<1>2. /\ Unserved(c) \in Nat /\ Underway(c) \in Nat /\ Underway(c)' \in Nat
      /\ client[c].due \in Nat
  <2>1. Underway(c)' \in Nat
    <3>1. /\ kernel'[c] \in Seq(Chunk) /\ queue'[c] \in Seq(Write) /\ posted'[c] \in Seq(Write)
      BY DEF TypeOK
    <3>2. /\ Count(kernel'[c], Ending) \in Nat /\ Count(queue'[c], Answering) \in Nat
          /\ Count(posted'[c], Answering) \in Nat
      BY <3>1, CountType
    <3>. QED BY <3>2 DEF Underway
  <2>. QED BY <2>1, UnderwayType DEF IInv, TypeOK
<1>3. Paid(c)'
  BY <1>1, <1>2 DEF IInv, Local, Paid, Up, clients
<1>4. Local(c)'
  <2>1. Ordered(c)'
    BY DEF IInv, Local, Ordered, clients
  <2>2. Calm(c)'
    BY DEF IInv, Local, Calm, Up, clients, events
  <2>. QED BY <1>3, <2>1, <2>2 DEF IInv, Local, clients, events
<1>5. ASSUME NEW d \in Conn \ {c} PROVE Local(d)'
  BY <1>5, ElsewhereKept DEF IInv, clients, events
<1>6. Hearing'
  BY HearingKept DEF IInv, clients, events
<1>. QED
  BY <1>4, <1>5, <1>6, StillUp

LEMMA ContinueKeeps ==
  ASSUME IInv, NEW c \in Conn, Continue(c)
  PROVE  IInv'
<1>1. /\ TypeOK /\ Up /\ posted[c] # << >>
      /\ Submit(c, Head(posted[c]), Tail(posted[c]), TRUE)
      /\ UNCHANGED <<phase, inbox, core, death, clients, events>>
  BY DEF IInv, Continue
<1>. DEFINE w == Head(posted[c])
            others == Tail(posted[c])
<1>2. /\ posted[c] \in Seq(Write) /\ queue[c] \in Seq(Write) /\ kernel[c] \in Seq(Chunk)
      /\ w \in Write /\ others \in Seq(Write)
  BY <1>1 DEF TypeOK
<1>3. Count(posted[c], Answering) = Count(others, Answering) + IF w \in Answering THEN 1 ELSE 0
  BY <1>1, <1>2, CountTail
<1>. HIDE DEF w, others
<1>4. /\ Count(others, Answering) \in Nat /\ Count(queue[c], Answering) \in Nat
      /\ Count(kernel[c], Ending) \in Nat
  BY <1>2, CountType
<1>5. /\ kernel' \in [Conn -> Seq(Chunk)] /\ \A d \in Conn : Len(kernel'[d]) <= Capacity
      /\ peer' \in [Conn -> Ends]
      /\ queue' \in [Conn -> Seq(Write)] /\ posted' \in [Conn -> Seq(Write)]
      /\ peer'[c] = "here" <=> peer[c] = "here"
      /\ \A d \in Conn \ {c} : /\ kernel'[d] = kernel[d] /\ peer'[d] = peer[d]
                               /\ queue'[d] = queue[d] /\ posted'[d] = posted[d]
      /\ peer[c] # "here" => kernel'[c] = kernel[c]
      /\ LET before == Count(kernel[c], Ending) + Count(queue[c], Answering)
                         + Count(others, Answering) + IF w \in Answering THEN 1 ELSE 0
         IN  Underway(c)' <= before /\ (peer[c] = "here" => Underway(c)' = before)
  BY <1>1, <1>2, SubmitWorks DEF w, others
<1>6. Underway(c) = Count(kernel[c], Ending) + Count(queue[c], Answering)
                      + Count(others, Answering) + IF w \in Answering THEN 1 ELSE 0
  BY <1>3, <1>4 DEF Underway
<1>7. TypeOK'
  BY <1>1, <1>5 DEF TypeOK, core, clients, events
<1>. QED
  BY <1>1, <1>5, <1>6, <1>7, MovingOn

LEMMA ReactorKeeps ==
  ASSUME IInv, NEW c \in Conn, Reactor(c)
  PROVE  IInv'
<1>. DEFINE w == Head(queue[c])
            others == Tail(queue[c])
            n == Smaller(Room(c), w.left)
            rest == [w EXCEPT !.left = @ - n]
<1>1. /\ TypeOK /\ Up /\ queue[c] # << >> /\ Room(c) > 0
      /\ Transfer(c, w, n, TRUE)
      /\ posted' = IF n < w.left THEN [posted EXCEPT ![c] = Append(@, rest)] ELSE posted
      /\ queue' = [queue EXCEPT ![c] = others]
      /\ UNCHANGED <<phase, inbox, core, death, clients, events>>
  BY DEF IInv, Reactor
<1>2. /\ posted[c] \in Seq(Write) /\ queue[c] \in Seq(Write) /\ kernel[c] \in Seq(Chunk)
      /\ w \in Write /\ others \in Seq(Write)
  BY <1>1 DEF TypeOK
<1>3. Count(queue[c], Answering) = Count(others, Answering) + IF w \in Answering THEN 1 ELSE 0
  BY <1>1, <1>2, CountTail
<1>. HIDE DEF w, others
<1>4. /\ Count(others, Answering) \in Nat /\ Count(posted[c], Answering) \in Nat
      /\ Count(kernel[c], Ending) \in Nat
  BY <1>2, CountType
<1>5. n \in 1 .. w.left /\ n <= Room(c) /\ w.left \in 1 .. 2
  <2>1. w.left \in 1 .. 2
    <3>1. w.kind \in DOMAIN Size /\ w.left \in 1 .. Size[w.kind]
      BY <1>2, WriteType
    <3>. QED BY <3>1, Sizes
  <2>2. Room(c) \in Nat
    BY <1>1, ConnectionAssumption DEF TypeOK, Room
  <2>. QED BY <1>1, <2>1, <2>2 DEF Smaller
<1>6. n \in 1 .. w.left - 1 => rest \in Write /\ (rest \in Answering <=> w \in Answering)
  BY <1>2, WriteType
<1>. HIDE DEF n, rest
<1>7. /\ kernel' \in [Conn -> Seq(Chunk)] /\ \A d \in Conn : Len(kernel'[d]) <= Capacity
      /\ peer' \in [Conn -> Ends]
      /\ peer'[c] = "here" <=> peer[c] = "here"
      /\ \A d \in Conn \ {c} : kernel'[d] = kernel[d] /\ peer'[d] = peer[d]
      /\ peer[c] # "here" => kernel'[c] = kernel[c]
      /\ peer[c] = "here" =>
           Count(kernel'[c], Ending) =
             Count(kernel[c], Ending) + IF w \in Answering /\ n = w.left THEN 1 ELSE 0
  <2>1. n \in 0 .. w.left /\ TRUE \in BOOLEAN
    BY <1>5
  <2>. QED BY <1>1, <1>2, <1>5, <2>1, TransferWorks
<1>8. /\ queue' \in [Conn -> Seq(Write)] /\ posted' \in [Conn -> Seq(Write)]
      /\ \A d \in Conn \ {c} : queue'[d] = queue[d] /\ posted'[d] = posted[d]
      /\ queue'[c] = others
      /\ posted'[c] = IF n \in 1 .. w.left - 1 THEN Append(posted[c], rest) ELSE posted[c]
  BY <1>1, <1>2, <1>5, <1>6 DEF TypeOK
<1>9. Count(posted'[c], Answering) =
        Count(posted[c], Answering) + IF w \in Answering /\ n \in 1 .. w.left - 1 THEN 1 ELSE 0
  BY <1>2, <1>4, <1>6, <1>8, CountAppend
<1>10. Underway(c) = Count(kernel[c], Ending) + Count(others, Answering)
                       + Count(posted[c], Answering) + IF w \in Answering THEN 1 ELSE 0
  BY <1>3, <1>4 DEF Underway
<1>11. Underway(c)' = Count(kernel'[c], Ending) + Count(others, Answering)
                        + Count(posted'[c], Answering)
  BY <1>8 DEF Underway
<1>12. Underway(c)' <= Underway(c) /\ (peer[c] = "here" => Underway(c)' = Underway(c))
  <2>1. CASE w \notin Answering
    BY <1>4, <1>7, <1>9, <1>10, <1>11, <2>1
  <2>2. CASE w \in Answering /\ n = w.left
    BY <1>4, <1>5, <1>7, <1>9, <1>10, <1>11, <2>2
  <2>3. CASE w \in Answering /\ n \in 1 .. w.left - 1
    BY <1>4, <1>5, <1>7, <1>9, <1>10, <1>11, <2>3
  <2>. QED BY <1>5, <2>1, <2>2, <2>3
<1>13. TypeOK'
  BY <1>1, <1>7, <1>8 DEF TypeOK, core, clients, events
<1>. QED
  BY <1>1, <1>7, <1>8, <1>12, <1>13, MovingOn

\* Nothing of an answer waits for a client that left when it had read everything.
LEMMA LeftInPeace ==
  ASSUME IInv, NEW c \in Conn, Up, peer[c] # "here", c \notin hasty
  PROVE  Unserved(c) = 0 /\ Underway(c) = 0 /\ Waiting(c) \cap Throws = {}
<1>1. Unserved(c) \in Nat /\ Underway(c) \in Nat
  BY UnderwayType DEF IInv
<1>2. Unserved(c) + Underway(c) <= 0
  BY DEF IInv, Local, Paid
<1>3. Underway(c) = 0 /\ Unserved(c) = 0
  BY <1>1, <1>2
<1>4. Count(queue[c], Answering) = 0 /\ Count(posted[c], Answering) = 0
  BY <1>3, UnderwayType DEF IInv
<1>5. queue[c] \in Seq(Write) /\ posted[c] \in Seq(Write)
  BY DEF IInv, TypeOK
<1>6. /\ \A i \in DOMAIN queue[c] : queue[c][i] \notin Answering
      /\ \A i \in DOMAIN posted[c] : posted[c][i] \notin Answering
  BY <1>4, <1>5, CountType
<1>7. /\ \A i \in DOMAIN queue[c] : queue[c][i] \in Write
      /\ \A i \in DOMAIN posted[c] : posted[c][i] \in Write
  BY <1>5
<1>8. \A w \in Write : w \notin Answering => w.kind \notin Throws
  BY DEF Answering, Throws
<1>. QED
  BY <1>3, <1>6, <1>7, <1>8 DEF Waiting

LEMMA WriteFailsKeeps ==
  ASSUME IInv, NEW c \in Conn, WriteFails(c)
  PROVE  IInv'
<1>1. Up /\ peer[c] # "here" /\ Waiting(c) \cap Throws # {}
  BY DEF WriteFails, IInv, Local, Paid
<1>2. c \in hasty
  BY <1>1, LeftInPeace
<1>3. WriteErrorsNeedHaste' /\ FreedSocketNeedsHangUp'
  BY <1>2 DEF WriteFails, Die, WriteErrorsNeedHaste, FreedSocketNeedsHangUp, clients
<1>. QED
  BY <1>3, DeathKeeps DEF WriteFails

\* Dropping the writes of events leaves nothing underway where nothing was.
LEMMA DropWorks ==
  ASSUME TypeOK, NEW c \in Conn, DropEvents(c), UNCHANGED kernel
  PROVE  /\ queue' \in [Conn -> Seq(Write)] /\ posted' \in [Conn -> Seq(Write)]
         /\ \A d \in Conn \ {c} : queue'[d] = queue[d] /\ posted'[d] = posted[d]
         /\ Underway(c) = 0 => Underway(c)' = 0
<1>1. queue[c] \in Seq(Write) /\ posted[c] \in Seq(Write)
  BY DEF TypeOK
<1>2. Heard(queue[c]) \in Seq(Write) /\ Heard(posted[c]) \in Seq(Write)
  BY <1>1, HeardType
<1>3. /\ queue' = [queue EXCEPT ![c] = Heard(queue[c])]
      /\ posted' = [posted EXCEPT ![c] = Heard(posted[c])]
  BY DEF DropEvents
<1>4. queue'[c] = Heard(queue[c]) /\ posted'[c] = Heard(posted[c])
  BY <1>3 DEF TypeOK
<1>5. ASSUME NEW s \in Seq(Write), Count(s, Answering) = 0
      PROVE  Count(Heard(s), Answering) = 0
  <2>1. \A i \in DOMAIN s : s[i] \in Write \ Answering
    <3>1. \A i \in DOMAIN s : s[i] \notin Answering
      BY <1>5, CountType
    <3>. QED BY <3>1
  <2>2. s \in Seq(Write \ Answering)
    BY <2>1
  <2>. DEFINE t == Heard(s)
  <2>3. t \in Seq(Write \ Answering)
    BY <2>2, HeardType
  <2>. HIDE DEF t
  <2>4. \A i \in DOMAIN t : t[i] \notin Answering
    BY <2>3
  <2>5. Count(t, Answering) = 0
    BY <2>3, <2>4, CountType
  <2>. QED BY <2>5 DEF t
<1>6. Underway(c) = 0 => Underway(c)' = 0
  BY <1>1, <1>4, <1>5, UnderwayType DEF Underway
<1>. QED
  BY <1>2, <1>3, <1>6 DEF TypeOK

\* A connection loses the writes of events, and its client has left.
LEMMA Dropping ==
  ASSUME IInv, NEW c \in Conn, Up, DropEvents(c), peer[c] # "here",
         phase' \in [Conn -> Phases], phase'[c] \in {phase[c], "closed"},
         peer' \in [Conn -> Ends], peer'[c] # "here",
         \A d \in Conn \ {c} : phase'[d] = phase[d] /\ peer'[d] = peer[d],
         UNCHANGED <<inbox, kernel, core, death, clients, events>>
  PROVE  IInv'
<1>1. /\ queue' \in [Conn -> Seq(Write)] /\ posted' \in [Conn -> Seq(Write)]
      /\ \A d \in Conn \ {c} : queue'[d] = queue[d] /\ posted'[d] = posted[d]
      /\ Underway(c) = 0 => Underway(c)' = 0
  BY DropWorks DEF IInv
<1>2. TypeOK'
  BY <1>1 DEF IInv, TypeOK, core, clients, events
<1>3. Paid(c)'
  <2>1. c \notin hasty =>
          /\ kernel[c] = << >> /\ client[c].due = 0 /\ Unserved(c) = 0 /\ Underway(c)' = 0
    BY <1>1, LeftInPeace DEF IInv, Local, Paid
  <2>2. kernel[c] = << >>
    BY DEF IInv, Local, Paid
  <2>. QED BY <2>1, <2>2 DEF Paid, Unserved, clients
<1>4. Local(c)'
  <2>1. Ordered(c)'
    BY DEF IInv, Local, Ordered, clients
  <2>. QED BY <1>3, <2>1 DEF IInv, Local, Calm, clients, events
<1>5. ASSUME NEW d \in Conn \ {c} PROVE Local(d)'
  BY <1>1, <1>5, ElsewhereKept DEF IInv, clients, events
<1>6. Hearing'
  <2>1. \A d \in Conn : peer[d] = "here" => peer'[d] = "here"
    OBVIOUS
  <2>. QED BY <2>1, HearingKept DEF IInv, clients, events
<1>. QED
  BY <1>2, <1>4, <1>5, <1>6, StillUp

LEMMA ProcErrorKeeps ==
  ASSUME IInv, NEW c \in Conn, ProcError(c)
  PROVE  IInv'
<1>1. /\ Up /\ peer[c] # "here" /\ DropEvents(c)
      /\ phase' = [phase EXCEPT ![c] = "closed"]
      /\ UNCHANGED <<peer, inbox, kernel, core, death, clients, events>>
  BY DEF ProcError, network
<1>2. phase' \in [Conn -> Phases] /\ phase'[c] = "closed" /\ peer' \in [Conn -> Ends]
  BY <1>1 DEF IInv, TypeOK, Phases
<1>. QED
  BY <1>1, <1>2, Dropping

LEMMA ResetKeeps ==
  ASSUME IInv, NEW c \in Conn, Reset(c)
  PROVE  IInv'
<1>1. /\ Up /\ peer[c] = "rejecting" /\ DropEvents(c)
      /\ peer' = [peer EXCEPT ![c] = "reset"]
      /\ UNCHANGED <<phase, inbox, kernel, core, death, clients, events>>
  BY DEF Reset
<1>2. phase' \in [Conn -> Phases] /\ peer'[c] = "reset" /\ peer' \in [Conn -> Ends]
  BY <1>1 DEF IInv, TypeOK, Ends
<1>. QED
  BY <1>1, <1>2, Dropping

-----------------------------------------------------------------------------
\* An event.

LEMMA DtmfEventKeeps ==
  ASSUME IInv, DtmfEvent
  PROVE  IInv'
<1>1. PICK c \in Conn : c = sock
  BY DEF IInv, Hearing, DtmfEvent
<1>2. /\ TypeOK /\ Up /\ receiving /\ Local(c)
      /\ UNCHANGED <<sock, receiving, client, mangled, hasty, pipelining, configured, deserted>>
  BY DEF IInv, DtmfEvent, core, clients
<1>3. CASE Destroyed(c)
  <2>1. Die("freed") /\ UNCHANGED <<peer, core, clients, events>>
    BY <1>1, <1>3 DEF DtmfEvent, events
  <2>2. peer[sock] # "here"
    BY <1>1, <1>2, <1>3 DEF Destroyed, Local, Paid
  <2>3. deserted \/ sock \in hasty \/ configured # {sock}
    BY <1>2, <2>2 DEF IInv, Hearing
  <2>4. WriteErrorsNeedHaste' /\ FreedSocketNeedsHangUp'
    BY <1>2, <2>1, <2>2, <2>3 DEF Die, WriteErrorsNeedHaste, FreedSocketNeedsHangUp
  <2>. QED BY <2>1, <2>4, DeathKeeps
<1>4. CASE ~Destroyed(c) /\ (phase[c] = "closed" \/ peer[c] = "reset")
  <2>1. UNCHANGED vars
    BY <1>1, <1>2, <1>4 DEF DtmfEvent, vars, network, writes, core, clients, events
  <2>2. ASSUME NEW d \in Conn PROVE Local(d)'
    BY <2>1, <2>2, ElsewhereKept DEF IInv, vars, network, writes, clients, events
  <2>3. TypeOK'
    BY <1>2, <2>1 DEF TypeOK, vars, network, writes, core, clients, events
  <2>4. Hearing'
    BY <2>1, HearingKept DEF IInv, vars, network, clients, events
  <2>. QED BY <1>2, <2>1, <2>2, <2>3, <2>4, StillUp DEF vars
<1>5. CASE ~Destroyed(c) /\ ~(phase[c] = "closed" \/ peer[c] = "reset")
  <2>1. /\ Send(c, "event") /\ called' = called \cup {c}
        /\ UNCHANGED <<phase, inbox, death>>
    BY <1>1, <1>5 DEF DtmfEvent
  <2>2. /\ kernel' \in [Conn -> Seq(Chunk)] /\ \A d \in Conn : Len(kernel'[d]) <= Capacity
        /\ peer' \in [Conn -> Ends]
        /\ queue' \in [Conn -> Seq(Write)] /\ posted' \in [Conn -> Seq(Write)]
        /\ peer'[c] = "here" <=> peer[c] = "here"
        /\ \A d \in Conn \ {c} : /\ kernel'[d] = kernel[d] /\ peer'[d] = peer[d]
                                 /\ queue'[d] = queue[d] /\ posted'[d] = posted[d]
        /\ peer[c] # "here" => kernel'[c] = kernel[c]
        /\ Underway(c) \in Nat /\ Underway(c)' \in Nat
        /\ Underway(c)' <= Underway(c) /\ (peer[c] = "here" => Underway(c)' = Underway(c))
    BY <1>2, <2>1, SendWorks, Sizes
  <2>3. TypeOK'
    BY <1>2, <2>1, <2>2 DEF TypeOK
  <2>4. Paid(c)'
    <3>1. Unserved(c)' = Unserved(c)
      BY <2>1 DEF Unserved
    <3>2. Unserved(c) \in Nat /\ client[c].due \in Nat
      BY <1>2, UnderwayType DEF TypeOK
    <3>. QED BY <1>2, <2>1, <2>2, <3>1, <3>2 DEF Local, Paid, Up
  <2>5. Local(c)'
    BY <1>2, <2>1, <2>4 DEF Local, Ordered, Calm
  <2>6. ASSUME NEW d \in Conn \ {c} PROVE Local(d)'
    BY <1>2, <2>1, <2>2, <2>6, ElsewhereKept DEF IInv
  <2>7. Hearing'
    BY <1>2, <2>1, <2>2, HearingKept DEF IInv, core
  <2>. QED BY <1>2, <2>1, <2>3, <2>5, <2>6, <2>7, StillUp
<1>. QED
  BY <1>3, <1>4, <1>5

-----------------------------------------------------------------------------
\* Clients.

LEMMA ConnectKeeps ==
  ASSUME IInv, NEW c \in Conn, Connect(c)
  PROVE  IInv'
<1>. USE DEF Connect, network, writes, core, clients, events
<1>1. TypeOK'
  BY DEF IInv, TypeOK, Phases
<1>2. Local(c)'
  BY DEF IInv, TypeOK, Local, Ordered, Paid, Calm, Up, Unserved, Underway
<1>3. ASSUME NEW d \in Conn \ {c} PROVE Local(d)'
  BY <1>3, ElsewhereKept DEF IInv, TypeOK
<1>4. Hearing'
  BY HearingKept DEF IInv
<1>. QED
  BY <1>1, <1>2, <1>3, <1>4, StillUp

LEMMA ClientSendKeeps ==
  ASSUME IInv, NEW c \in Conn, NEW message \in Openings \cup Requests, ClientSend(c, message)
  PROVE  IInv'
<1>1. /\ TypeOK /\ Local(c) /\ Up /\ Up' /\ peer[c] = "here" /\ phase[c] # "offline"
      /\ client[c].sent < MaxSent[c]
      /\ message \in IF client[c].sent = 0 THEN Openings ELSE Requests
      /\ UNCHANGED <<phase, peer, kernel, queue, posted, core, death, mangled, hasty, events>>
  BY DEF IInv, ClientSend, Up, writes
<1>2. /\ inbox' = [inbox EXCEPT ![c] = Append(@, message)]
      /\ client' = [client EXCEPT ![c].sent = @ + 1,
                                  ![c].due = IF message = "wrong" THEN @ ELSE @ + 1]
      /\ pipelining' = IF client[c].due > 0 THEN pipelining \cup {c} ELSE pipelining
  BY DEF ClientSend
<1>3. /\ inbox[c] \in Seq(Openings \cup Requests) /\ client[c].sent \in Nat
      /\ client[c].due \in Nat /\ MaxSent[c] \in Nat
  BY <1>1, ConnectionAssumption DEF TypeOK
<1>4. /\ inbox' \in [Conn -> Seq(Openings \cup Requests)]
      /\ inbox'[c] = Append(inbox[c], message)
      /\ \A d \in Conn \ {c} : inbox'[d] = inbox[d] /\ client'[d] = client[d]
  BY <1>1, <1>2, <1>3 DEF TypeOK
<1>5. /\ client'[c].sent = client[c].sent + 1 /\ client'[c].within = client[c].within
      /\ client'[c].due = IF message = "wrong" THEN client[c].due ELSE client[c].due + 1
      /\ client' \in [Conn -> [sent : Nat, due : Nat, within : {"none", "answer", "event"}]]
  <2>. DEFINE R == [sent : Nat, due : Nat, within : {"none", "answer", "event"}]
              due == IF message = "wrong" THEN client[c].due ELSE client[c].due + 1
              r == [client[c] EXCEPT !.sent = @ + 1, !.due = due]
  <2>1. client' = [client EXCEPT ![c] = r]
    BY <1>1, <1>2 DEF TypeOK
  <2>2. client \in [Conn -> R] /\ due \in Nat
    BY <1>1, <1>3 DEF TypeOK
  <2>. HIDE DEF due
  <2>3. r \in R /\ r.sent = client[c].sent + 1 /\ r.within = client[c].within /\ r.due = due
    <3>1. client[c] \in R
      BY <2>2
    <3>. DEFINE sent == client[c].sent + 1
    <3>2. sent \in Nat
      BY <1>3
    <3>. HIDE DEF sent
    <3>3. r = [client[c] EXCEPT !.sent = sent, !.due = due]
      BY DEF sent
    <3>. HIDE DEF r
    <3>4. r \in R /\ r.sent = sent /\ r.within = client[c].within /\ r.due = due
      BY <2>2, <3>1, <3>2, <3>3
    <3>. QED BY <3>4 DEF sent
  <2>. HIDE DEF r, R
  <2>4. client' \in [Conn -> R] /\ client'[c] = r
    BY <2>1, <2>2, <2>3
  <2>. QED BY <2>3, <2>4 DEF R, due
<1>6. TypeOK'
  <2>1. \A d \in Conn : client'[d].sent <= MaxSent[d]
    <3>1. client'[c].sent <= MaxSent[c]
      BY <1>1, <1>3, <1>5
    <3>2. \A d \in Conn \ {c} : client'[d].sent <= MaxSent[d]
      BY <1>1, <1>4 DEF TypeOK
    <3>. QED BY <3>1, <3>2
  <2>. QED BY <1>1, <1>2, <1>4, <1>5, <2>1 DEF TypeOK, core, events
<1>7. Unserved(c)' = Unserved(c) + IF message = "wrong" THEN 0 ELSE 1
  <2>1. Count(Append(inbox[c], message), Answered) =
          Count(inbox[c], Answered) + IF message \in Answered THEN 1 ELSE 0
    BY <1>3, CountAppend
  <2>2. Count(inbox[c], Answered) \in Nat
    BY <1>3, CountType
  <2>3. message \in Answered <=> message # "wrong"
    BY DEF Answered
  <2>4. Unserved(c)' = Count(Append(inbox[c], message), Answered)
    BY <1>4 DEF Unserved
  <2>. QED BY <2>1, <2>2, <2>3, <2>4 DEF Unserved
<1>8. Underway(c)' = Underway(c) /\ Underway(c) \in Nat /\ Unserved(c) \in Nat
  BY <1>1, UnderwayType DEF Underway
<1>9. Paid(c)'
  <2>1. CASE message = "wrong"
    <3>1. Unserved(c)' = Unserved(c) /\ client'[c].due = client[c].due
      BY <1>5, <1>7, <1>8, <2>1
    <3>. QED BY <1>1, <1>8, <3>1 DEF Local, Paid
  <2>2. CASE message # "wrong"
    <3>1. Unserved(c)' = Unserved(c) + 1 /\ client'[c].due = client[c].due + 1
      BY <1>5, <1>7, <2>2
    <3>2. Unserved(c) + Underway(c) <= client[c].due
      BY <1>1 DEF Local, Paid
    <3>3. Unserved(c)' + Underway(c)' <= client'[c].due
      BY <1>3, <1>8, <3>1, <3>2
    <3>4. c \notin mangled => client'[c].due = Unserved(c)' + Underway(c)'
      <4>1. c \notin mangled => client[c].due = Unserved(c) + Underway(c)
        BY <1>1 DEF Local, Paid
      <4>. QED BY <1>3, <1>8, <3>1, <4>1
    <3>. QED BY <1>1, <3>3, <3>4 DEF Local, Paid
  <2>. QED BY <2>1, <2>2
<1>10. Calm(c)'
  BY <1>1, <1>2, <1>3, <1>5 DEF Local, Calm, events
<1>11. Ordered(c)'
  <2>1. phase[c] # "closed"
    BY <1>1 DEF Local, Paid
  <2>2. CASE phase[c] = "request"
    <3>1. inbox[c] \in Seq(Requests) /\ message \in Requests
      BY <1>1, <2>2 DEF Local, Ordered
    <3>. QED BY <1>1, <1>3, <1>4, <1>5, <2>2, <3>1 DEF Ordered
  <2>3. CASE phase[c] # "request" /\ client[c].sent = 0
    <3>1. inbox[c] = << >> /\ message \in Openings
      BY <1>1, <2>1, <2>3 DEF Local, Ordered, TypeOK, Phases
    <3>2. inbox'[c] = <<message>>
      BY <1>4, <3>1
    <3>3. Head(<<message>>) = message /\ Tail(<<message>>) \in Seq(Requests)
      OBVIOUS
    <3>. QED BY <1>1, <1>3, <1>5, <2>3, <3>1, <3>2, <3>3 DEF Ordered
  <2>4. CASE phase[c] # "request" /\ client[c].sent # 0
    <3>1. /\ inbox[c] # << >> /\ Head(inbox[c]) \in Openings /\ Tail(inbox[c]) \in Seq(Requests)
          /\ message \in Requests
      BY <1>1, <2>1, <2>4 DEF Local, Ordered, TypeOK, Phases
    <3>2. /\ Head(inbox'[c]) = Head(inbox[c]) /\ inbox'[c] # << >>
          /\ Tail(inbox'[c]) = Append(Tail(inbox[c]), message)
      BY <1>3, <1>4, <3>1
    <3>3. Tail(inbox'[c]) \in Seq(Requests)
      <4>1. \A t \in Seq(Requests) : Append(t, message) \in Seq(Requests)
        BY <3>1
      <4>. QED BY <3>1, <3>2, <4>1
    <3>. QED BY <1>1, <1>3, <1>5, <2>4, <3>1, <3>2, <3>3 DEF Ordered
  <2>. QED BY <2>2, <2>3, <2>4
<1>12. Local(c)'
  BY <1>1, <1>2, <1>9, <1>10, <1>11 DEF Local, events
<1>13. ASSUME NEW d \in Conn \ {c} PROVE Local(d)'
  BY <1>1, <1>2, <1>4, <1>13, ElsewhereKept DEF IInv, events
<1>14. Hearing'
  BY <1>1, HearingKept DEF IInv, events
<1>. QED
  BY <1>1, <1>6, <1>12, <1>13, <1>14, StillUp

LEMMA HangUpKeeps ==
  ASSUME IInv, NEW c \in Conn, HangUp(c)
  PROVE  IInv'
<1>1. /\ TypeOK /\ Local(c) /\ Up /\ Up' /\ peer[c] = "here"
      /\ peer' = [peer EXCEPT ![c] = IF kernel[c] = << >> THEN "left" ELSE "rejecting"]
      /\ kernel' = [kernel EXCEPT ![c] = << >>]
      /\ hasty' = IF client[c].due > 0 THEN hasty \cup {c} ELSE hasty
      /\ deserted' = (deserted \/ (receiving /\ sock = c))
      /\ UNCHANGED <<phase, inbox, queue, posted, core, death, client, mangled, pipelining>>
      /\ UNCHANGED <<called, configured>>
  BY DEF IInv, HangUp, Up, writes
<1>2. /\ peer' \in [Conn -> Ends] /\ peer'[c] # "here"
      /\ kernel' \in [Conn -> Seq(Chunk)] /\ kernel'[c] = << >>
      /\ \A d \in Conn \ {c} : peer'[d] = peer[d] /\ kernel'[d] = kernel[d]
      /\ \A d \in Conn : Len(kernel'[d]) <= Capacity
  BY <1>1, ConnectionAssumption DEF TypeOK, Ends
<1>3. TypeOK'
  BY <1>1, <1>2 DEF TypeOK, core
<1>4. Paid(c)'
  <2>1. Unserved(c)' = Unserved(c) /\ Unserved(c) \in Nat /\ Underway(c) \in Nat
    BY <1>1, UnderwayType DEF Unserved
  <2>2. Underway(c)' <= Underway(c) /\ Underway(c)' \in Nat
    <3>1. kernel[c] \in Seq(Chunk) /\ queue[c] \in Seq(Write) /\ posted[c] \in Seq(Write)
      BY <1>1 DEF TypeOK
    <3>2. /\ Count(kernel[c], Ending) \in Nat /\ Count(queue[c], Answering) \in Nat
          /\ Count(posted[c], Answering) \in Nat
      BY <3>1, CountType
    <3>3. Count(kernel'[c], Ending) = 0
      BY <1>2, CountEmpty
    <3>. QED BY <1>1, <3>2, <3>3 DEF Underway
  <2>3. client[c].due \in Nat
    BY <1>1 DEF TypeOK
  <2>. QED BY <1>1, <1>2, <2>1, <2>2, <2>3 DEF Local, Paid
<1>5. Local(c)'
  BY <1>1, <1>2, <1>4 DEF Local, Ordered, Calm
<1>6. ASSUME NEW d \in Conn \ {c} PROVE Local(d)'
  BY <1>1, <1>2, <1>6, ElsewhereKept DEF IInv
<1>7. Hearing'
  BY <1>1, <1>2 DEF IInv, Hearing, core
<1>. QED
  BY <1>1, <1>3, <1>5, <1>6, <1>7, StillUp

\* A calm client reads what it waits for, whole: no chunk can be the one that
\* does not fit, or one that was taken from a buffer that is gone.
LEMMA CalmReads ==
  ASSUME NEW c \in Conn, Calm(c), Up, peer[c] = "here", c \notin pipelining \cup called,
         kernel[c] # << >>
  PROVE  LET chunk == Head(kernel[c])
             rest == Tail(kernel[c])
             last == chunk.part = Size[chunk.kind]
             within == IF last THEN "none" ELSE chunk.kind
         IN  /\ ~chunk.late
             /\ IF client[c].within = "none" THEN chunk.part = 1
                                             ELSE chunk.part = 2 /\ chunk.kind = client[c].within
             /\ \/ rest = << >> /\ within = "none"
                \/ rest = <<Piece("answer", 2)>> /\ within = "answer"
<1>1. CASE kernel[c] = <<Piece("hello", 1)>> /\ client[c].within = "none"
  BY <1>1, Sizes DEF Piece
<1>2. CASE /\ kernel[c] = <<Piece("answer", 1), Piece("answer", 2)>>
           /\ client[c].within = "none"
  <2>1. /\ Head(kernel[c]) = Piece("answer", 1)
        /\ Tail(kernel[c]) = <<Piece("answer", 2)>>
    BY <1>2
  <2>. QED BY <1>2, <2>1, Sizes DEF Piece
<1>3. CASE kernel[c] = <<Piece("answer", 2)>> /\ client[c].within = "answer"
  BY <1>3, Sizes DEF Piece
<1>. QED
  BY <1>1, <1>2, <1>3 DEF Calm

LEMMA ClientReadKeeps ==
  ASSUME IInv, NEW c \in Conn, ClientRead(c)
  PROVE  IInv'
<1>. DEFINE chunk == Head(kernel[c])
            rest == Tail(kernel[c])
            fits == IF client[c].within = "none"
                      THEN chunk.part = 1
                      ELSE chunk.part = 2 /\ chunk.kind = client[c].within
            last == chunk.part = Size[chunk.kind]
            within == IF last THEN "none" ELSE chunk.kind
            due == IF last /\ chunk.kind # "event" THEN client[c].due - 1 ELSE client[c].due
<1>1. /\ TypeOK /\ Local(c) /\ Up /\ Up' /\ peer[c] = "here" /\ kernel[c] # << >>
      /\ kernel' = [kernel EXCEPT ![c] = rest]
      /\ UNCHANGED <<phase, peer, inbox, queue, posted, core, death, hasty, pipelining, events>>
  BY DEF IInv, ClientRead, Up, writes
<1>2. \/ /\ c \notin mangled /\ fits /\ mangled' = mangled
         /\ client' = [client EXCEPT ![c].within = within, ![c].due = due]
      \/ /\ client' = client /\ mangled' = mangled \cup {c}
         /\ c \in mangled \/ ~fits \/ (chunk.late /\ chunk.kind # "hello")
  BY DEF ClientRead
<1>3. /\ kernel[c] \in Seq(Chunk) /\ chunk \in Chunk /\ rest \in Seq(Chunk)
      /\ Len(rest) <= Capacity
  BY <1>1, ConnectionAssumption DEF TypeOK
<1>4. Count(kernel[c], Ending) = Count(rest, Ending) + IF chunk \in Ending THEN 1 ELSE 0
  BY <1>1, <1>3, CountTail
<1>5. chunk \in Ending <=> last /\ chunk.kind # "event"
  BY <1>3 DEF Ending
<1>6. ~last => chunk.kind \in {"answer", "event"}
  BY <1>3, Sizes DEF Chunk
<1>7. \/ kernel[c] = << >>
      \/ peer[c] # "here"
      \/ c \in pipelining \cup called
      \/ /\ fits /\ ~chunk.late
         /\ \/ rest = << >> /\ within = "none"
            \/ rest = <<Piece("answer", 2)>> /\ within = "answer"
  BY <1>1, CalmReads DEF Local
<1>. HIDE DEF chunk, rest, fits, last
<1>8. /\ Count(kernel[c], Ending) \in Nat /\ Count(rest, Ending) \in Nat
      /\ Count(queue[c], Answering) \in Nat /\ Count(posted[c], Answering) \in Nat
  <2>1. queue[c] \in Seq(Write) /\ posted[c] \in Seq(Write)
    BY <1>1 DEF TypeOK
  <2>. QED BY <1>3, <2>1, CountType
<1>9. /\ kernel' \in [Conn -> Seq(Chunk)] /\ kernel'[c] = rest
      /\ \A d \in Conn \ {c} : kernel'[d] = kernel[d]
      /\ \A d \in Conn : Len(kernel'[d]) <= Capacity
  BY <1>1, <1>3 DEF TypeOK
<1>10. /\ Unserved(c)' = Unserved(c) /\ Unserved(c) \in Nat
       /\ Underway(c) \in Nat /\ Underway(c)' \in Nat
       /\ chunk \in Ending => Underway(c) = Underway(c)' + 1
       /\ chunk \notin Ending => Underway(c) = Underway(c)'
  <2>1. Unserved(c)' = Unserved(c) /\ Unserved(c) \in Nat
    BY <1>1, UnderwayType DEF Unserved
  <2>2. Underway(c)' = Count(rest, Ending) + Count(queue[c], Answering)
                         + Count(posted[c], Answering)
    BY <1>1, <1>9 DEF Underway
  <2>3. Underway(c) = Count(kernel[c], Ending) + Count(queue[c], Answering)
                        + Count(posted[c], Answering)
    BY DEF Underway
  <2>. QED BY <1>4, <1>8, <2>1, <2>2, <2>3
<1>11. client[c].due \in Nat /\ Unserved(c) + Underway(c) <= client[c].due
  BY <1>1 DEF TypeOK, Local, Paid
<1>12. Hearing'
  BY <1>1, HearingKept DEF IInv, events
<1>13. CASE /\ c \notin mangled /\ fits /\ mangled' = mangled
            /\ client' = [client EXCEPT ![c].within = within, ![c].due = due]
  <2>1. client[c].due = Unserved(c) + Underway(c)
    BY <1>1, <1>13 DEF Local, Paid
  <2>2. due \in Nat /\ due = Unserved(c)' + Underway(c)'
    BY <1>5, <1>10, <1>11, <2>1
  <2>3. within \in {"none", "answer", "event"}
    BY <1>6
  <2>. HIDE DEF due, within
  <2>4. /\ client' \in [Conn -> [sent : Nat, due : Nat, within : {"none", "answer", "event"}]]
        /\ client'[c].due = due /\ client'[c].within = within
        /\ client'[c].sent = client[c].sent
        /\ \A d \in Conn \ {c} : client'[d] = client[d]
    <3>. DEFINE R == [sent : Nat, due : Nat, within : {"none", "answer", "event"}]
                r == [client[c] EXCEPT !.within = within, !.due = due]
    <3>1. client' = [client EXCEPT ![c] = r]
      BY <1>1, <1>13 DEF TypeOK
    <3>2. client \in [Conn -> R] /\ client[c] \in R
      BY <1>1 DEF TypeOK
    <3>3. r \in R /\ r.sent = client[c].sent /\ r.within = within /\ r.due = due
      BY <2>2, <2>3, <3>2
    <3>. HIDE DEF r, R
    <3>4. /\ client' \in [Conn -> R] /\ client'[c] = r
          /\ \A d \in Conn \ {c} : client'[d] = client[d]
      BY <3>1, <3>2, <3>3
    <3>. QED BY <3>3, <3>4 DEF R
  <2>5. TypeOK'
    BY <1>1, <1>9, <1>13, <2>4 DEF TypeOK, core, events
  <2>6. Paid(c)'
    BY <1>1, <1>10, <2>2, <2>4 DEF Local, Paid
  <2>7. Calm(c)'
    <3>. SUFFICES ASSUME c \notin pipelining \cup called PROVE Calm(c)'
      BY <1>1 DEF Calm, events
    <3>1. client[c].due <= 1 /\ queue[c] = << >> /\ posted[c] = << >>
      BY <1>1 DEF Local, Calm
    <3>2. client'[c].due <= 1
      BY <1>5, <1>10, <1>11, <2>1, <2>2, <2>4, <3>1
    <3>3. \/ kernel'[c] = << >> /\ client'[c].within = "none"
          \/ kernel'[c] = <<Piece("answer", 2)>> /\ client'[c].within = "answer"
      BY <1>1, <1>7, <1>9, <2>4 DEF within
    <3>. QED BY <1>1, <3>1, <3>2, <3>3 DEF Calm
  <2>8. Local(c)'
    BY <1>1, <1>13, <2>4, <2>6, <2>7 DEF Local, Ordered, events
  <2>9. ASSUME NEW d \in Conn \ {c} PROVE Local(d)'
    BY <1>1, <1>9, <1>13, <2>4, <2>9, ElsewhereKept DEF IInv, events
  <2>. QED BY <1>1, <1>12, <2>5, <2>8, <2>9, StillUp
<1>14. CASE /\ client' = client /\ mangled' = mangled \cup {c}
            /\ c \in mangled \/ ~fits \/ (chunk.late /\ chunk.kind # "hello")
  <2>1. c \in pipelining \cup called
    BY <1>1, <1>7, <1>14 DEF Local
  <2>2. TypeOK'
    BY <1>1, <1>9, <1>14 DEF TypeOK, core, events
  <2>3. Paid(c)'
    <3>1. Unserved(c)' + Underway(c)' <= client[c].due
      BY <1>10, <1>11
    <3>. QED BY <1>1, <1>14, <3>1 DEF Local, Paid
  <2>4. Local(c)'
    BY <1>1, <1>14, <2>1, <2>3 DEF Local, Ordered, Calm, events
  <2>5. ASSUME NEW d \in Conn \ {c} PROVE Local(d)'
    BY <1>1, <1>9, <1>14, <2>5, ElsewhereKept DEF IInv, events
  <2>. QED BY <1>1, <1>12, <2>2, <2>4, <2>5, StillUp
<1>. QED
  BY <1>2, <1>13, <1>14

-----------------------------------------------------------------------------
LEMMA InitIInv == Init => IInv
<1>. SUFFICES ASSUME Init PROVE IInv
  OBVIOUS
<1>1. TypeOK
  <2>1. \A T : [c \in Conn |-> << >>] \in [Conn -> Seq(T)]
    OBVIOUS
  <2>2. /\ inbox \in [Conn -> Seq(Openings \cup Requests)]
        /\ kernel \in [Conn -> Seq(Chunk)]
        /\ queue \in [Conn -> Seq(Write)] /\ posted \in [Conn -> Seq(Write)]
    BY <2>1 DEF Init
  <2>3. \A c \in Conn : Len(kernel[c]) <= Capacity
    <3>1. \A c \in Conn : Len(kernel[c]) = 0
      BY DEF Init
    <3>. QED BY <3>1, ConnectionAssumption
  <2>4. /\ client \in [Conn -> [sent : Nat, due : Nat, within : {"none", "answer", "event"}]]
        /\ \A c \in Conn : client[c].sent <= MaxSent[c]
    BY ConnectionAssumption DEF Init
  <2>. QED BY <2>2, <2>3, <2>4 DEF Init, TypeOK, Phases, Ends
<1>2. ASSUME NEW c \in Conn PROVE Local(c)
  <2>1. /\ phase[c] = "offline" /\ peer[c] = "here" /\ inbox[c] = << >> /\ kernel[c] = << >>
        /\ queue[c] = << >> /\ posted[c] = << >>
        /\ client[c].sent = 0 /\ client[c].due = 0 /\ client[c].within = "none"
        /\ mangled = {}
    BY DEF Init
  <2>2. Unserved(c) = 0 /\ Underway(c) = 0
    BY <2>1, CountEmpty DEF Unserved, Underway
  <2>. QED BY <2>1, <2>2 DEF Local, Ordered, Paid, Calm
<1>3. Hearing
  BY ConnectionAssumption DEF Init, Hearing
<1>. QED
  BY <1>1, <1>2, <1>3 DEF Init, IInv, WriteErrorsNeedHaste, FreedSocketNeedsHangUp

LEMMA NextIInv == IInv /\ [Next]_vars => IInv'
<1>. SUFFICES ASSUME IInv, [Next]_vars PROVE IInv'
  OBVIOUS
<1>1. CASE DtmfEvent
  BY <1>1, DtmfEventKeeps
<1>2. ASSUME NEW c \in Conn, Asio(c) PROVE IInv'
  BY <1>2, AcceptKeeps, ReadHandshakeKeeps, ServeKeeps, ServeMalformedKeeps, ProcErrorKeeps,
     ReactorKeeps, ContinueKeeps, WriteFailsKeeps DEF Asio
<1>3. ASSUME NEW c \in Conn, AcceptFails(c) PROVE IInv'
  BY <1>3, AcceptFailsKeeps
<1>4. ASSUME NEW c \in Conn, Client(c) PROVE IInv'
  BY <1>4, ConnectKeeps, ClientReadKeeps, HangUpKeeps, ResetKeeps, ClientSendKeeps DEF Client
<1>5. CASE UNCHANGED vars
  BY <1>5 DEF IInv, TypeOK, Local, Ordered, Paid, Calm, Hearing, Up, Unserved, Underway,
     WriteErrorsNeedHaste, FreedSocketNeedsHangUp, vars, network, writes, core, clients, events
<1>. QED
  BY <1>1, <1>2, <1>3, <1>4, <1>5 DEF Next

\* The inductive invariant: what the connections of TcpListener, HmpServer and
\* bus_callback keep between any two handlers, and what the five below rest on.
THEOREM SpecIInv == Spec => []IInv
  BY InitIInv, NextIInv, PTL DEF Spec

\* Every connection, the network and the clients hold what they may hold, for any
\* number of clients and any capacity of two chunks or more; what a client is due
\* never falls below zero (src/ms_hmp_server.hpp, async_read_length to proc).
THEOREM Typed == Spec => []TypeOK
  BY SpecIInv, PTL DEF IInv

\* Each request is answered once, whatever the kernel takes of a write at a time
\* and whichever events are written in between (SendResponse of proc).
THEOREM AnsweredOnce == Spec => []OneAnswerPerRequest
<1>1. IInv => OneAnswerPerRequest
  BY DEF IInv, Local, Paid, OneAnswerPerRequest
<1>. QED
  BY <1>1, SpecIInv, PTL

\* The throw in the handler of a write ends the process only after a client left
\* before it had read its answers (read_handshake_done, SendResponse of proc).
THEOREM HasteKills == Spec => []WriteErrorsNeedHaste
  BY SpecIInv, PTL DEF IInv

\* A client that waits for its answer, and is sent no event, reads it whole: its
\* writes never wait, so no buffer that proc has left is read.
THEOREM ReadsWhole == Spec => []WaitingClientsReadWhole
<1>1. IInv => WaitingClientsReadWhole
  BY DEF IInv, TypeOK, Local, WaitingClientsReadWhole
<1>. QED
  BY <1>1, SpecIInv, PTL

\* bus_callback uses a socket that is gone only after the client that configured
\* the tool hung up, in one of the three ways FreedSocketNeedsHangUp names.
THEOREM FreedAfterHangUp == Spec => []FreedSocketNeedsHangUp
  BY SpecIInv, PTL DEF IInv

-----------------------------------------------------------------------------
\* No connection waits for another.

\* A client that has not connected yet has had no part in anything.
Absent(c) ==
  phase[c] = "offline" =>
    /\ peer[c] = "here" /\ c \notin configured
    /\ inbox[c] = << >> /\ kernel[c] = << >> /\ queue[c] = << >> /\ posted[c] = << >>

\* One of Accept, ReadHandshake, Serve, ServeMalformed, ClientRead, Reactor and
\* Continue has something to do for c: these are the conditions they test.
Ready(c) ==
  \/ phase[c] = "backlog"
  \/ phase[c] \in {"handshake", "request"} /\ inbox[c] # << >>
  \/ kernel[c] # << >>
  \/ phase[c] # "closed" /\ queue[c] # << >> /\ Room(c) > 0
  \/ phase[c] # "closed" /\ posted[c] # << >>

\* As long as a client waits for an answer there is something its connection, or
\* the client by reading on, can do next: no write waits for room that only
\* another write could make, and no request lies unread with nobody to read it.
NobodyWaitsInVain ==
  \A c \in Conn : Up /\ peer[c] = "here" /\ c \notin mangled /\ client[c].due > 0 => Ready(c)

\* A step of a client that has connected leaves the others as they are.
LEMMA AbsentKept ==
  ASSUME \A d \in Conn : Absent(d), NEW c \in Conn, phase'[c] # "offline",
         \A d \in Conn \ {c} :
           /\ phase'[d] = phase[d] /\ peer'[d] = peer[d] /\ inbox'[d] = inbox[d]
           /\ kernel'[d] = kernel[d] /\ queue'[d] = queue[d] /\ posted'[d] = posted[d]
           /\ d \in configured' => d \in configured
  PROVE  \A d \in Conn : Absent(d)'
  BY DEF Absent

LEMMA AsioAbsent ==
  ASSUME IInv, \A d \in Conn : Absent(d), NEW c \in Conn, Asio(c) \/ AcceptFails(c)
  PROVE  \A d \in Conn : Absent(d)'
<1>. USE DEF network, writes, core, clients, events
<1>1. CASE Accept(c)
  BY <1>1, AbsentKept DEF Accept, IInv, TypeOK
<1>2. ASSUME NEW kind \in {"hello", "answer"}, Send(c, kind),
             \A d \in Conn \ {c} : inbox'[d] = inbox[d],
             phase' = [phase EXCEPT ![c] = "request"] \/ phase' = phase, phase[c] # "offline",
             configured' \subseteq configured \cup {c}
      PROVE  \A d \in Conn : Absent(d)'
  <2>1. \A d \in Conn \ {c} : /\ kernel'[d] = kernel[d] /\ peer'[d] = peer[d]
                              /\ queue'[d] = queue[d] /\ posted'[d] = posted[d]
    BY <1>2, SendWorks, Sizes DEF IInv
  <2>2. phase'[c] # "offline" /\ \A d \in Conn \ {c} : phase'[d] = phase[d]
    BY <1>2 DEF IInv, TypeOK
  <2>. QED BY <1>2, <2>1, <2>2, AbsentKept
<1>3. CASE ReadHandshake(c)
  <2>1. /\ Reads(c, "handshake") /\ phase[c] = "handshake" /\ configured' = configured
        /\ phase' = [phase EXCEPT ![c] = "request"]
        /\ \A d \in Conn \ {c} : inbox'[d] = inbox[d]
    BY <1>3, ReadWorks DEF ReadHandshake, Reads, IInv
  <2>2. CASE Head(inbox[c]) = "surfapi"
    BY <1>2, <1>3, <2>1, <2>2 DEF ReadHandshake
  <2>3. CASE Head(inbox[c]) # "surfapi"
    <3>1. UNCHANGED <<peer, kernel, queue, posted>>
      BY <1>3, <2>3 DEF ReadHandshake
    <3>2. phase'[c] # "offline" /\ \A d \in Conn \ {c} : phase'[d] = phase[d]
      BY <2>1 DEF IInv, TypeOK
    <3>. QED BY <2>1, <3>1, <3>2, AbsentKept
  <2>. QED BY <2>2, <2>3
<1>4. CASE Serve(c)
  <2>1. /\ Reads(c, "request") /\ phase[c] = "request" /\ phase' = phase /\ Send(c, "answer")
        /\ Head(inbox[c]) # "malformed"
    BY <1>4 DEF Serve, Reads
  <2>2. \A d \in Conn \ {c} : inbox'[d] = inbox[d]
    BY <2>1, ReadWorks DEF IInv
  <2>3. Head(inbox[c]) \in {"config", "remove", "other"}
    <3>1. inbox[c] \in Seq(Requests) /\ inbox[c] # << >>
      BY <2>1 DEF IInv, Local, Ordered, Reads
    <3>2. Head(inbox[c]) \in Requests
      BY <3>1
    <3>. QED BY <2>1, <3>2 DEF Requests
  <2>4. configured' \subseteq configured \cup {c}
    BY <1>4, <2>3 DEF Serve, Configure
  <2>. QED BY <1>2, <2>1, <2>2, <2>4
<1>5. CASE AcceptFails(c) \/ ServeMalformed(c) \/ WriteFails(c)
  <2>1. phase' = [d \in Conn |-> "closed"]
    BY <1>5 DEF AcceptFails, ServeMalformed, WriteFails, Die
  <2>. QED BY <2>1 DEF Absent
<1>6. CASE ProcError(c)
  <2>1. \A d \in Conn \ {c} : queue'[d] = queue[d] /\ posted'[d] = posted[d]
    BY <1>6, DropWorks DEF IInv, ProcError
  <2>. QED BY <1>6, <2>1, AbsentKept DEF ProcError, IInv, TypeOK
<1>7. CASE Reactor(c)
  <2>. DEFINE w == Head(queue[c])
              n == Smaller(Room(c), w.left)
  <2>1. /\ queue[c] # << >> /\ Transfer(c, w, n, TRUE)
        /\ UNCHANGED <<phase, inbox, core, death, clients, events>>
        /\ \E q : queue' = [queue EXCEPT ![c] = q]
        /\ posted' = posted \/ \E q : posted' = [posted EXCEPT ![c] = q]
    BY <1>7 DEF Reactor
  <2>2. \A d \in Conn \ {c} : queue'[d] = queue[d] /\ posted'[d] = posted[d]
    BY <2>1 DEF IInv, TypeOK
  <2>3. \A d \in Conn \ {c} : kernel'[d] = kernel[d] /\ peer'[d] = peer[d]
    BY <2>1 DEF Transfer, IInv, TypeOK
  <2>4. phase'[c] # "offline"
    BY <2>1 DEF Absent
  <2>. QED BY <2>1, <2>2, <2>3, <2>4, AbsentKept
<1>8. CASE Continue(c)
  <2>1. /\ posted[c] # << >> /\ Submit(c, Head(posted[c]), Tail(posted[c]), TRUE)
        /\ UNCHANGED <<phase, inbox, core, death, clients, events>>
    BY <1>8 DEF Continue
  <2>2. posted[c] \in Seq(Write) /\ Head(posted[c]) \in Write /\ Tail(posted[c]) \in Seq(Write)
    BY <2>1 DEF IInv, TypeOK
  <2>3. \A d \in Conn \ {c} : /\ kernel'[d] = kernel[d] /\ peer'[d] = peer[d]
                              /\ queue'[d] = queue[d] /\ posted'[d] = posted[d]
    BY <2>1, <2>2, SubmitWorks DEF IInv
  <2>4. phase'[c] # "offline"
    BY <2>1 DEF Absent
  <2>. QED BY <2>1, <2>3, <2>4, AbsentKept
<1>. QED
  BY <1>1, <1>3, <1>4, <1>5, <1>6, <1>7, <1>8 DEF Asio

LEMMA ClientAbsent ==
  ASSUME IInv, \A d \in Conn : Absent(d), NEW c \in Conn, Client(c)
  PROVE  \A d \in Conn : Absent(d)'
<1>. USE DEF network, writes, core, clients, events
<1>1. CASE Connect(c)
  BY <1>1, AbsentKept DEF Connect, IInv, TypeOK
<1>2. CASE ClientRead(c)
  <2>1. /\ phase[c] # "offline" /\ kernel' = [kernel EXCEPT ![c] = Tail(@)]
        /\ UNCHANGED <<phase, peer, inbox, queue, posted, configured>>
    BY <1>2 DEF ClientRead, Absent
  <2>. QED BY <2>1, AbsentKept
<1>3. CASE HangUp(c)
  BY <1>3, AbsentKept DEF HangUp, IInv, TypeOK
<1>4. CASE Reset(c)
  <2>1. \A d \in Conn \ {c} : queue'[d] = queue[d] /\ posted'[d] = posted[d]
    BY <1>4, DropWorks DEF IInv, Reset
  <2>2. phase[c] # "offline"
    BY <1>4 DEF Reset, Absent
  <2>. QED BY <1>4, <2>1, <2>2, AbsentKept DEF Reset, IInv, TypeOK
<1>5. ASSUME NEW message, ClientSend(c, message) PROVE \A d \in Conn : Absent(d)'
  BY <1>5, AbsentKept DEF ClientSend
<1>. QED
  BY <1>1, <1>2, <1>3, <1>4, <1>5 DEF Client

LEMMA EventAbsent ==
  ASSUME IInv, \A d \in Conn : Absent(d), DtmfEvent
  PROVE  \A d \in Conn : Absent(d)'
<1>1. PICK c \in Conn : c = sock
  BY DEF IInv, Hearing, DtmfEvent
<1>2. c \in configured /\ phase[c] # "offline"
  BY <1>1 DEF IInv, Hearing, DtmfEvent, Absent
<1>3. CASE Destroyed(c)
  BY <1>1, <1>3 DEF DtmfEvent, Die, Absent
<1>4. CASE ~Destroyed(c) /\ (phase[c] = "closed" \/ peer[c] = "reset")
  BY <1>1, <1>4 DEF DtmfEvent, Absent, writes
<1>5. CASE ~Destroyed(c) /\ ~(phase[c] = "closed" \/ peer[c] = "reset")
  <2>1. Send(c, "event") /\ UNCHANGED <<phase, inbox, configured>>
    BY <1>1, <1>5 DEF DtmfEvent
  <2>2. \A d \in Conn \ {c} : /\ kernel'[d] = kernel[d] /\ peer'[d] = peer[d]
                              /\ queue'[d] = queue[d] /\ posted'[d] = posted[d]
    BY <2>1, SendWorks, Sizes DEF IInv
  <2>. QED BY <1>2, <2>1, <2>2, AbsentKept
<1>. QED
  BY <1>3, <1>4, <1>5

\* Waiting, a client has a request unread or an answer under way, and either is
\* somewhere: the kernel, if nothing else is there, has room for what waits.
LEMMA ReadyWhenDue == IInv /\ (\A c \in Conn : Absent(c)) => NobodyWaitsInVain
<1>. SUFFICES ASSUME IInv, NEW c \in Conn, Absent(c), Up, peer[c] = "here", c \notin mangled,
                     client[c].due > 0, ~Ready(c)
              PROVE  FALSE
  BY DEF NobodyWaitsInVain
<1>1. client[c].due = Unserved(c) + Underway(c)
  BY DEF IInv, Local, Paid
<1>2. phase[c] \in Phases \ {"closed", "backlog"}
  BY DEF IInv, TypeOK, Local, Paid, Ready
<1>3. kernel[c] = << >> /\ inbox[c] = << >>
  BY <1>2 DEF Ready, Absent, Phases
<1>4. Room(c) > 0
  BY <1>3, ConnectionAssumption DEF Room
<1>5. queue[c] = << >> /\ posted[c] = << >>
  BY <1>2, <1>4 DEF Ready
<1>6. Unserved(c) = 0 /\ Underway(c) = 0
  BY <1>3, <1>5, CountEmpty DEF Unserved, Underway
<1>. QED
  BY <1>1, <1>6

\* No client ever waits for an answer on a server that rests, whatever clients and
\* events fill the kernel's buffers and asio's queues with: what AnswersArrive
\* needs besides fairness (async_write, async_read_length to proc).
THEOREM NobodyWaits == Spec => []NobodyWaitsInVain
<1>1. Init => \A c \in Conn : Absent(c)
  BY DEF Init, Absent
<1>2. IInv /\ (\A c \in Conn : Absent(c)) /\ [Next]_vars => (\A c \in Conn : Absent(c))'
  <2>. SUFFICES ASSUME IInv, \A c \in Conn : Absent(c), [Next]_vars
                PROVE  \A c \in Conn : Absent(c)'
    OBVIOUS
  <2>1. CASE UNCHANGED vars
    BY <2>1 DEF Absent, vars, network, writes, events
  <2>. QED
    BY <2>1, EventAbsent, AsioAbsent, ClientAbsent DEF Next
<1>. QED
  BY <1>1, <1>2, SpecIInv, ReadyWhenDue, PTL DEF Spec

=============================================================================
