---------------------------- MODULE CoFifoProofs ----------------------------
(***************************************************************************)
(* The circular buffer implements the bounded queue, for every size of the *)
(* buffer, every text that is written and every count that is asked for.   *)
(*                                                                         *)
(* A pointer of the buffer is k steps from readPtr, and the character it   *)
(* points to is number k + 1 of the queue.  The lemmas about the ring say  *)
(* so once; all loops are then followed in positions of the queue.         *)
(***************************************************************************)
EXTENDS CoFifo, SequenceTheorems, LoopProofs, TLAPS

-----------------------------------------------------------------------------
(* The ring *)

\* Steps along the ring.
LEMMA Ring ==
    ASSUME NEW p \in Place, NEW k \in Place
    PROVE  /\ place(p, k) \in Place /\ place(p, 0) = p /\ next(p) \in Place
           /\ between(p, place(p, k)) = k
           /\ k + 1 < bufSize => next(place(p, k)) = place(p, k + 1)
  BY SizeAssumption DEF Place, place, next, between

\* The distance of two places.
LEMMA Distance ==
    ASSUME NEW p \in Place, NEW e \in Place
    PROVE  /\ between(p, e) \in Place /\ place(p, between(p, e)) = e
           /\ between(p, e) = 0 <=> p = e
  BY SizeAssumption DEF Place, place, between

\* The distance of two places on the way.
LEMMA Apart ==
    ASSUME NEW p \in Place, NEW j \in Place, NEW k \in Place, j <= k
    PROVE  between(place(p, j), place(p, k)) = k - j
  BY SizeAssumption DEF Place, place, between

\* Steps after steps.
LEMMA Further ==
    ASSUME NEW p \in Place, NEW j \in Place, NEW k \in Place, j <= k
    PROVE  /\ place(place(p, j), k - j) = place(p, k)
           /\ place(p, j) = place(p, k) => j = k
  BY SizeAssumption DEF Place, place, between

\* The next place's way to a place is one step shorter.
LEMMA NextPlace ==
    ASSUME NEW p \in Place, NEW k \in Place, k # 0
    PROVE  place(next(p), k - 1) = place(p, k)
  BY SizeAssumption DEF Place, place, next

\* A part of the buffer is a sequence of characters.
LEMMA WalkedSeq ==
    ASSUME NEW f \in CO_fifo_t, NEW p \in Place, NEW e \in Place
    PROVE  /\ walked(f, p, e) \in Seq(Char) /\ Len(walked(f, p, e)) = between(p, e)
           /\ \A i \in 1..between(p, e) : walked(f, p, e)[i] = f.buf[place(p, i - 1)]
  <1> DEFINE n == between(p, e)
             s == walked(f, p, e)
  <1>1. n \in Nat /\ n \in Place
    BY Distance, SizeAssumption DEF Place
  <1>2. ASSUME NEW i \in 1..n
        PROVE  f.buf[place(p, i - 1)] \in Char
    <2>1. i - 1 \in Place
      BY <1>1, SizeAssumption DEF Place
    <2>2. place(p, i - 1) \in Place
      BY <2>1, Ring
    <2> QED  BY <2>2 DEF CO_fifo_t
  <1>3. s = [i \in 1..n |-> f.buf[place(p, i - 1)]]
    BY DEF walked
  <1> HIDE DEF s, n
  <1>4. s \in [1..n -> Char]
    BY <1>2, <1>3
  <1>5. s \in Seq(Char) /\ Len(s) = n
    BY <1>1, <1>4
  <1> QED  BY <1>3, <1>5 DEF s, n

\* What the buffer holds.
LEMMA Contents ==
    ASSUME NEW f \in CO_fifo_t
    PROVE  /\ contents(f) \in Seq(Char)
           /\ Len(contents(f)) = between(f.readPtr, f.writePtr)
           /\ Len(contents(f)) \in Place
           /\ place(f.readPtr, Len(contents(f))) = f.writePtr
           /\ \A i \in 1..Len(contents(f)) : contents(f)[i] = f.buf[place(f.readPtr, i - 1)]
  <1>1. f.readPtr \in Place /\ f.writePtr \in Place
    BY DEF CO_fifo_t
  <1>2. between(f.readPtr, f.writePtr) \in Place
        /\ place(f.readPtr, between(f.readPtr, f.writePtr)) = f.writePtr
    BY <1>1, Distance
  <1>3. /\ contents(f) \in Seq(Char) /\ Len(contents(f)) = between(f.readPtr, f.writePtr)
        /\ \A i \in 1..between(f.readPtr, f.writePtr) : contents(f)[i] = f.buf[place(f.readPtr, i - 1)]
    BY <1>1, WalkedSeq DEF contents
  <1> QED  BY <1>2, <1>3

\* A part of what it holds.
LEMMA Part ==
    ASSUME NEW f \in CO_fifo_t, NEW j \in Nat, NEW k \in Nat, j <= k, k <= Len(contents(f))
    PROVE  /\ walked(f, place(f.readPtr, j), place(f.readPtr, k)) = SubSeq(contents(f), j + 1, k)
           /\ between(place(f.readPtr, j), place(f.readPtr, k)) = k - j
  <1> DEFINE q == contents(f)
             r == f.readPtr
             s == walked(f, place(r, j), place(r, k))
             t == SubSeq(q, j + 1, k)
  <1>0. r \in Place
    BY DEF CO_fifo_t
  <1>1. r \in Place /\ q \in Seq(Char) /\ Len(q) \in Place
        /\ \A i \in 1..Len(q) : q[i] = f.buf[place(r, i - 1)]
    BY <1>0, Contents
  <1>2. j \in Place /\ k \in Place /\ Len(q) \in Nat
    BY <1>1, SizeAssumption DEF Place
  <1>3. place(r, j) \in Place /\ place(r, k) \in Place /\ between(place(r, j), place(r, k)) = k - j
    <2>1. place(r, j) \in Place /\ place(r, k) \in Place
      BY <1>0, <1>2, Ring
    <2>2. between(place(r, j), place(r, k)) = k - j
      <3> HIDE DEF r, q
      <3> QED  BY <1>0, <1>2, Apart
    <2> QED  BY <2>1, <2>2
  <1>4. s \in Seq(Char) /\ Len(s) = k - j /\ \A i \in 1..(k - j) : s[i] = f.buf[place(place(r, j), i - 1)]
    BY <1>3, WalkedSeq
  <1>5. /\ t \in Seq(Char) /\ Len(t) = k - j
        /\ \A i \in 1..(k - j) : t[i] = q[j + i]
    <2>1. \A i \in (j + 1)..k : q[i] \in Char
      BY <1>1, <1>2, ElementOfSeq
    <2>2. /\ t \in Seq(Char) /\ Len(t) = IF j + 1 <= k THEN k - (j + 1) + 1 ELSE 0
          /\ \A i \in 1..(k - (j + 1) + 1) : t[i] = q[(j + 1) + i - 1]
      BY <2>1, SubSeqProperties, j + 1 \in Int, k \in Int
    <2> QED  BY <2>2
  <1> HIDE DEF s, t, q, r
  <1>6. ASSUME NEW i \in 1..Len(s)
        PROVE  s[i] = t[i]
    <2>0. k <= Len(q) /\ Len(q) < bufSize
      BY <1>1, SizeAssumption DEF Place, q
    <2>1. i \in 1..(k - j) /\ j + i \in 1..Len(q) /\ j + i - 1 \in Place /\ j <= j + i - 1
          /\ (j + i - 1) - j = i - 1
      BY <1>2, <1>4, <2>0, SizeAssumption DEF Place
    <2>2. place(place(r, j), i - 1) = place(r, j + i - 1)
      BY <1>1, <1>2, <2>1, Further
    <2>3. s[i] = f.buf[place(r, j + i - 1)] /\ t[i] = q[j + i]
      BY <1>4, <1>5, <2>1, <2>2
    <2> QED  BY <1>1, <2>1, <2>3
  <1>7. s = t
    BY <1>4, <1>5, <1>6, SeqEqual
  <1> QED  BY <1>3, <1>7 DEF s, t, q, r

\* Taking k characters.
Taken(f, k) == [f EXCEPT !.readPtr = place(f.readPtr, k)]

\* What is left of the data then.
LEMMA TakenRest ==
    ASSUME NEW f \in CO_fifo_t, NEW k \in Nat, k <= Len(contents(f))
    PROVE  /\ Taken(f, k) \in CO_fifo_t
           /\ contents(Taken(f, k)) = SubSeq(contents(f), k + 1, Len(contents(f)))
           /\ Taken(f, k).readPtr = place(f.readPtr, k)
           /\ Taken(f, k).writePtr = f.writePtr /\ Taken(f, k).buf = f.buf
           /\ Taken(f, k).altReadPtr = f.altReadPtr
  <1> DEFINE g == Taken(f, k)
             p == place(f.readPtr, k)
             n == Len(contents(f))
  <1>0. f.readPtr \in Place
    BY DEF CO_fifo_t
  <1>1. f.readPtr \in Place /\ n \in Place /\ place(f.readPtr, n) = f.writePtr
    BY <1>0, Contents
  <1>2. k \in Place /\ p \in Place /\ n \in Nat /\ k <= n /\ n <= n
    <2>1. k \in Place /\ n \in Nat /\ n <= n
      BY <1>1, SizeAssumption DEF Place
    <2> QED  BY <1>0, <2>1, Ring
  <1>3. g = [f EXCEPT !.readPtr = p]
    BY DEF Taken
  <1> HIDE DEF g, p
  <1>4. g \in CO_fifo_t /\ g.readPtr = p /\ g.writePtr = f.writePtr /\ g.buf = f.buf /\ g.altReadPtr = f.altReadPtr
    BY <1>2, <1>3 DEF CO_fifo_t
  <1>5. walked(g, p, f.writePtr) = walked(f, p, f.writePtr)
    BY <1>4 DEF walked
  <1>6. walked(f, p, place(f.readPtr, n)) = SubSeq(contents(f), k + 1, n)
    BY <1>2, Part, Zenon DEF p
  <1>7. contents(g) = SubSeq(contents(f), k + 1, n)
    BY <1>1, <1>4, <1>5, <1>6 DEF contents
  <1> QED  BY <1>4, <1>7 DEF g, p, n
-----------------------------------------------------------------------------
(* Least numbers *)

atMost(a, b) == IF a <= b THEN a ELSE b

\* A set of natural numbers has a least one.
LEMMA Least ==
    ASSUME NEW S \in SUBSET Nat, S # {}
    PROVE  LET m == CHOOSE x \in S : \A y \in S : x =< y
           IN  m \in S /\ \A z \in S : m =< z
  <1> DEFINE Less == OpToRel(<, Nat)
             m    == CHOOSE x \in S : \A y \in S : x =< y
  <1>1. IsWellFoundedOn(Less, Nat)
    BY NatLessThanWellFounded
  <1>2. \E x \in S : \A y \in S : ~ (<<y, x>> \in Less)
    <2> HIDE DEF Less
    <2> QED  BY <1>1, WFMin
  <1>3. PICK x \in S : \A y \in S : ~ (<<y, x>> \in Less)
    BY <1>2
  <1>4. \A y \in S : x =< y
    <2> SUFFICES ASSUME NEW y \in S, y < x
                 PROVE  FALSE
      OBVIOUS
    <2>1. x \in Nat /\ y \in Nat
      OBVIOUS
    <2>2. <<y, x>> \in Less
      BY <2>1 DEF OpToRel
    <2> QED  BY <1>3, <2>2
  <1>5. m \in S /\ \A y \in S : m =< y
    <2>1. \E t \in S : \A y \in S : t =< y
      BY <1>4, Zenon
    <2> QED  BY <2>1, Zenon
  <1> QED  BY <1>5

\* The smaller of two numbers.
LEMMA LeastOfTwo ==
    ASSUME NEW a \in Nat, NEW b \in Nat
    PROVE  Q!Min({a, b}) = atMost(a, b)
  <1> DEFINE S == {a, b}
             m == CHOOSE x \in S : \A y \in S : x =< y
  <1>1. m \in S /\ \A y \in S : m =< y
    BY Least
  <1>2. Q!Min(S) = m
    BY DEF Q!Min
  <1> HIDE DEF m
  <1> QED  BY <1>1, <1>2 DEF atMost

\* x is the first position from i on whose character is in S, or 0.
IsFirst(s, S, i, x) ==
    \/ x = 0 /\ \A j \in i..Len(s) : s[j] \notin S
    \/ x \in i..Len(s) /\ s[x] \in S /\ \A j \in i..(x - 1) : s[j] \notin S

\* What the search of the queue finds.
LEMMA FirstFound ==
    ASSUME NEW S, NEW i \in Nat, fifo \in CO_fifo_t
    PROVE  IsFirst(contents(fifo), S, i, Q!First(S, i))
  <1> DEFINE q  == contents(fifo)
             at == {j \in i..Len(q) : q[j] \in S}
             m  == CHOOSE x \in at : \A y \in at : x =< y
  <1>1. Len(q) \in Nat
    BY Contents, SizeAssumption DEF Place
  <1>2. Q!First(S, i) = IF at = {} THEN 0 ELSE m
    BY DEF Q!First, Q!Min
  <1>3. at \in SUBSET Nat
    BY <1>1
  <1>4. at # {} => m \in at /\ \A y \in at : m =< y
    <2> HIDE DEF at
    <2> QED  BY <1>3, Least
  <1> HIDE DEF m
  <1>5. CASE at = {}
    <2>1. \A j \in i..Len(q) : q[j] \notin S
      BY <1>5
    <2> QED  BY <1>2, <1>5, <2>1 DEF IsFirst
  <1>6. CASE at # {}
    <2>1. m \in i..Len(q) /\ q[m] \in S
      BY <1>4, <1>6
    <2>2. ASSUME NEW j \in i..(m - 1)
          PROVE  q[j] \notin S
      <3>1. j \in i..Len(q) /\ ~ (m =< j)
        BY <1>1, <2>1
      <3>2. j \notin at
        BY <1>4, <1>6, <3>1
      <3> QED  BY <3>1, <3>2
    <2> HIDE DEF at
    <2> QED  BY <1>2, <1>6, <2>1, <2>2 DEF IsFirst
  <1> QED  BY <1>5, <1>6

-----------------------------------------------------------------------------
(* Walking on *)

\* A pointer k steps from readPtr, and one step more.
LEMMA Step ==
    ASSUME NEW f \in CO_fifo_t, NEW k \in Nat, k <= Len(contents(f))
    PROVE  /\ place(f.readPtr, k) \in Place
           /\ place(f.readPtr, k) = f.writePtr <=> k = Len(contents(f))
           /\ k < Len(contents(f)) =>
                /\ next(place(f.readPtr, k)) = place(f.readPtr, k + 1)
                /\ f.buf[place(f.readPtr, k)] = contents(f)[k + 1]
                /\ contents(f)[k + 1] \in Char
  <1> DEFINE n == Len(contents(f))
             r == f.readPtr
  <1>0. r \in Place
    BY DEF CO_fifo_t
  <1>1. /\ contents(f) \in Seq(Char) /\ n \in Place /\ place(r, n) = f.writePtr
        /\ \A i \in 1..n : contents(f)[i] = f.buf[place(r, i - 1)]
    BY Contents
  <1>2. k \in Place /\ n \in Nat /\ k <= n /\ (k < n => k + 1 < bufSize /\ k + 1 \in 1..n /\ (k + 1) - 1 = k)
    BY <1>1, SizeAssumption DEF Place
  <1> HIDE DEF r
  <1>3. place(r, k) \in Place /\ (k < n => next(place(r, k)) = place(r, k + 1))
    BY <1>0, <1>2, Ring
  <1>4. place(r, k) = place(r, n) => k = n
    BY <1>0, <1>1, <1>2, Further, Zenon
  <1>5. k < n => /\ f.buf[place(r, k)] = contents(f)[k + 1]
                 /\ contents(f)[k + 1] \in Char
    BY <1>1, <1>2, ElementOfSeq
  <1> QED  BY <1>1, <1>3, <1>4, <1>5 DEF r

\* CO_fifo_altBegin and CO_fifo_altRead: n steps from the j-th place on, or as
\* far as there is data.
LEMMA ForwardTo ==
    ASSUME NEW f \in CO_fifo_t, NEW j \in Nat, j <= Len(contents(f)), NEW n \in Nat
    PROVE  forward(f, place(f.readPtr, j), n) = place(f.readPtr, atMost(j + n, Len(contents(f))))
  <1> DEFINE len     == Len(contents(f))
             at(i)   == place(f.readPtr, atMost(j + i, len))
             p       == place(f.readPtr, j)
             pass(h) == [i \in 0..n |-> IF i = 0 THEN p ELSE advance(f, h[i - 1])]
             run     == CHOOSE h : h = pass(h)
             g       == [i \in 0..n |-> at(i)]
  <1>0. len \in Nat
    BY Contents, SizeAssumption DEF Place
  <1>1. forward(f, p, n) = run[n]
    BY DEF forward
  <1>2. at(0) = p
    BY <1>0 DEF atMost
  <1>3. ASSUME NEW i \in 1..n
        PROVE  at(i) = advance(f, at(i - 1))
    <2> DEFINE k == atMost(j + (i - 1), len)
    <2>1. k \in Nat /\ k <= len /\ (k = len => atMost(j + i, len) = k) /\ (k # len => atMost(j + i, len) = k + 1 /\ k < len)
      BY <1>0 DEF atMost
    <2> HIDE DEF k
    <2>2. place(f.readPtr, k) = f.writePtr <=> k = len
      BY <2>1, Step
    <2>3. k # len => next(place(f.readPtr, k)) = place(f.readPtr, k + 1)
      BY <2>1, Step
    <2> QED  BY <2>1, <2>2, <2>3 DEF advance, k
  <1> HIDE DEF at, p
  <1>4. g = pass(g)
    BY <1>2, <1>3
  <1>5. run = pass(run)
    <2> HIDE DEF pass, g
    <2> QED  BY <1>4, Zenon
  <1> HIDE DEF run
  <1>6. run[0] = at(0) /\ \A i \in 1..n : run[i] = advance(f, run[i - 1])
    BY <1>2, <1>5
  <1> DEFINE Same == [i \in 0..n |-> {at(i)}]
  <1>7. \A i \in 0..n : run[i] \in Same[i]
    <2>1. run[0] \in Same[0]
      BY <1>6
    <2>2. \A i \in 1..n : run[i - 1] \in Same[i - 1] => run[i] \in Same[i]
      BY <1>3, <1>6
    <2> HIDE DEF Same
    <2> QED  BY <2>1, <2>2, LoopAssertions, Zenon
  <1>8. run[n] = at(n)
    BY <1>7
  <1> QED  BY <1>1, <1>8 DEF at, p
-----------------------------------------------------------------------------
(* Writing *)

\* x holds what f holds, and after that c.
Longer(x, f, c) ==
    /\ Len(contents(x)) = Len(contents(f)) + 1
    /\ \A i \in 1..Len(contents(f)) : contents(x)[i] = contents(f)[i]
    /\ contents(x)[Len(contents(f)) + 1] = c

\* The places of the characters when one is added: arithmetic of pointers.
LEMMA RoomAtEnd ==
    ASSUME NEW r \in Place, NEW w \in Place
    PROVE  LET n == between(r, w) IN
           /\ n = bufSize - 1 <=> next(w) = r
           /\ n = bufSize - 1 <=> ~(w + 1 # r /\ ~(w + 1 = bufSize /\ r = 0))
           /\ next(w) \in Place
           /\ n # bufSize - 1 => between(r, next(w)) = n + 1
           /\ n = bufSize - 1 => between(next(r), next(w)) = n
           /\ \A i \in 1..n : place(r, i - 1) # w
  BY SizeAssumption DEF Place, place, next, between

\* A character is written where there was none.
LEMMA Appended ==
    ASSUME NEW f \in CO_fifo_t, NEW c \in Char, Len(contents(f)) # bufSize - 1,
           NEW g \in CO_fifo_t, g.readPtr = f.readPtr, g.writePtr = next(f.writePtr),
           g.buf = [f.buf EXCEPT ![f.writePtr] = c]
    PROVE  Longer(g, f, c)
  <1> DEFINE n == Len(contents(f))
             r == f.readPtr
             w == f.writePtr
  <1>0. r \in Place /\ w \in Place /\ f.buf \in [Place -> Char]
    BY DEF CO_fifo_t
  <1>1. /\ n = between(r, w) /\ n \in Place /\ place(r, n) = w
        /\ \A i \in 1..n : contents(f)[i] = f.buf[place(r, i - 1)]
    BY Contents
  <1>2. /\ Len(contents(g)) = between(r, next(w))
        /\ \A i \in 1..Len(contents(g)) : contents(g)[i] = g.buf[place(r, i - 1)]
    BY Contents
  <1>3. between(r, next(w)) = n + 1 /\ \A i \in 1..n : place(r, i - 1) # w
    BY <1>0, <1>1, RoomAtEnd
  <1>4. n \in Nat /\ n + 1 \in 1..(n + 1) /\ (n + 1) - 1 = n
        /\ \A i \in 1..n : i \in 1..(n + 1) /\ i - 1 \in Place
    BY <1>1, SizeAssumption DEF Place
  <1>5. \A i \in 1..n : place(r, i - 1) \in Place
    BY <1>0, <1>4, Ring
  <1> HIDE DEF n, r, w
  <1>6. ASSUME NEW i \in 1..n
        PROVE  contents(g)[i] = contents(f)[i]
    <2>1. contents(g)[i] = g.buf[place(r, i - 1)] /\ contents(f)[i] = f.buf[place(r, i - 1)]
      BY <1>1, <1>2, <1>3, <1>4
    <2>2. g.buf[place(r, i - 1)] = f.buf[place(r, i - 1)]
      BY <1>0, <1>3, <1>5 DEF w
    <2> QED  BY <2>1, <2>2
  <1>7. contents(g)[n + 1] = c
    <2>1. contents(g)[n + 1] = g.buf[place(r, n)]
      BY <1>2, <1>3, <1>4
    <2> QED  BY <1>0, <1>1, <2>1 DEF w
  <1> QED  BY <1>2, <1>3, <1>6, <1>7 DEF Longer, n

\* CO_fifo_putc: the character is added unless the buffer is full.
LEMMA PutC ==
    ASSUME NEW f \in CO_fifo_t, NEW c \in Char
    PROVE  LET g == CO_fifo_putc(f, c) IN
           /\ g \in CO_fifo_t /\ g.readPtr = f.readPtr /\ g.altReadPtr = f.altReadPtr
           /\ Len(contents(f)) = bufSize - 1 => g = f
           /\ Len(contents(f)) # bufSize - 1 => Longer(g, f, c)
  <1> DEFINE g == CO_fifo_putc(f, c)
             b == [f.buf EXCEPT ![f.writePtr] = c]
             w == next(f.writePtr)
  <1>0. f.readPtr \in Place /\ f.writePtr \in Place /\ f.buf \in [Place -> Char]
    BY DEF CO_fifo_t
  <1>1. Len(contents(f)) = between(f.readPtr, f.writePtr)
    BY Contents
  <1>2. CASE Len(contents(f)) = bufSize - 1
    <2>1. g = f
      BY <1>0, <1>1, <1>2, RoomAtEnd DEF CO_fifo_putc
    <2> QED  BY <1>2, <2>1
  <1>3. CASE Len(contents(f)) # bufSize - 1
    <2>1. g = [f EXCEPT !.buf = b, !.writePtr = w]
      <3>1. f.writePtr + 1 # f.readPtr /\ ~(f.writePtr + 1 = bufSize /\ f.readPtr = 0)
        BY <1>0, <1>1, <1>3, RoomAtEnd
      <3> QED  BY <3>1 DEF CO_fifo_putc
    <2>2. b \in [Place -> Char] /\ w \in Place
      BY <1>0, Ring
    <2> HIDE DEF g, b, w
    <2>3. /\ g \in CO_fifo_t /\ g.readPtr = f.readPtr /\ g.altReadPtr = f.altReadPtr
          /\ g.buf = b /\ g.writePtr = w
      BY <2>1, <2>2 DEF CO_fifo_t
    <2>4. Longer(g, f, c)
      BY <1>3, <2>3, Appended DEF b, w
    <2> QED  BY <1>3, <2>3, <2>4 DEF g
  <1> QED  BY <1>2, <1>3

\* After m characters of s have been added to f.
Filled(f, s, m) ==
    {x \in CO_fifo_t : /\ x.readPtr = f.readPtr /\ x.altReadPtr = f.altReadPtr
                       /\ Len(contents(x)) = Len(contents(f)) + m
                       /\ \A i \in 1..Len(contents(f)) : contents(x)[i] = contents(f)[i]
                       /\ \A i \in 1..m : contents(x)[Len(contents(f)) + i] = s[i]}

\* One turn of the loop of CO_fifo_write.
LEMMA FilledStep ==
    ASSUME NEW f \in CO_fifo_t, NEW s \in Seq(Char), NEW i \in 1..Len(s),
           NEW x \in Filled(f, s, atMost(i - 1, bufSize - 1 - Len(contents(f))))
    PROVE  CO_fifo_putc(x, s[i]) \in Filled(f, s, atMost(i, bufSize - 1 - Len(contents(f))))
  <1> DEFINE n == Len(contents(f))
             m == atMost(i - 1, bufSize - 1 - n)
             g == CO_fifo_putc(x, s[i])
  <1>0. s[i] \in Char /\ n \in Nat /\ bufSize - 1 - n \in Nat /\ i \in Nat /\ x \in CO_fifo_t
    BY Contents, ElementOfSeq, LenProperties, SizeAssumption DEF Place, Filled
  <1>1. /\ g \in CO_fifo_t /\ g.readPtr = x.readPtr /\ g.altReadPtr = x.altReadPtr
        /\ Len(contents(x)) = bufSize - 1 => g = x
        /\ Len(contents(x)) # bufSize - 1 => Longer(g, x, s[i])
    BY <1>0, PutC
  <1>2. /\ x.readPtr = f.readPtr /\ x.altReadPtr = f.altReadPtr /\ Len(contents(x)) = n + m
        /\ \A k \in 1..n : contents(x)[k] = contents(f)[k]
        /\ \A k \in 1..m : contents(x)[n + k] = s[k]
    BY DEF Filled
  <1>3. m \in Nat
    BY <1>0 DEF atMost
  <1>4. CASE n + m = bufSize - 1
    <2>1. atMost(i, bufSize - 1 - n) = m
      BY <1>0, <1>4 DEF atMost
    <2>2. g = x
      BY <1>1, <1>2, <1>4
    <2> QED  BY <2>1, <2>2
  <1>5. CASE n + m # bufSize - 1
    <2>1. atMost(i, bufSize - 1 - n) = m + 1 /\ m + 1 = i
      BY <1>0, <1>5, SizeAssumption DEF atMost
    <2>2. /\ Len(contents(g)) = n + m + 1
          /\ \A k \in 1..(n + m) : contents(g)[k] = contents(x)[k]
          /\ contents(g)[n + m + 1] = s[i]
      BY <1>1, <1>2, <1>5 DEF Longer
    <2> HIDE DEF n, m, g
    <2>3. \A k \in 1..n : contents(g)[k] = contents(f)[k]
      BY <1>0, <1>2, <1>3, <2>2
    <2>4. ASSUME NEW k \in 1..(m + 1)
          PROVE  contents(g)[n + k] = s[k]
      <3>1. CASE k = m + 1
        BY <1>0, <1>3, <2>1, <2>2, <3>1
      <3>2. CASE k # m + 1
        BY <1>0, <1>2, <1>3, <2>2, <3>2
      <3> QED  BY <3>1, <3>2
    <2>5. g \in Filled(f, s, m + 1)
      BY <1>0, <1>1, <1>2, <1>3, <2>2, <2>3, <2>4 DEF Filled, n
    <2> QED  BY <2>1, <2>5 DEF g, n
  <1> QED  BY <1>4, <1>5

\* CO_fifo_write: as many characters as there is room for.
LEMMA Written ==
    ASSUME NEW f \in CO_fifo_t, NEW s \in Seq(Char)
    PROVE  LET g == CO_fifo_write(f, s)
               m == atMost(Len(s), bufSize - 1 - Len(contents(f)))
           IN  /\ g \in CO_fifo_t /\ g.readPtr = f.readPtr /\ g.altReadPtr = f.altReadPtr
               /\ m \in Nat /\ m <= Len(s) /\ bufSize - 1 - Len(contents(f)) \in Nat
               /\ contents(g) = contents(f) \o SubSeq(s, 1, m)
               /\ between(f.writePtr, g.writePtr) = m
  <1> DEFINE n       == Len(s)
             room    == bufSize - 1 - Len(contents(f))
             m       == atMost(n, room)
             g       == CO_fifo_write(f, s)
             pass(h) == [i \in 0..n |-> IF i = 0 THEN f ELSE CO_fifo_putc(h[i - 1], s[i])]
             run     == CHOOSE h : h = pass(h)
             step    == [i \in 1..n |-> [x \in CO_fifo_t |-> CO_fifo_putc(x, s[i])]]
             After   == [i \in 0..n |-> Filled(f, s, atMost(i, room))]
  <1>0. /\ n \in Nat /\ room \in Nat /\ m \in Nat /\ m <= n
        /\ contents(f) \in Seq(Char) /\ Len(contents(f)) \in Nat
    BY Contents, LenProperties, SizeAssumption DEF Place, atMost
  <1>1. g = run[n]
    BY DEF CO_fifo_write
  <1>2. \A x \in CO_fifo_t, i \in 1..n : CO_fifo_putc(x, s[i]) \in CO_fifo_t
    BY PutC, ElementOfSeq
  <1>3. step \in [1..n -> [CO_fifo_t -> CO_fifo_t]]
    BY <1>2
  <1>4. PICK l \in [0..n -> CO_fifo_t] : IsLoop(l, n, f, step)
    <2> HIDE DEF step, n
    <2> QED  BY <1>0, <1>3, LoopExists
  <1>5. l = pass(l)
    <2>1. ASSUME NEW i \in 1..n
          PROVE  l[i] = CO_fifo_putc(l[i - 1], s[i])
      <3>1. l[i - 1] \in CO_fifo_t
        BY <1>0
      <3> QED  BY <1>4, <3>1 DEF IsLoop
    <2> HIDE DEF n
    <2> QED  BY <1>0, <1>4, <2>1 DEF IsLoop
  <1>6. run = pass(run)
    <2> HIDE DEF pass
    <2> QED  BY <1>5, Zenon
  <1> HIDE DEF run, g
  <1>7. run[0] = f /\ \A i \in 1..n : run[i] = CO_fifo_putc(run[i - 1], s[i])
    <2> HIDE DEF n
    <2> QED  BY <1>0, <1>6
  <1>8. \A i \in 0..n : run[i] \in After[i]
    <2>1. run[0] \in After[0]
      <3>1. atMost(0, room) = 0
        BY <1>0 DEF atMost
      <3>2. f \in Filled(f, s, 0)
        BY <1>0 DEF Filled
      <3> QED  BY <1>0, <1>7, <3>1, <3>2
    <2>2. ASSUME NEW i \in 1..n, run[i - 1] \in After[i - 1]
          PROVE  run[i] \in After[i]
      <3>1. run[i - 1] \in Filled(f, s, atMost(i - 1, room)) /\ run[i] = CO_fifo_putc(run[i - 1], s[i])
        BY <1>0, <1>7, <2>2
      <3>2. CO_fifo_putc(run[i - 1], s[i]) \in Filled(f, s, atMost(i, room))
        BY <3>1, FilledStep
      <3> QED  BY <1>0, <3>1, <3>2
    <2> HIDE DEF After, n
    <2> QED  BY <1>0, <2>1, <2>2, LoopAssertions
  <1>9. g \in Filled(f, s, m)
    BY <1>0, <1>1, <1>8
  <1>10. /\ g \in CO_fifo_t /\ g.readPtr = f.readPtr /\ g.altReadPtr = f.altReadPtr
         /\ Len(contents(g)) = Len(contents(f)) + m
         /\ \A i \in 1..Len(contents(f)) : contents(g)[i] = contents(f)[i]
         /\ \A i \in 1..m : contents(g)[Len(contents(f)) + i] = s[i]
    BY <1>9 DEF Filled
  <1> HIDE DEF m
  <1>11. contents(g) = contents(f) \o SubSeq(s, 1, m)
    <2> DEFINE a == contents(f)
               t == SubSeq(s, 1, m)
    <2>1. contents(g) \in Seq(Char)
      BY <1>10, Contents
    <2>2. t \in Seq(Char) /\ Len(t) = m /\ \A i \in 1..m : t[i] = s[i]
      <3>1. \A i \in 1..m : s[i] \in Char
        BY <1>0, ElementOfSeq
      <3>2. /\ t \in Seq(Char) /\ Len(t) = IF 1 <= m THEN m - 1 + 1 ELSE 0
            /\ \A i \in 1..(m - 1 + 1) : t[i] = s[1 + i - 1]
        BY <1>0, <3>1, SubSeqProperties, 1 \in Int, m \in Int
      <3> QED  BY <1>0, <3>2
    <2> HIDE DEF a, t
    <2>3. /\ a \in Seq(Char) /\ a \o t \in Seq(Char) /\ Len(a \o t) = Len(a) + m
          /\ \A i \in 1..(Len(a) + m) : (a \o t)[i] = IF i <= Len(a) THEN a[i] ELSE t[i - Len(a)]
      BY <1>0, <2>2, ConcatProperties DEF a
    <2>4. ASSUME NEW i \in 1..(Len(a) + m)
          PROVE  contents(g)[i] = (a \o t)[i]
      <3>1. Len(a) \in Nat
        BY <1>0 DEF a
      <3>2. CASE i <= Len(a)
        BY <1>10, <2>3, <3>1, <3>2 DEF a
      <3>3. CASE ~(i <= Len(a))
        <4>1. i - Len(a) \in 1..m /\ Len(a) + (i - Len(a)) = i
          BY <1>0, <3>1, <3>3
        <4>2. contents(g)[Len(a) + (i - Len(a))] = s[i - Len(a)]
          BY <1>10, <4>1 DEF a
        <4> QED  BY <2>2, <2>3, <3>3, <4>1, <4>2
      <3> QED  BY <3>2, <3>3
    <2>5. Len(contents(g)) = Len(a) + m
      BY <1>10 DEF a
    <2>6. contents(g) = a \o t
      BY <2>1, <2>3, <2>4, <2>5, SeqEqual
    <2> QED  BY <2>6 DEF a, t
  <1>12. between(f.writePtr, g.writePtr) = m
    <2> DEFINE r == f.readPtr
               k == Len(contents(f))
    <2>1. r \in Place
      BY DEF CO_fifo_t
    <2>2. f.writePtr = place(r, k) /\ g.writePtr = place(r, k + m) /\ k \in Place /\ k + m \in Place
      BY <1>10, Contents
    <2>3. k <= k + m /\ (k + m) - k = m
      BY <1>0
    <2> HIDE DEF r, k
    <2> QED  BY <2>1, <2>2, <2>3, Apart
  <1> QED  BY <1>0, <1>10, <1>11, <1>12 DEF g, m

\* CO_fifo_putc_ov: the character is added, and the oldest one given up if
\* there is no room.
LEMMA Overwritten ==
    ASSUME NEW f \in CO_fifo_t, NEW c \in Char
    PROVE  LET g == CO_fifo_putc_ov(f, c)
               s == Append(contents(f), c)
           IN  g \in CO_fifo_t /\ contents(g) = IF Len(s) > bufSize - 1 THEN Tail(s) ELSE s
  <1> DEFINE g == CO_fifo_putc_ov(f, c)
             s == Append(contents(f), c)
             n == Len(contents(f))
             b == [f.buf EXCEPT ![f.writePtr] = c]
             r == f.readPtr
             w == f.writePtr
             e == IF r = next(w) THEN next(r) ELSE r
  <1>0. r \in Place /\ w \in Place /\ f.buf \in [Place -> Char]
    BY DEF CO_fifo_t
  <1>1. /\ contents(f) \in Seq(Char) /\ n = between(r, w) /\ n \in Place /\ place(r, n) = w
        /\ \A i \in 1..n : contents(f)[i] = f.buf[place(r, i - 1)]
    BY Contents
  <1>2. n \in Nat /\ n < bufSize
    BY <1>1, SizeAssumption DEF Place
  <1>3. /\ s \in Seq(Char) /\ s # <<>> /\ Len(s) = n + 1
        /\ \A i \in 1..n : s[i] = contents(f)[i]
        /\ s[n + 1] = c
    BY <1>1, AppendProperties
  <1>4. /\ n = bufSize - 1 <=> next(w) = r
        /\ next(w) \in Place /\ next(r) \in Place
        /\ n = bufSize - 1 => between(next(r), next(w)) = n
    BY <1>0, <1>1, RoomAtEnd, Ring
  <1>5. g = [f EXCEPT !.buf = b, !.writePtr = next(w), !.readPtr = e]
    BY DEF CO_fifo_putc_ov
  <1>6. b \in [Place -> Char] /\ e \in Place
    BY <1>0, <1>4
  <1> HIDE DEF g, b, e, s
  <1>7. g \in CO_fifo_t /\ g.buf = b /\ g.writePtr = next(w) /\ g.readPtr = e
    BY <1>4, <1>5, <1>6 DEF CO_fifo_t
  <1>8. contents(g) \in Seq(Char)
    BY <1>7, Contents
  <1>9. CASE n # bufSize - 1
    <2>1. e = r
      BY <1>4, <1>9 DEF e
    <2>2. Longer(g, f, c)
      BY <1>7, <1>9, <2>1, Appended DEF b
    <2>3. Len(contents(g)) = Len(s) /\ \A i \in 1..Len(contents(g)) : contents(g)[i] = s[i]
      <3>1. \A i \in 1..(n + 1) : i \in 1..n \/ i = n + 1
        BY <1>2
      <3> QED  BY <1>2, <1>3, <2>2, <3>1 DEF Longer
    <2>4. contents(g) = s
      BY <1>3, <1>8, <2>3, SeqEqual
    <2>5. ~(Len(s) > bufSize - 1)
      BY <1>2, <1>3, <1>9, SizeAssumption
    <2> QED  BY <1>7, <2>4, <2>5 DEF g, s
  <1>10. CASE n = bufSize - 1
    <2>1. e = next(r)
      BY <1>4, <1>10 DEF e
    <2>2. /\ Len(contents(g)) = n
          /\ \A i \in 1..n : contents(g)[i] = b[place(next(r), i - 1)]
      <3>1. /\ Len(contents(g)) = between(next(r), next(w))
            /\ \A i \in 1..Len(contents(g)) : contents(g)[i] = b[place(next(r), i - 1)]
        BY <1>7, <2>1, Contents
      <3> QED  BY <1>4, <1>10, <3>1
    <2>3. Tail(s) \in Seq(Char) /\ Len(Tail(s)) = n /\ \A i \in 1..n : Tail(s)[i] = s[i + 1]
      BY <1>2, <1>3, HeadTailProperties
    <2>4. ASSUME NEW i \in 1..n
          PROVE  contents(g)[i] = Tail(s)[i]
      <3>1. place(next(r), i - 1) = place(r, i) /\ place(r, i) \in Place
            /\ (place(r, i) = w <=> i = n)
        <4>1. i \in Place /\ i # 0 /\ n \in Place /\ i <= n
          BY <1>1, <1>10, SizeAssumption DEF Place
        <4>2. place(next(r), i - 1) = place(r, i)
          BY <1>0, <4>1, NextPlace
        <4>3. place(r, i) \in Place
          BY <1>0, <4>1, Ring
        <4>4. place(r, i) = place(r, n) => i = n
          BY <1>0, <4>1, Further
        <4> QED  BY <1>1, <4>2, <4>3, <4>4
      <3>2. CASE i = n
        <4>1. b[place(r, i)] = c
          BY <1>0, <3>1, <3>2 DEF b
        <4> QED  BY <1>3, <2>2, <2>3, <3>1, <3>2, <4>1
      <3>3. CASE i # n
        <4>1. i + 1 \in 1..n /\ (i + 1) - 1 = i
          BY <1>2, <3>3
        <4>2. contents(f)[i + 1] = f.buf[place(r, i)]
          BY <1>1, <4>1
        <4>3. b[place(r, i)] = f.buf[place(r, i)]
          BY <1>0, <3>1, <3>3 DEF b
        <4> QED  BY <1>3, <2>2, <2>3, <3>1, <4>1, <4>2, <4>3
      <3> QED  BY <3>2, <3>3
    <2>5. contents(g) = Tail(s)
      BY <1>8, <2>2, <2>3, <2>4, SeqEqual
    <2>6. Len(s) > bufSize - 1
      BY <1>2, <1>3, <1>10, SizeAssumption
    <2> QED  BY <1>7, <2>5, <2>6 DEF g, s
  <1> QED  BY <1>9, <1>10

-----------------------------------------------------------------------------
(* Reading *)

\* CO_fifo_read has taken k characters after i turns.
ReadUpTo(f, toDelimiter, t, i, k) ==
    /\ t.ptr = place(f.readPtr, k) /\ t.eof \in BOOLEAN
    /\ k <= Len(contents(f)) /\ k <= i
    /\ k < i => k = Len(contents(f)) \/ t.eof
    /\ t.eof => toDelimiter /\ k > 0 /\ contents(f)[k] = NL
    /\ \A j \in 1..k : toDelimiter /\ contents(f)[j] = NL => t.eof /\ j = k

\* One turn.
LEMMA ReadStep ==
    ASSUME NEW f \in CO_fifo_t, NEW d \in BOOLEAN, NEW i \in Nat, NEW k \in Nat,
           NEW t \in [ptr : Place, eof : BOOLEAN], ReadUpTo(f, d, t, i, k)
    PROVE  \E m \in Nat : ReadUpTo(f, d, read_step(f, d, t), i + 1, m)
  <1> DEFINE q == contents(f)
             u == read_step(f, d, t)
  <1>0. Len(q) \in Nat
    BY Contents, SizeAssumption DEF Place
  <1>1. /\ t.ptr = place(f.readPtr, k) /\ t.eof \in BOOLEAN /\ k <= Len(q) /\ k <= i
        /\ k < i => k = Len(q) \/ t.eof
        /\ t.eof => d /\ k > 0 /\ q[k] = NL
        /\ \A j \in 1..k : d /\ q[j] = NL => t.eof /\ j = k
    BY DEF ReadUpTo
  <1>2. t.ptr = f.writePtr <=> k = Len(q)
    BY <1>1, Step
  <1>3. CASE t.eof \/ k = Len(q)
    <2>1. u = t
      BY <1>2, <1>3 DEF read_step
    <2>2. k <= i + 1
      BY <1>1
    <2> HIDE DEF q, u
    <2>3. ReadUpTo(f, d, u, i + 1, k)
      BY <1>1, <1>3, <2>1, <2>2 DEF ReadUpTo, q
    <2> QED  BY <2>3 DEF u
  <1>4. CASE ~(t.eof \/ k = Len(q))
    <2>1. u = [ptr |-> next(t.ptr), eof |-> d /\ f.buf[t.ptr] = NL]
      BY <1>2, <1>4 DEF read_step
    <2>2. next(t.ptr) = place(f.readPtr, k + 1) /\ f.buf[t.ptr] = q[k + 1] /\ k < Len(q)
      BY <1>0, <1>1, <1>4, Step
    <2>3. u.ptr = place(f.readPtr, k + 1) /\ (u.eof <=> d /\ q[k + 1] = NL) /\ u.eof \in BOOLEAN
      <3> DEFINE e == d /\ f.buf[t.ptr] = NL
      <3>1. e \in BOOLEAN /\ (e <=> d /\ q[k + 1] = NL)
        BY <2>2, Zenon
      <3>2. u = [ptr |-> next(t.ptr), eof |-> e]
        BY <2>1
      <3> HIDE DEF u, e
      <3>3. u.ptr = next(t.ptr) /\ u.eof = e
        BY <3>2
      <3> QED  BY <2>2, <3>1, <3>3, Zenon
    <2>4. k = i /\ k + 1 <= Len(q) /\ k + 1 \in Nat /\ k + 1 > 0
      BY <1>0, <1>1, <1>4, <2>2
    <2> HIDE DEF q, u
    <2>5. ASSUME NEW j \in 1..(k + 1), d, q[j] = NL
          PROVE  u.eof /\ j = k + 1
      <3>1. j = k + 1
        BY <1>1, <1>4, <2>5
      <3> QED  BY <2>3, <2>5, <3>1
    <2>6. ReadUpTo(f, d, u, i + 1, k + 1)
      BY <2>3, <2>4, <2>5 DEF ReadUpTo, q
    <2> QED  BY <2>4, <2>6 DEF u
  <1> QED  BY <1>3, <1>4

\* All turns.
LEMMA ReadTo ==
    ASSUME NEW f \in CO_fifo_t, NEW d \in BOOLEAN, NEW n \in Nat
    PROVE  \E k \in Nat : ReadUpTo(f, d, CO_fifo_read(f, n, d), n, k)
  <1> DEFINE S       == [ptr : Place, eof : BOOLEAN]
             a       == [ptr |-> f.readPtr, eof |-> FALSE]
             pass(h) == [i \in 0..n |-> IF i = 0 THEN a ELSE read_step(f, d, h[i - 1])]
             run     == CHOOSE h : h = pass(h)
             step    == [i \in 1..n |-> [x \in S |-> read_step(f, d, x)]]
             After   == [i \in 0..n |-> {t \in S : \E k \in Nat : ReadUpTo(f, d, t, i, k)}]
  <1>0. f.readPtr \in Place
    BY DEF CO_fifo_t
  <1>1. CO_fifo_read(f, n, d) = run[n]
    BY DEF CO_fifo_read
  <1>2. a \in S
    BY <1>0
  <1>3. \A x \in S : read_step(f, d, x) \in S
    <2> SUFFICES ASSUME NEW x \in S
                 PROVE  read_step(f, d, x) \in S
      OBVIOUS
    <2>1. x.ptr \in Place /\ next(x.ptr) \in Place
      BY Ring
    <2>2. (d /\ f.buf[x.ptr] = NL) \in BOOLEAN
      OBVIOUS
    <2> QED  BY <2>1, <2>2 DEF read_step
  <1>4. ReadUpTo(f, d, a, 0, 0)
    <2>1. Len(contents(f)) \in Nat
      BY Contents, SizeAssumption DEF Place
    <2>2. place(f.readPtr, 0) = f.readPtr
      BY <1>0, SizeAssumption DEF place, Place
    <2> QED  BY <2>1, <2>2 DEF ReadUpTo
  <1> HIDE DEF a, S
  <1>5. step \in [1..n -> [S -> S]]
    BY <1>3
  <1>6. PICK l \in [0..n -> S] : IsLoop(l, n, a, step)
    <2> HIDE DEF step
    <2> QED  BY <1>2, <1>5, LoopExists
  <1>7. l = pass(l)
    <2>1. ASSUME NEW i \in 1..n
          PROVE  l[i] = read_step(f, d, l[i - 1])
      <3>1. l[i - 1] \in S
        OBVIOUS
      <3> QED  BY <1>6, <3>1 DEF IsLoop
    <2> QED  BY <1>6, <2>1 DEF IsLoop
  <1>8. run = pass(run)
    <2> HIDE DEF pass
    <2> QED  BY <1>7, Zenon
  <1> HIDE DEF run
  <1>9. run[0] = a /\ \A i \in 1..n : run[i] = read_step(f, d, run[i - 1])
    BY <1>8
  <1>10. \A i \in 0..n : run[i] \in After[i]
    <2>1. run[0] \in After[0]
      BY <1>2, <1>4, <1>9
    <2>2. ASSUME NEW i \in 1..n, run[i - 1] \in After[i - 1]
          PROVE  run[i] \in After[i]
      <3>1. i - 1 \in Nat /\ (i - 1) + 1 = i /\ i - 1 \in 0..n /\ i \in 0..n
        OBVIOUS
      <3>2. run[i - 1] \in S /\ \E k \in Nat : ReadUpTo(f, d, run[i - 1], i - 1, k)
        BY <2>2, <3>1
      <3>3. PICK k \in Nat : ReadUpTo(f, d, run[i - 1], i - 1, k)
        BY <3>2
      <3>4. \E m \in Nat : ReadUpTo(f, d, read_step(f, d, run[i - 1]), i, m)
        BY <3>1, <3>2, <3>3, ReadStep DEF S
      <3> QED  BY <1>3, <1>9, <3>1, <3>2, <3>4
    <2> HIDE DEF After
    <2> QED  BY <2>1, <2>2, LoopAssertions
  <1> QED  BY <1>1, <1>10
-----------------------------------------------------------------------------
(* Searching *)

\* The end of the first m characters of s: after the first delimiter, or all.
CommandOf(s, m) ==
    /\ m <= Len(s)
    /\ \/ m = Len(s) /\ \A i \in 1..Len(s) : s[i] # NL
       \/ m > 0 /\ s[m] = NL /\ \A i \in 1..(m - 1) : s[i] # NL

\* memchr.
LEMMA Memchr ==
    ASSUME NEW f, NEW from \in Nat, NEW count \in Nat
    PROVE  LET x == memchr(f, from, count)
           IN  \/ x = -1 /\ \A p \in from..(from + count - 1) : f.buf[p] # NL
               \/ /\ x \in from..(from + count - 1) /\ f.buf[x] = NL
                  /\ \A p \in from..(x - 1) : f.buf[p] # NL
  <1> DEFINE at == {p \in from..(from + count - 1) : f.buf[p] = NL}
             m  == CHOOSE y \in at : \A z \in at : y =< z
             x  == memchr(f, from, count)
  <1>1. x = IF at = {} THEN -1 ELSE m
    BY DEF memchr, Min
  <1>2. at \in SUBSET Nat
    OBVIOUS
  <1>3. at # {} => m \in at /\ \A z \in at : m =< z
    <2> HIDE DEF at
    <2> QED  BY <1>2, Least
  <1> HIDE DEF m, x
  <1>4. CASE at = {}
    BY <1>1, <1>4 DEF x
  <1>5. CASE at # {}
    <2>1. m \in from..(from + count - 1) /\ f.buf[m] = NL
      BY <1>3, <1>5
    <2>2. \A p \in from..(m - 1) : f.buf[p] # NL
      <3> SUFFICES ASSUME NEW p \in from..(m - 1), f.buf[p] = NL
                   PROVE  FALSE
        OBVIOUS
      <3>1. p \in at /\ ~(m =< p)
        BY <2>1
      <3> QED  BY <1>3, <3>1
    <2> HIDE DEF at
    <2> QED  BY <1>1, <1>5, <2>1, <2>2 DEF x
  <1> QED  BY <1>4, <1>5

\* The k-th place, seen from the start of the buffer.
LEMMA Unwrapped ==
    ASSUME NEW r \in Place, NEW w \in Place, r # w
    PROVE  LET n == between(r, w) IN
           /\ r < w => /\ n = w - r /\ \A k \in 0..(n - 1) : place(r, k) = r + k
           /\ ~(r < w) => /\ n = bufSize - r + w
                          /\ \A k \in 0..(bufSize - r - 1) : place(r, k) = r + k
                          /\ \A p \in 0..(w - 1) : /\ bufSize - r + p \in 0..(n - 1)
                                                   /\ place(r, bufSize - r + p) = p
  BY SizeAssumption DEF Place, place, between

\* The search finds the first delimiter of the data, wherever the data wraps.
LEMMA CommandEnd ==
    ASSUME NEW f \in CO_fifo_t, f.readPtr # f.writePtr
    PROVE  LET e == commandEnd(f)
               q == contents(f)
           IN  \/ e = -1 /\ \A i \in 1..Len(q) : q[i] # NL
               \/ \E k \in Nat : /\ k < Len(q) /\ e = place(f.readPtr, k) /\ q[k + 1] = NL
                                 /\ \A i \in 1..k : q[i] # NL
  <1> DEFINE e == commandEnd(f)
             q == contents(f)
             r == f.readPtr
             w == f.writePtr
             n == Len(q)
  <1>0. r \in Place /\ w \in Place
    BY DEF CO_fifo_t
  <1>1. n = between(r, w) /\ n \in Place /\ \A i \in 1..n : q[i] = f.buf[place(r, i - 1)]
    BY Contents
  <1>2. n \in Nat /\ n < bufSize /\ r \in Nat /\ w \in Nat /\ r < bufSize /\ w < bufSize /\ bufSize \in Nat
    BY <1>0, <1>1, SizeAssumption DEF Place
  <1>3. \A i \in 1..n : i - 1 \in 0..(n - 1)
    BY <1>2
  <1>4. \A k \in 0..(n - 1) : k + 1 \in 1..n /\ (k + 1) - 1 = k
    BY <1>2
  <1>5. CASE r < w
    <2>1. n = w - r /\ \A k \in 0..(n - 1) : place(r, k) = r + k
      BY <1>0, <1>1, <1>5, Unwrapped
    <2>2. e = memchr(f, r, w - r)
      BY <1>5 DEF commandEnd
    <2> HIDE DEF e, q, r, w, n
    <2>3. \A i \in 1..n : q[i] = f.buf[r + i - 1] /\ r + i - 1 \in r..(r + (w - r) - 1)
      BY <1>1, <1>2, <1>3, <2>1
    <2>4. \/ e = -1 /\ \A p \in r..(r + (w - r) - 1) : f.buf[p] # NL
          \/ /\ e \in r..(r + (w - r) - 1) /\ f.buf[e] = NL
             /\ \A p \in r..(e - 1) : f.buf[p] # NL
      BY <1>2, <2>2, <1>5, Memchr, w - r \in Nat
    <2>5. CASE e = -1 /\ \A p \in r..(r + (w - r) - 1) : f.buf[p] # NL
      BY <2>3, <2>5 DEF e, q, r, n
    <2>6. CASE /\ e \in r..(r + (w - r) - 1) /\ f.buf[e] = NL
               /\ \A p \in r..(e - 1) : f.buf[p] # NL
      <3> DEFINE k == e - r
      <3>1. k \in 0..(n - 1) /\ k \in Nat /\ k < n /\ r + k = e
        BY <1>2, <2>1, <2>6
      <3> HIDE DEF k
      <3>2. e = place(r, k)
        BY <2>1, <3>1
      <3>3. q[k + 1] = NL
        BY <1>1, <1>4, <2>6, <3>1, <3>2
      <3>4. ASSUME NEW i \in 1..k
            PROVE  q[i] # NL
        <4>1. i \in 1..n /\ r + i - 1 \in r..(e - 1)
          BY <1>2, <3>1
        <4> QED  BY <2>3, <2>6, <4>1
      <3> QED  BY <3>1, <3>2, <3>3, <3>4 DEF e, q, r, n
    <2> QED  BY <2>4, <2>5, <2>6
  <1>6. CASE ~(r < w)
    <2> DEFINE c  == bufSize - r
               e1 == memchr(f, r, c)
               e2 == memchr(f, 0, w)
    <2>1. /\ n = c + w
          /\ \A k \in 0..(c - 1) : place(r, k) = r + k
          /\ \A p \in 0..(w - 1) : c + p \in 0..(n - 1) /\ place(r, c + p) = p
      BY <1>0, <1>1, <1>6, Unwrapped
    <2>2. e = IF e1 # -1 THEN e1 ELSE e2
      BY <1>6 DEF commandEnd
    <2>3. c \in Nat
      BY <1>2
    <2>4. \/ e1 = -1 /\ \A p \in r..(r + c - 1) : f.buf[p] # NL
          \/ /\ e1 \in r..(r + c - 1) /\ f.buf[e1] = NL
             /\ \A p \in r..(e1 - 1) : f.buf[p] # NL
      <3> HIDE DEF c
      <3> QED  BY <1>2, <2>3, Memchr
    <2>5. \/ e2 = -1 /\ \A p \in 0..(w - 1) : f.buf[p] # NL
          \/ /\ e2 \in 0..(w - 1) /\ f.buf[e2] = NL
             /\ \A p \in 0..(e2 - 1) : f.buf[p] # NL
      <3>1. 0 + w - 1 = w - 1
        BY <1>2
      <3>2. \/ e2 = -1 /\ \A p \in 0..(0 + w - 1) : f.buf[p] # NL
            \/ /\ e2 \in 0..(0 + w - 1) /\ f.buf[e2] = NL
               /\ \A p \in 0..(e2 - 1) : f.buf[p] # NL
        BY <1>2, Memchr, 0 \in Nat
      <3> QED  BY <3>1, <3>2, Zenon
    <2> HIDE DEF e, q, r, w, n, c, e1, e2
    <2>6. \A i \in 1..c : i \in 1..n /\ q[i] = f.buf[r + i - 1] /\ r + i - 1 \in r..(r + c - 1)
      <3>1. \A i \in 1..c : i \in 1..n /\ i - 1 \in 0..(c - 1)
        BY <1>2, <2>1, <2>3
      <3>2. \A i \in 1..c : place(r, i - 1) = r + (i - 1)
        BY <2>1, <3>1
      <3> QED  BY <1>1, <1>2, <2>3, <3>1, <3>2
    <2>7. \A i \in 1..n : i > c => q[i] = f.buf[i - c - 1] /\ i - c - 1 \in 0..(w - 1)
      <3> SUFFICES ASSUME NEW i \in 1..n, i > c
                   PROVE  q[i] = f.buf[i - c - 1] /\ i - c - 1 \in 0..(w - 1)
        OBVIOUS
      <3>1. i - c - 1 \in 0..(w - 1) /\ c + (i - c - 1) = i - 1
        BY <1>2, <2>1, <2>3
      <3>2. place(r, i - 1) = i - c - 1
        BY <2>1, <3>1
      <3> QED  BY <1>1, <3>1, <3>2
    <2>8. CASE e1 # -1
      <3> DEFINE k == e1 - r
      <3>1. e = e1 /\ e1 \in r..(r + c - 1) /\ f.buf[e1] = NL /\ \A p \in r..(e1 - 1) : f.buf[p] # NL
        BY <2>2, <2>4, <2>8
      <3>2. k \in 0..(c - 1) /\ k \in Nat /\ k < n /\ r + k = e1 /\ k \in 0..(n - 1)
        BY <1>2, <2>1, <2>3, <3>1
      <3> HIDE DEF k
      <3>3. e = place(r, k)
        BY <2>1, <3>1, <3>2
      <3>4. q[k + 1] = NL
        BY <1>1, <1>4, <3>1, <3>2, <3>3
      <3>5. ASSUME NEW i \in 1..k
            PROVE  q[i] # NL
        <4>1. i \in 1..c /\ r + i - 1 \in r..(e1 - 1)
          BY <1>2, <2>3, <3>2
        <4> QED  BY <2>6, <3>1, <4>1
      <3> QED  BY <3>2, <3>3, <3>4, <3>5 DEF e, q, r, n
    <2>9. CASE e1 = -1
      <3>1. e = e2 /\ \A p \in r..(r + c - 1) : f.buf[p] # NL
        BY <1>2, <2>2, <2>4, <2>9
      <3>2. \A i \in 1..c : q[i] # NL
        BY <2>6, <3>1
      <3>3. CASE e2 = -1 /\ \A p \in 0..(w - 1) : f.buf[p] # NL
        <4>1. ASSUME NEW i \in 1..n
              PROVE  q[i] # NL
          <5>1. CASE i > c
            BY <2>7, <3>3, <5>1
          <5>2. CASE ~(i > c)
            BY <2>3, <3>2, <5>2
          <5> QED  BY <5>1, <5>2
        <4> QED  BY <3>1, <3>3, <4>1 DEF e, q, n
      <3>4. CASE /\ e2 \in 0..(w - 1) /\ f.buf[e2] = NL
                 /\ \A p \in 0..(e2 - 1) : f.buf[p] # NL
        <4> DEFINE k == c + e2
        <4>1. k \in 0..(n - 1) /\ place(r, k) = e2
          BY <2>1, <3>4
        <4>2. k \in Nat /\ k < n
          BY <1>2, <2>3, <3>4, <4>1
        <4> HIDE DEF k
        <4>3. q[k + 1] = NL
          BY <1>1, <1>4, <3>4, <4>1
        <4>4. ASSUME NEW i \in 1..k
              PROVE  q[i] # NL
          <5>1. CASE i > c
            <6>1. i \in 1..n /\ i - c - 1 \in 0..(e2 - 1)
              BY <1>2, <2>3, <3>4, <4>2, <5>1 DEF k
            <6> QED  BY <2>7, <3>4, <5>1, <6>1
          <5>2. CASE ~(i > c)
            BY <2>3, <3>2, <5>2
          <5> QED  BY <5>1, <5>2
        <4> QED  BY <3>1, <4>1, <4>2, <4>3, <4>4 DEF e, q, r, n
      <3> QED  BY <2>5, <3>3, <3>4
    <2> QED  BY <2>8, <2>9
  <1> QED  BY <1>5, <1>6

\* CO_fifo_CommSearch finds a command when there is a delimiter or no room.
LEMMA Searched ==
    ASSUME NEW f \in CO_fifo_t
    PROVE  CO_fifo_CommSearch(f) <=>
             \/ \E i \in 1..Len(contents(f)) : contents(f)[i] = NL
             \/ Len(contents(f)) = bufSize - 1
  <1> DEFINE q == contents(f)
             n == Len(q)
             r == f.readPtr
             w == f.writePtr
             full == \/ r > w /\ r = w + 1
                     \/ r = 0 /\ w = bufSize - 1
  <1>0. r \in Place /\ w \in Place
    BY DEF CO_fifo_t
  <1>1. n = between(r, w) /\ n \in Place
    BY Contents
  <1>2. CO_fifo_CommSearch(f) <=> r # w /\ (commandEnd(f) # -1 \/ full)
    BY DEF CO_fifo_CommSearch
  <1>3. full <=> n = bufSize - 1
    BY <1>0, <1>1, SizeAssumption DEF Place, between
  <1>4. r = w <=> n = 0
    BY <1>0, <1>1, Distance
  <1>5. n \in Nat /\ 0 # bufSize - 1
    BY <1>1, SizeAssumption DEF Place
  <1> HIDE DEF full
  <1>6. CASE r = w
    <2>1. ~ \E i \in 1..n : q[i] = NL
      BY <1>4, <1>6
    <2> HIDE DEF q, n, r, w
    <2> QED  BY <1>2, <1>4, <1>5, <1>6, <2>1 DEF n, q
  <1>7. CASE r # w
    <2>1. commandEnd(f) # -1 <=> \E i \in 1..n : q[i] = NL
      <3>1. CASE commandEnd(f) = -1 /\ \A i \in 1..n : q[i] # NL
        BY <3>1
      <3>2. CASE \E k \in Nat : /\ k < n /\ commandEnd(f) = place(r, k) /\ q[k + 1] = NL
                                /\ \A i \in 1..k : q[i] # NL
        <4>1. PICK k \in Nat : k < n /\ commandEnd(f) = place(r, k) /\ q[k + 1] = NL
          BY <3>2
        <4>2. k \in Place /\ k + 1 \in 1..n
          BY <1>1, <1>5, <4>1, SizeAssumption DEF Place
        <4>3. place(r, k) \in Place
          BY <1>0, <4>2, Ring
        <4>4. place(r, k) # -1
          BY <4>3, SizeAssumption DEF Place
        <4> QED  BY <4>1, <4>2, <4>4
      <3> QED  BY <1>7, <3>1, <3>2, CommandEnd
    <2> HIDE DEF q, n, r, w
    <2> QED  BY <1>2, <1>3, <1>7, <2>1 DEF n, q
  <1> QED  BY <1>6, <1>7

\* CO_fifo_CommSearch with clear takes the command, or all.
LEMMA Cleared ==
    ASSUME NEW f \in CO_fifo_t
    PROVE  \E m \in Nat : cleared(f) = Taken(f, m) /\ CommandOf(contents(f), m)
  <1> DEFINE q == contents(f)
             n == Len(q)
             r == f.readPtr
             w == f.writePtr
  <1>0. r \in Place /\ w \in Place
    BY DEF CO_fifo_t
  <1>1. n = between(r, w) /\ n \in Place /\ place(r, n) = w
    BY Contents
  <1>2. n \in Nat
    BY <1>1, SizeAssumption DEF Place
  <1>3. r = w <=> n = 0
    BY <1>0, <1>1, Distance
  <1>4. ASSUME r = w \/ commandEnd(f) = -1, \A i \in 1..n : q[i] # NL
        PROVE  cleared(f) = Taken(f, n) /\ CommandOf(q, n)
    <2>1. cleared(f) = [f EXCEPT !.readPtr = w]
      BY <1>4 DEF cleared
    <2>2. Taken(f, n) = [f EXCEPT !.readPtr = w]
      BY <1>1 DEF Taken
    <2>3. CommandOf(q, n)
      BY <1>2, <1>4 DEF CommandOf
    <2> HIDE DEF q, n, r, w
    <2> QED  BY <2>1, <2>2, <2>3
  <1>5. CASE r = w
    <2>1. \A i \in 1..n : q[i] # NL
      BY <1>3, <1>5
    <2> QED  BY <1>2, <1>4, <1>5, <2>1
  <1>6. CASE r # w /\ commandEnd(f) = -1 /\ \A i \in 1..n : q[i] # NL
    BY <1>2, <1>4, <1>6
  <1>7. CASE /\ r # w
             /\ \E k \in Nat : /\ k < n /\ commandEnd(f) = place(r, k) /\ q[k + 1] = NL
                               /\ \A i \in 1..k : q[i] # NL
    <2>1. PICK k \in Nat : /\ k < n /\ commandEnd(f) = place(r, k) /\ q[k + 1] = NL
                           /\ \A i \in 1..k : q[i] # NL
      BY <1>7
    <2>2. k \in Place /\ k + 1 <= n /\ k + 1 \in Nat /\ k + 1 > 0 /\ (k + 1) - 1 = k /\ k <= n
      BY <1>1, <1>2, <2>1, SizeAssumption DEF Place
    <2>3. place(r, k) \in Place
      BY <1>0, <2>2, Ring
    <2>4. place(r, k) # -1
      BY <2>3, SizeAssumption DEF Place
    <2>5. next(place(r, k)) = place(r, k + 1)
      BY <2>1, <2>2, Step
    <2>6. cleared(f) = [f EXCEPT !.readPtr = next(commandEnd(f))]
      BY <1>7, <2>1, <2>4 DEF cleared
    <2>7. cleared(f) = Taken(f, k + 1)
      BY <2>1, <2>5, <2>6 DEF Taken
    <2>8. CommandOf(q, k + 1)
      <3> HIDE DEF q, n
      <3> QED  BY <2>1, <2>2 DEF CommandOf, n
    <2> QED  BY <2>2, <2>7, <2>8
  <1> QED  BY <1>5, <1>6, <1>7, CommandEnd
-----------------------------------------------------------------------------
(* Trimming *)

Plain == Char \ ({NL, HASH} \cup Blank)

\* Position j of s is in a comment; the trimming of s stops there.
Hashed(s, inside, j) == inside \/ \E h \in 1..(j - 1) : s[h] = HASH
Stops(s, inside, j) == s[j] = NL \/ (s[j] \in Plain /\ ~Hashed(s, inside, j))

TrimType == [ptr : Place, inside : BOOLEAN, stop : BOOLEAN, found : BOOLEAN]

\* CO_fifo_trimSpaces has taken k characters after i turns.
TrimUpTo(f, inside, t, i, k) ==
    LET s == contents(f) IN
    /\ t \in TrimType
    /\ t.ptr = place(f.readPtr, k) /\ k <= Len(s) /\ k <= i
    /\ k < i => t.stop \/ k = Len(s)
    /\ ~t.stop => /\ ~t.found /\ \A j \in 1..k : ~Stops(s, inside, j)
                  /\ t.inside <=> Hashed(s, inside, k + 1)
    /\ t.stop /\ t.found => /\ k > 0 /\ s[k] = NL /\ ~t.inside
                            /\ \A j \in 1..(k - 1) : ~Stops(s, inside, j)
    /\ t.stop /\ ~t.found => /\ k < Len(s) /\ Stops(s, inside, k + 1) /\ s[k + 1] # NL
                             /\ ~t.inside /\ \A j \in 1..k : ~Stops(s, inside, j)

\* One more character is in a comment when the ones before it are or begin one.
LEMMA HashedNext ==
    ASSUME NEW s, NEW inside \in BOOLEAN, NEW k \in Nat
    PROVE  Hashed(s, inside, k + 2) <=> Hashed(s, inside, k + 1) \/ s[k + 1] = HASH
  <1>1. /\ (k + 2) - 1 = k + 1 /\ (k + 1) - 1 = k /\ k + 1 \in 1..(k + 1)
        /\ \A h \in 1..(k + 1) : h \in 1..k \/ h = k + 1
        /\ \A h \in 1..k : h \in 1..(k + 1)
    OBVIOUS
  <1> QED  BY <1>1 DEF Hashed

\* One turn.
LEMMA TrimStep ==
    ASSUME NEW f \in CO_fifo_t, NEW inside \in BOOLEAN, NEW i \in Nat, NEW k \in Nat, NEW t,
           TrimUpTo(f, inside, t, i, k)
    PROVE  \E m \in Nat : TrimUpTo(f, inside, trim(f, t), i + 1, m)
  <1> DEFINE s == contents(f)
             n == Len(s)
             u == trim(f, t)
             c == f.buf[t.ptr]
             in == t.inside \/ c = HASH
  <1>0. n \in Nat
    BY Contents, SizeAssumption DEF Place
  <1>1. /\ t \in TrimType /\ t.ptr = place(f.readPtr, k) /\ k <= n /\ k <= i
        /\ k < i => t.stop \/ k = n
        /\ ~t.stop => /\ ~t.found /\ \A j \in 1..k : ~Stops(s, inside, j)
                      /\ t.inside <=> Hashed(s, inside, k + 1)
    BY DEF TrimUpTo
  <1>2. t.ptr = f.writePtr <=> k = n
    BY <1>1, Step
  <1>3. CASE t.stop \/ k = n
    <2>1. u = t
      BY <1>2, <1>3 DEF trim
    <2>2. k <= i + 1
      BY <1>1
    <2>3. TrimUpTo(f, inside, t, i + 1, k)
      BY <1>1, <1>3, <2>2 DEF TrimUpTo
    <2> HIDE DEF u
    <2>4. TrimUpTo(f, inside, u, i + 1, k)
      BY <2>1, <2>3
    <2> QED  BY <2>4 DEF u
  <1>4. CASE ~t.stop /\ k # n
    <2>1. /\ next(t.ptr) = place(f.readPtr, k + 1) /\ place(f.readPtr, k + 1) \in Place
          /\ c = s[k + 1] /\ c \in Char
      <3>1. k < n /\ k + 1 <= n /\ k + 1 \in Nat
        BY <1>0, <1>1, <1>4
      <3>2. place(f.readPtr, k + 1) \in Place
        BY <3>1, Step
      <3> QED  BY <1>1, <3>1, <3>2, Step
    <2>2. k = i /\ k < n /\ k + 1 <= n /\ k + 1 \in Nat /\ k + 1 > 0 /\ (k + 1) - 1 = k
          /\ k < i + 1 /\ ~(k + 1 < i + 1) /\ k + 1 <= i + 1 /\ (k + 1) + 1 = k + 2 /\ k <= i + 1
      BY <1>0, <1>1, <1>4
    <2>3. in <=> Hashed(s, inside, k + 2)
      BY <1>1, <1>4, <2>1, HashedNext, Zenon
    <2>4. t.inside <=> Hashed(s, inside, k + 1)
      BY <1>1, <1>4
    <2>5. \A j \in 1..k : ~Stops(s, inside, j)
      BY <1>1, <1>4
    <2>6. u = IF isgraph(c) /\ ~in THEN [t EXCEPT !.stop = TRUE]
              ELSE [ptr |-> next(t.ptr), inside |-> in /\ c # NL, stop |-> c = NL, found |-> c = NL]
      BY <1>2, <1>4 DEF trim
    <2> HIDE DEF s, n, u, c, in
    <2>7. CASE isgraph(c) /\ ~in
      <3>1. u = [t EXCEPT !.stop = TRUE]
        BY <2>6, <2>7
      <3>2. u \in TrimType /\ u.ptr = t.ptr /\ u.stop = TRUE /\ u.found = t.found /\ u.inside = t.inside
        BY <1>1, <3>1, Zenon DEF TrimType
      <3>3. ~t.inside /\ c # HASH
        BY <2>7 DEF in
      <3>4. c \in Plain /\ c # NL
        BY <2>1, <2>7, <3>3 DEF isgraph, Plain
      <3>5. Stops(s, inside, k + 1) /\ s[k + 1] # NL
        BY <2>1, <2>4, <3>3, <3>4 DEF Stops
      <3>6. TrimUpTo(f, inside, u, i + 1, k)
        BY <1>1, <1>4, <2>2, <2>5, <3>2, <3>3, <3>5, Zenon DEF TrimUpTo, s, n
      <3> QED  BY <3>6 DEF u
    <2>8. CASE ~(isgraph(c) /\ ~in)
      <3> DEFINE b == in /\ c # NL
                 e == (c = NL)
      <3>1. u = [ptr |-> next(t.ptr), inside |-> b, stop |-> e, found |-> e]
        BY <2>6, <2>8
      <3>2. b \in BOOLEAN /\ e \in BOOLEAN
        BY Zenon
      <3> HIDE DEF b, e
      <3>3. /\ u \in TrimType /\ u.ptr = place(f.readPtr, k + 1) /\ u.inside = b
            /\ u.stop = e /\ u.found = e
        BY <2>1, <3>1, <3>2, Zenon DEF TrimType
      <3>4. CASE c = NL
        <4>1. e /\ ~b
          BY <3>4 DEF e, b
        <4>2. s[k + 1] = NL
          BY <2>1, <3>4
        <4>3. TrimUpTo(f, inside, u, i + 1, k + 1)
          BY <2>2, <2>5, <3>3, <4>1, <4>2, Zenon DEF TrimUpTo, s, n
        <4> QED  BY <2>2, <4>3 DEF u
      <3>5. CASE c # NL
        <4>1. ~e /\ (b <=> in)
          BY <3>5 DEF e, b
        <4>2. ~Stops(s, inside, k + 1)
          <5>1. CASE in
            <6>1. c \in Plain => t.inside
              BY <5>1 DEF in, Plain
            <6> QED  BY <2>1, <2>4, <3>5, <6>1 DEF Stops
          <5>2. CASE ~in
            <6>1. c \notin Plain
              BY <2>1, <2>8, <5>2 DEF isgraph, Plain
            <6> QED  BY <2>1, <3>5, <6>1 DEF Stops
          <5> QED  BY <5>1, <5>2
        <4>3. \A j \in 1..(k + 1) : ~Stops(s, inside, j)
          <5>1. \A j \in 1..(k + 1) : j \in 1..k \/ j = k + 1
            BY <2>2
          <5> QED  BY <2>5, <4>2, <5>1
        <4>4. u.inside <=> Hashed(s, inside, (k + 1) + 1)
          BY <2>2, <2>3, <3>3, <4>1
        <4>5. TrimUpTo(f, inside, u, i + 1, k + 1)
          BY <2>2, <3>3, <4>1, <4>3, <4>4, Zenon DEF TrimUpTo, s, n
        <4> QED  BY <2>2, <4>5 DEF u
      <3> QED  BY <3>4, <3>5
    <2> QED  BY <2>7, <2>8
  <1> QED  BY <1>3, <1>4

\* All turns: as many as there are characters, and one to stop.
LEMMA Trimmed ==
    ASSUME NEW f \in CO_fifo_t, NEW inside \in BOOLEAN
    PROVE  \E k \in Nat : TrimUpTo(f, inside, CO_fifo_trimSpaces(f, inside), bufSize, k)
  <1> DEFINE n       == bufSize
             a       == [ptr |-> f.readPtr, inside |-> inside, stop |-> FALSE, found |-> FALSE]
             S       == {t \in TrimType : \E i \in Nat, k \in Nat : TrimUpTo(f, inside, t, i, k)}
             pass(h) == [i \in 0..n |-> IF i = 0 THEN a ELSE trim(f, h[i - 1])]
             run     == CHOOSE h : h = pass(h)
             step    == [i \in 1..n |-> [x \in S |-> trim(f, x)]]
             After   == [i \in 0..n |-> {t \in S : \E k \in Nat : TrimUpTo(f, inside, t, i, k)}]
  <1>0. f.readPtr \in Place /\ n \in Nat /\ Len(contents(f)) \in Nat
    BY Contents, SizeAssumption DEF CO_fifo_t, Place
  <1>1. CO_fifo_trimSpaces(f, inside) = run[n]
    BY DEF CO_fifo_trimSpaces
  <1>2. TrimUpTo(f, inside, a, 0, 0)
    <2>1. a \in TrimType /\ a.ptr = f.readPtr /\ a.inside = inside /\ a.stop = FALSE /\ a.found = FALSE
      BY <1>0, Zenon DEF TrimType
    <2>2. place(f.readPtr, 0) = f.readPtr
      BY <1>0, SizeAssumption DEF place, Place
    <2>3. Hashed(contents(f), inside, 0 + 1) <=> inside
      BY DEF Hashed
    <2>4. \A j \in 1..0 : FALSE
      OBVIOUS
    <2>5. 0 <= Len(contents(f)) /\ 0 <= 0 /\ ~(0 < 0)
      BY <1>0
    <2> HIDE DEF a
    <2> QED  BY <2>1, <2>2, <2>3, <2>4, <2>5 DEF TrimUpTo
  <1>3. a \in S
    <2>1. a \in TrimType
      BY <1>2 DEF TrimUpTo
    <2> HIDE DEF a
    <2> QED  BY <1>2, <2>1, 0 \in Nat
  <1>4. ASSUME NEW x, NEW i \in Nat, NEW k \in Nat, TrimUpTo(f, inside, x, i, k)
        PROVE  /\ trim(f, x) \in S /\ \E m \in Nat : TrimUpTo(f, inside, trim(f, x), i + 1, m)
    <2>1. PICK m \in Nat : TrimUpTo(f, inside, trim(f, x), i + 1, m)
      BY <1>4, TrimStep
    <2>2. trim(f, x) \in TrimType /\ i + 1 \in Nat
      BY <2>1 DEF TrimUpTo
    <2> QED  BY <2>1, <2>2
  <1>5. \A x \in S : trim(f, x) \in S
    <2> SUFFICES ASSUME NEW x \in S
                 PROVE  trim(f, x) \in S
      OBVIOUS
    <2>1. PICK i \in Nat, k \in Nat : TrimUpTo(f, inside, x, i, k)
      OBVIOUS
    <2> HIDE DEF S
    <2> QED  BY <1>4, <2>1
  <1> HIDE DEF a, S, n
  <1>6. step \in [1..n -> [S -> S]]
    BY <1>5
  <1>7. PICK l \in [0..n -> S] : IsLoop(l, n, a, step)
    <2> HIDE DEF step
    <2> QED  BY <1>0, <1>3, <1>6, LoopExists
  <1>8. l = pass(l)
    <2>1. ASSUME NEW i \in 1..n
          PROVE  l[i] = trim(f, l[i - 1])
      <3>1. l[i - 1] \in S
        BY <1>0
      <3> QED  BY <1>7, <3>1 DEF IsLoop
    <2> QED  BY <1>0, <1>7, <2>1 DEF IsLoop
  <1>9. run = pass(run)
    <2> HIDE DEF pass
    <2> QED  BY <1>8, Zenon
  <1> HIDE DEF run
  <1>10. run[0] = a /\ \A i \in 1..n : run[i] = trim(f, run[i - 1])
    BY <1>0, <1>9
  <1>11. \A i \in 0..n : run[i] \in After[i]
    <2>1. run[0] \in After[0]
      BY <1>0, <1>2, <1>3, <1>10
    <2>2. ASSUME NEW i \in 1..n, run[i - 1] \in After[i - 1]
          PROVE  run[i] \in After[i]
      <3>1. i - 1 \in Nat /\ (i - 1) + 1 = i /\ i - 1 \in 0..n /\ i \in 0..n
        BY <1>0
      <3>2. PICK k \in Nat : TrimUpTo(f, inside, run[i - 1], i - 1, k)
        BY <2>2, <3>1
      <3>3. /\ trim(f, run[i - 1]) \in S
            /\ \E m \in Nat : TrimUpTo(f, inside, trim(f, run[i - 1]), i, m)
        BY <1>4, <3>1, <3>2
      <3> QED  BY <1>10, <3>1, <3>3
    <2> HIDE DEF After
    <2> QED  BY <1>0, <2>1, <2>2, LoopAssertions
  <1>12. n \in 0..n
    BY <1>0
  <1> QED  BY <1>1, <1>11, <1>12 DEF n
-----------------------------------------------------------------------------
(* Tokens *)

\* A token of s begins at b; it ends before e, and the next thing is at x.
TokenAt(s, b, e, x) ==
    /\ IsFirst(s, Char \ Blank, 1, b)
    /\ IF b = 0 \/ s[b] \notin Plain THEN e = b ELSE IsFirst(s, Char \ Plain, b, e)
    /\ IF e = 0 THEN x = 0 ELSE IsFirst(s, Char \ Blank, e, x)

\* The walk over i characters is before, in, or after the token.
Phase(s, i, step, b, e, x) ==
    \/ step = 0 /\ b \notin 1..i
    \/ step = 1 /\ b \in 1..i /\ s[b] \in Plain /\ e \notin 1..i
    \/ step = 2 /\ b \in 1..i /\ s[b] \in Plain /\ e \in 1..i /\ x \notin 1..i

\* How much of the token that is.
size(i, step, b, e) == IF step = 0 THEN 0 ELSE IF step = 1 THEN i - b + 1 ELSE e - b

\* The character classes.
LEMMA Classes ==
    ASSUME NEW c \in Char
    PROVE  /\ c \in Blank \/ c = NL \/ c = HASH \/ c \in Plain
           /\ c \in Blank => c # NL /\ c # HASH /\ c \notin Plain /\ ~isgraph(c)
           /\ c = NL => c # HASH /\ c \notin Plain /\ ~isgraph(c)
           /\ c = HASH => c \notin Plain /\ isgraph(c)
           /\ c \in Plain => isgraph(c) /\ c # NL /\ c # HASH
           /\ (c \in Char \ Blank <=> c \notin Blank) /\ (c \in Char \ Plain <=> c \notin Plain)
  BY CharAssumption DEF Plain, isgraph

\* The numbers of TokenAt.
LEMMA TokenNumbers ==
    ASSUME NEW s \in Seq(Char), NEW b, NEW e, NEW x, TokenAt(s, b, e, x)
    PROVE  /\ Len(s) \in Nat /\ b \in 0..Len(s) /\ e \in 0..Len(s) /\ x \in 0..Len(s)
           /\ b = 0 => e = 0
           /\ e = 0 => x = 0
           /\ e # 0 => b <= e /\ (x # 0 => e <= x)
  <1>1. Len(s) \in Nat
    BY LenProperties
  <1>2. b \in 0..Len(s)
    BY <1>1 DEF TokenAt, IsFirst
  <1>3. e \in 0..Len(s) /\ (b = 0 => e = 0) /\ (e # 0 => b <= e)
    BY <1>1, <1>2 DEF TokenAt, IsFirst
  <1>4. x \in 0..Len(s) /\ (e = 0 => x = 0) /\ (e # 0 /\ x # 0 => e <= x)
    BY <1>1, <1>3 DEF TokenAt, IsFirst
  <1> QED  BY <1>1, <1>2, <1>3, <1>4

\* The first position y from i on is not among those up to k.
Beyond(s, S, i, k, y) ==
    IsFirst(s, S, i, y) /\ i # 0 /\ i <= k + 1 /\ k + 1 <= Len(s) /\ y \notin i..k

\* A first position cannot be passed.
LEMMA FirstHere ==
    ASSUME NEW s \in Seq(Char), NEW S, NEW i \in Nat, NEW k \in Nat, NEW y,
           Beyond(s, S, i, k, y)
    PROVE  /\ s[k + 1] \in S => y = k + 1
           /\ s[k + 1] \notin S => y \notin i..(k + 1)
  <1>0. IsFirst(s, S, i, y) /\ i # 0 /\ i <= k + 1 /\ k + 1 <= Len(s) /\ y \notin i..k
    BY DEF Beyond
  <1>1. Len(s) \in Nat
    BY LenProperties
  <1>2. CASE s[k + 1] \in S
    <2>1. y # 0
      BY <1>0, <1>1, <1>2 DEF IsFirst
    <2>2. y \in i..Len(s) /\ \A j \in i..(y - 1) : s[j] \notin S
      BY <1>0, <2>1 DEF IsFirst
    <2>3. ~(k + 1 < y)
      BY <1>0, <1>1, <1>2, <2>2
    <2> QED  BY <1>0, <1>1, <1>2, <2>2, <2>3
  <1>3. CASE s[k + 1] \notin S
    <2>1. y # k + 1
      BY <1>0, <1>1, <1>3 DEF IsFirst
    <2> QED  BY <1>0, <1>1, <1>3, <2>1 DEF IsFirst
  <1> QED  BY <1>2, <1>3

\* A blank is skipped or ends the token.
LEMMA PhaseBlank ==
    ASSUME NEW s \in Seq(Char), NEW i \in Nat, i < Len(s), NEW step, NEW b, NEW e, NEW x,
           TokenAt(s, b, e, x), Phase(s, i, step, b, e, x), s[i + 1] \in Blank
    PROVE  /\ Phase(s, i + 1, IF step = 1 THEN 2 ELSE step, b, e, x)
           /\ step = 1 => e = i + 1
  <1>1. /\ Len(s) \in Nat /\ b \in 0..Len(s) /\ e \in 0..Len(s) /\ x \in 0..Len(s)
        /\ b = 0 => e = 0
        /\ e = 0 => x = 0
        /\ e # 0 => b <= e /\ (x # 0 => e <= x)
    BY TokenNumbers
  <1>2. i + 1 \in 1..Len(s) /\ i + 1 \in Nat /\ (i + 1) - 1 = i /\ 1 <= i + 1
    BY <1>1
  <1>3. s[i + 1] \in Char
    BY <1>2, ElementOfSeq
  <1>4. s[i + 1] \notin Char \ Blank /\ s[i + 1] \in Char \ Plain
    BY <1>3, Classes
  <1>5. CASE step = 0
    <2>1. Beyond(s, Char \ Blank, 1, i, b)
      BY <1>2, <1>5 DEF Phase, TokenAt, Beyond
    <2>2. b \notin 1..(i + 1)
      BY <1>4, <2>1, FirstHere, 1 \in Nat
    <2> QED  BY <1>5, <2>2 DEF Phase
  <1>6. CASE step = 1
    <2>1. b \in 1..i /\ s[b] \in Plain /\ e \notin 1..i
      BY <1>6 DEF Phase
    <2>2. IsFirst(s, Char \ Plain, b, e)
      BY <2>1 DEF TokenAt
    <2>3. b \in Nat /\ Beyond(s, Char \ Plain, b, i, e)
      BY <1>1, <2>1, <2>2 DEF Beyond
    <2>4. e = i + 1
      BY <1>4, <2>3, FirstHere
    <2>5. IsFirst(s, Char \ Blank, i + 1, x)
      BY <1>2, <2>4 DEF TokenAt
    <2>6. x \notin (i + 1)..(i + 1)
      <3>1. Beyond(s, Char \ Blank, i + 1, i, x)
        BY <1>1, <1>2, <2>5 DEF Beyond
      <3> QED  BY <1>2, <1>4, <3>1, FirstHere
    <2>7. x \notin 1..(i + 1)
      BY <1>1, <1>2, <2>4, <2>6
    <2>8. b \in 1..(i + 1) /\ e \in 1..(i + 1)
      BY <1>2, <2>1, <2>4
    <2> QED  BY <1>6, <2>1, <2>4, <2>7, <2>8 DEF Phase
  <1>7. CASE step = 2
    <2>1. b \in 1..i /\ s[b] \in Plain /\ e \in 1..i /\ x \notin 1..i
      BY <1>7 DEF Phase
    <2>2. e \in Nat /\ e # 0 /\ Beyond(s, Char \ Blank, e, i, x)
      BY <1>1, <2>1 DEF TokenAt, Beyond
    <2>3. x \notin e..(i + 1)
      BY <1>4, <2>2, FirstHere
    <2>4. x \notin 1..(i + 1) /\ b \in 1..(i + 1) /\ e \in 1..(i + 1)
      BY <1>1, <2>1, <2>3
    <2> QED  BY <1>7, <2>1, <2>4 DEF Phase
  <1> QED  BY <1>5, <1>6, <1>7 DEF Phase

\* A delimiter is the next thing.
LEMMA PhaseDelimiter ==
    ASSUME NEW s \in Seq(Char), NEW i \in Nat, i < Len(s), NEW step, NEW b, NEW e, NEW x,
           TokenAt(s, b, e, x), Phase(s, i, step, b, e, x), s[i + 1] \in {NL, HASH}
    PROVE  x = i + 1 /\ e # 0 /\ e - b = size(i, step, b, e)
  <1>1. /\ Len(s) \in Nat /\ b \in 0..Len(s) /\ e \in 0..Len(s) /\ x \in 0..Len(s)
        /\ b = 0 => e = 0
        /\ e = 0 => x = 0
        /\ e # 0 => b <= e /\ (x # 0 => e <= x)
    BY TokenNumbers
  <1>2. i + 1 \in 1..Len(s) /\ i + 1 \in Nat /\ (i + 1) - 1 = i /\ 1 <= i + 1 /\ i + 1 <= i + 1 /\ i + 1 # 0
    BY <1>1
  <1>3. s[i + 1] \in Char
    BY <1>2, ElementOfSeq
  <1>4. s[i + 1] \in Char \ Blank /\ s[i + 1] \in Char \ Plain /\ s[i + 1] \notin Plain
    BY <1>3, Classes
  <1>5. ASSUME e = i + 1
        PROVE  x = i + 1
    <2>1. Beyond(s, Char \ Blank, i + 1, i, x)
      BY <1>1, <1>2, <1>5 DEF TokenAt, Beyond
    <2> QED  BY <1>2, <1>4, <2>1, FirstHere
  <1>6. CASE step = 0
    <2>1. Beyond(s, Char \ Blank, 1, i, b)
      BY <1>2, <1>6 DEF Phase, TokenAt, Beyond
    <2>2. b = i + 1
      BY <1>4, <2>1, FirstHere, 1 \in Nat
    <2>3. e = i + 1
      BY <1>4, <2>2 DEF TokenAt
    <2> QED  BY <1>2, <1>5, <1>6, <2>2, <2>3 DEF size
  <1>7. CASE step = 1
    <2>1. b \in 1..i /\ s[b] \in Plain /\ e \notin 1..i
      BY <1>7 DEF Phase
    <2>2. IsFirst(s, Char \ Plain, b, e)
      BY <2>1 DEF TokenAt
    <2>3. b \in Nat /\ Beyond(s, Char \ Plain, b, i, e)
      BY <1>1, <2>1, <2>2 DEF Beyond
    <2>4. e = i + 1
      BY <1>4, <2>3, FirstHere
    <2> QED  BY <1>2, <1>5, <1>7, <2>3, <2>4 DEF size
  <1>8. CASE step = 2
    <2>1. b \in 1..i /\ s[b] \in Plain /\ e \in 1..i /\ x \notin 1..i
      BY <1>8 DEF Phase
    <2>2. e \in Nat /\ e # 0 /\ Beyond(s, Char \ Blank, e, i, x)
      BY <1>1, <2>1 DEF TokenAt, Beyond
    <2>3. x = i + 1
      BY <1>4, <2>2, FirstHere
    <2> QED  BY <1>8, <2>2, <2>3 DEF size
  <1> QED  BY <1>6, <1>7, <1>8 DEF Phase

\* Another character begins the token, belongs to it, or is the next thing.
LEMMA PhasePlain ==
    ASSUME NEW s \in Seq(Char), NEW i \in Nat, i < Len(s), NEW step, NEW b, NEW e, NEW x,
           TokenAt(s, b, e, x), Phase(s, i, step, b, e, x), s[i + 1] \in Plain
    PROVE  /\ step = 2 => x = i + 1 /\ e # 0
           /\ step = 0 => b = i + 1
           /\ step # 2 => Phase(s, i + 1, 1, b, e, x)
  <1>1. /\ Len(s) \in Nat /\ b \in 0..Len(s) /\ e \in 0..Len(s) /\ x \in 0..Len(s)
        /\ b = 0 => e = 0
        /\ e = 0 => x = 0
        /\ e # 0 => b <= e /\ (x # 0 => e <= x)
    BY TokenNumbers
  <1>2. i + 1 \in 1..Len(s) /\ i + 1 \in Nat /\ (i + 1) - 1 = i /\ 1 <= i + 1 /\ i + 1 <= i + 1 /\ i + 1 # 0
    BY <1>1
  <1>3. s[i + 1] \in Char
    BY <1>2, ElementOfSeq
  <1>4. s[i + 1] \in Char \ Blank /\ s[i + 1] \notin Char \ Plain /\ s[i + 1] \in Plain
    BY <1>3, Classes
  <1>5. CASE step = 0
    <2>1. Beyond(s, Char \ Blank, 1, i, b)
      BY <1>2, <1>5 DEF Phase, TokenAt, Beyond
    <2>2. b = i + 1
      BY <1>4, <2>1, FirstHere, 1 \in Nat
    <2>3. Beyond(s, Char \ Plain, i + 1, i, e)
      BY <1>1, <1>2, <1>4, <2>2 DEF TokenAt, Beyond
    <2>4. e \notin (i + 1)..(i + 1)
      BY <1>2, <1>4, <2>3, FirstHere
    <2>5. e \notin 1..(i + 1) /\ b \in 1..(i + 1)
      BY <1>1, <1>2, <2>2, <2>4
    <2> QED  BY <1>4, <1>5, <2>2, <2>5 DEF Phase
  <1>6. CASE step = 1
    <2>1. b \in 1..i /\ s[b] \in Plain /\ e \notin 1..i
      BY <1>6 DEF Phase
    <2>2. IsFirst(s, Char \ Plain, b, e)
      BY <2>1 DEF TokenAt
    <2>3. b \in Nat /\ Beyond(s, Char \ Plain, b, i, e)
      BY <1>1, <2>1, <2>2 DEF Beyond
    <2>4. e \notin b..(i + 1)
      BY <1>4, <2>3, FirstHere
    <2>5. e \notin 1..(i + 1) /\ b \in 1..(i + 1)
      BY <1>1, <1>2, <2>1, <2>4
    <2> QED  BY <1>6, <2>1, <2>5 DEF Phase
  <1>7. CASE step = 2
    <2>1. b \in 1..i /\ s[b] \in Plain /\ e \in 1..i /\ x \notin 1..i
      BY <1>7 DEF Phase
    <2>2. e \in Nat /\ e # 0 /\ Beyond(s, Char \ Blank, e, i, x)
      BY <1>1, <2>1 DEF TokenAt, Beyond
    <2>3. x = i + 1
      BY <1>4, <2>2, FirstHere
    <2> QED  BY <1>7, <2>2, <2>3
  <1> QED  BY <1>5, <1>6, <1>7 DEF Phase

\* At the end of the data a token without an end is none.
LEMMA PhaseEnd ==
    ASSUME NEW s \in Seq(Char), NEW step, NEW b, NEW e, NEW x,
           TokenAt(s, b, e, x), Phase(s, Len(s), step, b, e, x)
    PROVE  x = 0 /\ (step = 2 <=> e # 0)
  <1>1. /\ Len(s) \in Nat /\ b \in 0..Len(s) /\ e \in 0..Len(s) /\ x \in 0..Len(s)
        /\ b = 0 => e = 0
        /\ e = 0 => x = 0
    BY TokenNumbers
  <1> QED  BY <1>1 DEF Phase

\* m characters from position b on.
Cut(s, b, m) == SubSeq(s, b, b + m - 1)

\* Such a part of the data.
LEMMA CutProperties ==
    ASSUME NEW s \in Seq(Char), NEW b \in Nat, NEW m \in Nat, b # 0, b + m <= Len(s) + 1
    PROVE  /\ Cut(s, b, m) \in Seq(Char) /\ Len(Cut(s, b, m)) = m
           /\ \A i \in 1..m : Cut(s, b, m)[i] = s[b + i - 1]
  <1>1. Len(s) \in Nat
    BY LenProperties
  <1>2. \A i \in b..(b + m - 1) : s[i] \in Char
    BY <1>1, ElementOfSeq
  <1>3. /\ SubSeq(s, b, b + m - 1) \in Seq(Char)
        /\ Len(SubSeq(s, b, b + m - 1)) = IF b <= b + m - 1 THEN (b + m - 1) - b + 1 ELSE 0
        /\ \A i \in 1..((b + m - 1) - b + 1) : SubSeq(s, b, b + m - 1)[i] = s[b + i - 1]
    BY <1>2, SubSeqProperties, b \in Int, b + m - 1 \in Int
  <1>4. (b + m - 1) - b + 1 = m
    OBVIOUS
  <1> QED  BY <1>3, <1>4 DEF Cut

\* No character at all.
LEMMA CutEmpty ==
    ASSUME NEW s, NEW b \in Nat
    PROVE  Cut(s, b, 0) = <<>>
  <1>1. b \in Int /\ b + 0 - 1 \in Int /\ b + 0 - 1 < b
    OBVIOUS
  <1> QED  BY <1>1, SubSeqEmpty DEF Cut

\* One character more.
LEMMA CutNext ==
    ASSUME NEW s \in Seq(Char), NEW b \in Nat, NEW m \in Nat, b # 0, b + m <= Len(s)
    PROVE  Append(Cut(s, b, m), s[b + m]) = Cut(s, b, m + 1)
  <1> DEFINE t == Append(Cut(s, b, m), s[b + m])
             u == Cut(s, b, m + 1)
  <1>1. Len(s) \in Nat /\ b + m \in 1..Len(s) /\ b + m <= Len(s) + 1 /\ b + (m + 1) <= Len(s) + 1
        /\ m + 1 \in Nat
    BY LenProperties
  <1>2. s[b + m] \in Char
    BY <1>1, ElementOfSeq
  <1>3. /\ Cut(s, b, m) \in Seq(Char) /\ Len(Cut(s, b, m)) = m
        /\ \A i \in 1..m : Cut(s, b, m)[i] = s[b + i - 1]
    BY <1>1, CutProperties
  <1>4. /\ u \in Seq(Char) /\ Len(u) = m + 1
        /\ \A i \in 1..(m + 1) : u[i] = s[b + i - 1]
    BY <1>1, CutProperties
  <1>5. /\ t \in Seq(Char) /\ Len(t) = m + 1
        /\ \A i \in 1..m : t[i] = Cut(s, b, m)[i]
        /\ t[m + 1] = s[b + m]
    BY <1>2, <1>3, AppendProperties
  <1> HIDE DEF t, u
  <1>6. ASSUME NEW i \in 1..(m + 1)
        PROVE  t[i] = u[i]
    <2>1. CASE i = m + 1
      <3>1. b + (m + 1) - 1 = b + m
        OBVIOUS
      <3> QED  BY <1>4, <1>5, <2>1, <3>1
    <2>2. CASE i # m + 1
      <3>1. i \in 1..m
        BY <2>2
      <3> QED  BY <1>3, <1>4, <1>5, <3>1
    <2> QED  BY <2>1, <2>2
  <1>7. t = u
    BY <1>4, <1>5, <1>6, SeqEqual
  <1> QED  BY <1>7 DEF t, u

TokenType == [ptr : Place, step : 0..2, token : Seq(Char), finished : BOOLEAN,
              found : BOOLEAN, to : Place]

\* CO_fifo_readToken has found the token: where it goes on.
TokenResult(f, count, t, b, e, x) ==
    LET s == contents(f) IN
    /\ t.token = IF e = 0 THEN <<>> ELSE Cut(s, b, atMost(e - b, count))
    /\ t.found <=> x # 0 /\ (s[x] = NL \/ (s[x] = HASH /\ CO_fifo_CommSearch(Taken(f, x - 1))))
    /\ e = 0 => t.to = f.readPtr
    /\ e # 0 /\ x = 0 => t.to = f.writePtr
    /\ x # 0 /\ s[x] = NL => t.to = place(f.readPtr, x)
    /\ x # 0 /\ s[x] = HASH => t.to = cleared(Taken(f, x - 1)).readPtr
    /\ x # 0 /\ s[x] \in Plain => t.to = place(f.readPtr, x - 1)

\* After i turns.
TokenUpTo(f, count, t, i, b, e, x) ==
    LET s == contents(f) IN
    /\ t \in TokenType
    /\ ~t.finished => /\ i < Len(s) /\ t.ptr = place(f.readPtr, i) /\ ~t.found /\ t.to = f.readPtr
                      /\ Phase(s, i, t.step, b, e, x)
                      /\ t.token = Cut(s, b, atMost(size(i, t.step, b, e), count))
    /\ t.finished => TokenResult(f, count, t, b, e, x)

\* The search from a later place.
LEMMA SearchLater ==
    ASSUME NEW f \in CO_fifo_t, NEW k \in Nat, k <= Len(contents(f))
    PROVE  /\ CO_fifo_CommSearch(Taken(f, k)) \in BOOLEAN
           /\ cleared(Taken(f, k)).readPtr \in Place
  <1> DEFINE g == Taken(f, k)
  <1>1. g \in CO_fifo_t
    BY TakenRest
  <1>2. CO_fifo_CommSearch(g) \in BOOLEAN
    BY Zenon DEF CO_fifo_CommSearch
  <1> HIDE DEF g
  <1>3. PICK m \in Nat : cleared(g) = Taken(g, m) /\ CommandOf(contents(g), m)
    BY <1>1, Cleared
  <1>4. Taken(g, m) \in CO_fifo_t
    BY <1>1, <1>3, TakenRest DEF CommandOf
  <1> QED  BY <1>2, <1>3, <1>4 DEF g, CO_fifo_t

\* A turn that meets the end of the line or a comment.
LEMMA TokenDelimiter ==
    ASSUME NEW f \in CO_fifo_t, NEW count \in Nat, NEW i \in Nat, NEW t, NEW b, NEW e, NEW x,
           TokenAt(contents(f), b, e, x), TokenUpTo(f, count, t, i, b, e, x), ~t.finished,
           contents(f)[i + 1] \in {NL, HASH}
    PROVE  TokenUpTo(f, count, token_step(f, count, t), i + 1, b, e, x)
  <1> DEFINE s == contents(f)
             g == token_step(f, count, t)
             c == f.buf[t.ptr]
             from == [f EXCEPT !.readPtr = t.ptr]
             step == IF ~isgraph(c) /\ t.step = 1 THEN 2 ELSE t.step
             after == next(t.ptr)
  <1>0. s \in Seq(Char)
    BY Contents
  <1>1. /\ t \in TokenType /\ i < Len(s) /\ t.ptr = place(f.readPtr, i) /\ ~t.found
        /\ Phase(s, i, t.step, b, e, x)
        /\ t.token = Cut(s, b, atMost(size(i, t.step, b, e), count))
    BY DEF TokenUpTo
  <1>2. x = i + 1 /\ e # 0 /\ e - b = size(i, t.step, b, e)
    BY <1>0, <1>1, PhaseDelimiter
  <1>3. i <= Len(s) /\ i + 1 # 0 /\ (i + 1) - 1 = i /\ Len(s) \in Nat /\ i + 1 \in Nat /\ i + 1 <= Len(s)
    BY <1>0, <1>1, LenProperties
  <1>4. c = s[i + 1] /\ c \in Char /\ after = place(f.readPtr, i + 1) /\ t.ptr \in Place
    BY <1>1, <1>3, Step
  <1>5. after \in Place
    BY <1>3, <1>4, Step
  <1>6. from = Taken(f, i)
    BY <1>1 DEF Taken
  <1>7. CO_fifo_CommSearch(from) \in BOOLEAN /\ cleared(from).readPtr \in Place
    BY <1>3, <1>6, SearchLater
  <1>8. t.token = Cut(s, b, atMost(e - b, count))
    BY <1>1, <1>2
  <1>9. CASE c = HASH
    <2>0. isgraph(c) /\ c # NL /\ c \notin Plain
      BY <1>4, <1>9, Classes
    <2>1. g = [t EXCEPT !.finished = TRUE, !.found = CO_fifo_CommSearch(from), !.to = cleared(from).readPtr]
      BY <1>9, <2>0 DEF token_step
    <2> DEFINE found == CO_fifo_CommSearch(from)
               to    == cleared(from).readPtr
    <2> HIDE DEF s, g, c, from, found, to
    <2>2. found \in BOOLEAN /\ to \in Place
      BY <1>7 DEF found, to
    <2>3. g \in TokenType /\ g.finished = TRUE /\ g.found = found /\ g.to = to /\ g.token = t.token
      BY <1>1, <2>1, <2>2, Zenon DEF TokenType, found, to
    <2>4. found <=> CO_fifo_CommSearch(Taken(f, x - 1))
      BY <1>2, <1>3, <1>6 DEF found
    <2>5. to = cleared(Taken(f, x - 1)).readPtr
      BY <1>2, <1>3, <1>6 DEF to
    <2>6. s[x] = HASH /\ s[x] # NL /\ s[x] \notin Plain /\ x # 0
      BY <1>2, <1>3, <1>4, <1>9, <2>0
    <2>7. TokenResult(f, count, g, b, e, x)
      BY <1>2, <1>8, <2>3, <2>4, <2>5, <2>6, Zenon DEF TokenResult, s
    <2> QED  BY <2>3, <2>7 DEF TokenUpTo, g
  <1>10. CASE c = NL
    <2>0. ~isgraph(c) /\ c # HASH /\ c \notin Plain
      BY <1>4, <1>10, Classes
    <2>1. g = [[t EXCEPT !.step = step, !.token = t.token, !.ptr = after]
                 EXCEPT !.finished = TRUE, !.found = TRUE, !.to = [t EXCEPT !.step = step, !.token = t.token, !.ptr = after].ptr]
      BY <1>10, <2>0 DEF token_step
    <2>2. step \in 0..2
      BY <1>1 DEF TokenType
    <2> HIDE DEF s, g, c, step, after
    <2> DEFINE u == [t EXCEPT !.step = step, !.token = t.token, !.ptr = after]
    <2>3. u \in TokenType /\ u.ptr = after /\ u.token = t.token
      BY <1>1, <1>5, <2>2, Zenon DEF TokenType
    <2>4. g = [u EXCEPT !.finished = TRUE, !.found = TRUE, !.to = u.ptr]
      BY <2>1
    <2> HIDE DEF u
    <2>5. g \in TokenType /\ g.finished = TRUE /\ g.found = TRUE /\ g.to = after /\ g.token = t.token
      BY <1>5, <2>3, <2>4, Zenon DEF TokenType
    <2>6. s[x] = NL /\ s[x] # HASH /\ s[x] \notin Plain /\ x # 0
      BY <1>2, <1>3, <1>4, <1>10, <2>0
    <2>7. after = place(f.readPtr, x)
      BY <1>2, <1>4
    <2>8. TokenResult(f, count, g, b, e, x)
      BY <1>2, <1>8, <2>5, <2>6, <2>7, Zenon DEF TokenResult, s
    <2> QED  BY <2>5, <2>8 DEF TokenUpTo, g
  <1> QED  BY <1>4, <1>9, <1>10

\* The walk after a turn that went on, with more of the token or none.
moved(f, t, step, token) ==
    LET u == [t EXCEPT !.step = step, !.token = token, !.ptr = next(t.ptr)]
    IN  IF u.ptr # f.writePtr THEN u
        ELSE IF step = 2 THEN [u EXCEPT !.finished = TRUE, !.to = u.ptr]
        ELSE [u EXCEPT !.finished = TRUE, !.token = <<>>]

\* Such a turn, up to the end of the data.
LEMMA TokenMoves ==
    ASSUME NEW f \in CO_fifo_t, NEW count \in Nat, NEW i \in Nat, NEW t, NEW b, NEW e, NEW x,
           TokenAt(contents(f), b, e, x), TokenUpTo(f, count, t, i, b, e, x), ~t.finished,
           NEW step \in 0..2, NEW token \in Seq(Char),
           Phase(contents(f), i + 1, step, b, e, x),
           token = Cut(contents(f), b, atMost(size(i + 1, step, b, e), count))
    PROVE  TokenUpTo(f, count, moved(f, t, step, token), i + 1, b, e, x)
  <1> DEFINE s == contents(f)
             after == next(t.ptr)
             u == [t EXCEPT !.step = step, !.token = token, !.ptr = after]
             v == [u EXCEPT !.finished = TRUE, !.to = u.ptr]
             w == [u EXCEPT !.finished = TRUE, !.token = <<>>]
  <1>0. s \in Seq(Char)
    BY Contents
  <1>1. /\ t \in TokenType /\ i < Len(s) /\ t.ptr = place(f.readPtr, i) /\ ~t.found /\ t.to = f.readPtr
    BY DEF TokenUpTo
  <1>2. i <= Len(s) /\ Len(s) \in Nat /\ i + 1 \in Nat /\ i + 1 <= Len(s)
    BY <1>0, <1>1, LenProperties
  <1>3. after = place(f.readPtr, i + 1)
    BY <1>1, <1>2, Step
  <1>4. after \in Place /\ (after = f.writePtr <=> i + 1 = Len(s))
    BY <1>2, <1>3, Step
  <1>5. t.finished = FALSE /\ t.found = FALSE
    BY <1>1, Zenon DEF TokenType
  <1> HIDE DEF s, after
  <1>6. /\ u \in TokenType /\ u.ptr = after /\ u.step = step /\ u.token = token
        /\ u.finished = FALSE /\ u.found = FALSE /\ u.to = f.readPtr
    BY <1>1, <1>4, <1>5, Zenon DEF TokenType
  <1> HIDE DEF u
  <1>7. CASE u.ptr # f.writePtr
    <2>1. i + 1 < Len(s)
      BY <1>2, <1>4, <1>6, <1>7
    <2>2. TokenUpTo(f, count, u, i + 1, b, e, x)
      BY <1>3, <1>6, <2>1, Zenon DEF TokenUpTo, s
    <2> QED  BY <1>7, <2>2 DEF moved, u, after
  <1>8. CASE u.ptr = f.writePtr
    <2>1. i + 1 = Len(s) /\ after = f.writePtr
      BY <1>4, <1>6, <1>8
    <2>2. x = 0 /\ (step = 2 <=> e # 0)
      BY <1>0, <2>1, PhaseEnd DEF s
    <2>3. CASE step = 2
      <3>1. /\ v \in TokenType /\ v.finished = TRUE /\ v.found = FALSE /\ v.to = f.writePtr
            /\ v.token = token
        BY <1>4, <1>6, <2>1, Zenon DEF TokenType
      <3> HIDE DEF v
      <3>2. token = Cut(s, b, atMost(e - b, count))
        BY <2>3 DEF size, s
      <3>3. TokenResult(f, count, v, b, e, x)
        BY <2>2, <2>3, <3>1, <3>2, Zenon DEF TokenResult, s
      <3>4. TokenUpTo(f, count, v, i + 1, b, e, x)
        BY <3>1, <3>3 DEF TokenUpTo
      <3> QED  BY <1>8, <2>3, <3>4 DEF moved, u, v, after
    <2>4. CASE step # 2
      <3>0. <<>> \in Seq(Char)
        OBVIOUS
      <3>1. /\ w \in TokenType /\ w.finished = TRUE /\ w.found = FALSE /\ w.to = f.readPtr
            /\ w.token = <<>>
        BY <1>6, <3>0, Zenon DEF TokenType
      <3> HIDE DEF w
      <3>3. TokenResult(f, count, w, b, e, x)
        BY <2>2, <2>4, <3>1, Zenon DEF TokenResult, s
      <3>4. TokenUpTo(f, count, w, i + 1, b, e, x)
        BY <3>1, <3>3 DEF TokenUpTo
      <3> QED  BY <1>8, <2>4, <3>4 DEF moved, u, w, after
    <2> QED  BY <2>3, <2>4
  <1> QED  BY <1>7, <1>8

\* A turn that meets a blank.
LEMMA TokenBlank ==
    ASSUME NEW f \in CO_fifo_t, NEW count \in Nat, NEW i \in Nat, NEW t, NEW b, NEW e, NEW x,
           TokenAt(contents(f), b, e, x), TokenUpTo(f, count, t, i, b, e, x), ~t.finished,
           contents(f)[i + 1] \in Blank
    PROVE  TokenUpTo(f, count, token_step(f, count, t), i + 1, b, e, x)
  <1> DEFINE s == contents(f)
             c == f.buf[t.ptr]
             step == IF t.step = 1 THEN 2 ELSE t.step
  <1>0. s \in Seq(Char)
    BY Contents
  <1>1. /\ t \in TokenType /\ i < Len(s) /\ t.ptr = place(f.readPtr, i)
        /\ Phase(s, i, t.step, b, e, x)
        /\ t.token = Cut(s, b, atMost(size(i, t.step, b, e), count))
    BY DEF TokenUpTo
  <1>2. i <= Len(s) /\ Len(s) \in Nat
    BY <1>0, <1>1, LenProperties
  <1>3. c = s[i + 1] /\ c \in Char
    BY <1>1, <1>2, Step
  <1>4. ~isgraph(c) /\ c # NL /\ c # HASH
    BY <1>3, Classes
  <1>5. step \in 0..2 /\ t.step \in 0..2 /\ t.token \in Seq(Char)
    BY <1>1 DEF TokenType
  <1>6. Phase(s, i + 1, step, b, e, x) /\ (t.step = 1 => e = i + 1)
    BY <1>0, <1>1, PhaseBlank
  <1>7. b \in Nat
    BY <1>0, TokenNumbers
  <1>8. size(i + 1, step, b, e) = size(i, t.step, b, e)
    BY <1>5, <1>6, <1>7 DEF size
  <1>9. token_step(f, count, t) = moved(f, t, step, t.token)
    BY <1>4 DEF token_step, moved
  <1>10. t.token = Cut(s, b, atMost(size(i + 1, step, b, e), count))
    BY <1>1, <1>8
  <1> HIDE DEF step
  <1> QED  BY <1>5, <1>6, <1>9, <1>10, TokenMoves

\* A turn that meets another character.
LEMMA TokenPlain ==
    ASSUME NEW f \in CO_fifo_t, NEW count \in Nat, NEW i \in Nat, NEW t, NEW b, NEW e, NEW x,
           TokenAt(contents(f), b, e, x), TokenUpTo(f, count, t, i, b, e, x), ~t.finished,
           contents(f)[i + 1] \in Plain
    PROVE  TokenUpTo(f, count, token_step(f, count, t), i + 1, b, e, x)
  <1> DEFINE s == contents(f)
             c == f.buf[t.ptr]
             token == IF Len(t.token) < count THEN Append(t.token, c) ELSE t.token
             m == size(i, t.step, b, e)
  <1>0. s \in Seq(Char)
    BY Contents
  <1>1. /\ t \in TokenType /\ i < Len(s) /\ t.ptr = place(f.readPtr, i) /\ ~t.found
        /\ Phase(s, i, t.step, b, e, x)
        /\ t.token = Cut(s, b, atMost(m, count))
    BY DEF TokenUpTo
  <1>2. i <= Len(s) /\ Len(s) \in Nat /\ i + 1 \in Nat /\ i + 1 # 0 /\ (i + 1) - 1 = i
    BY <1>0, <1>1, LenProperties
  <1>3. c = s[i + 1] /\ c \in Char /\ t.ptr \in Place
    BY <1>1, <1>2, Step
  <1>4. isgraph(c) /\ c # NL /\ c # HASH /\ c \in Plain
    BY <1>3, Classes
  <1>5. t.step \in 0..2 /\ t.token \in Seq(Char)
    BY <1>1 DEF TokenType
  <1>6. /\ t.step = 2 => x = i + 1 /\ e # 0
        /\ t.step = 0 => b = i + 1
        /\ t.step # 2 => Phase(s, i + 1, 1, b, e, x)
    BY <1>0, <1>1, PhasePlain
  <1>7. b \in Nat
    BY <1>0, TokenNumbers
  <1>8. CASE t.step = 2
    <2> DEFINE g == [t EXCEPT !.finished = TRUE, !.to = t.ptr]
    <2>1. token_step(f, count, t) = g
      BY <1>4, <1>8 DEF token_step
    <2>2. t.found = FALSE
      BY <1>1, Zenon DEF TokenType
    <2>3. /\ g \in TokenType /\ g.finished = TRUE /\ g.found = FALSE /\ g.to = t.ptr /\ g.token = t.token
      BY <1>1, <1>3, <2>2, Zenon DEF TokenType
    <2>4. x # 0 /\ e # 0 /\ s[x] = c /\ t.ptr = place(f.readPtr, x - 1)
      BY <1>1, <1>2, <1>3, <1>6, <1>8
    <2>5. t.token = Cut(s, b, atMost(e - b, count))
      BY <1>1, <1>8 DEF size
    <2> HIDE DEF g, s, c
    <2>6. TokenResult(f, count, g, b, e, x)
      BY <1>4, <2>3, <2>4, <2>5, Zenon DEF TokenResult, s
    <2> QED  BY <2>1, <2>3, <2>6 DEF TokenUpTo
  <1>9. CASE t.step # 2
    <2>1. /\ m \in Nat /\ b + m = i + 1 /\ size(i + 1, 1, b, e) = m + 1 /\ b # 0
      <3>1. t.step = 1 => b \in 1..i
        BY <1>1 DEF Phase
      <3> QED  BY <1>2, <1>5, <1>6, <1>7, <1>9, <3>1 DEF size
    <2> HIDE DEF m
    <2>2. atMost(m, count) \in Nat /\ b + atMost(m, count) <= Len(s) + 1
      BY <1>1, <1>2, <1>7, <2>1 DEF atMost
    <2>3. Len(t.token) = atMost(m, count)
      BY <1>0, <1>1, <1>7, <2>1, <2>2, CutProperties
    <2>4. token \in Seq(Char)
      BY <1>3, <1>5, AppendProperties
    <2>5. token = Cut(s, b, atMost(m + 1, count))
      <3>1. CASE m < count
        <4>1. atMost(m, count) = m /\ atMost(m + 1, count) = m + 1 /\ b + m <= Len(s)
          BY <1>1, <1>2, <2>1, <3>1 DEF atMost
        <4>2. token = Append(t.token, s[b + m])
          BY <1>3, <2>1, <2>3, <3>1, <4>1
        <4>3. t.token = Cut(s, b, m)
          BY <1>1, <4>1
        <4> HIDE DEF token, s
        <4>4. Append(Cut(s, b, m), s[b + m]) = Cut(s, b, m + 1)
          BY <1>0, <1>7, <2>1, <4>1, CutNext
        <4> QED  BY <4>1, <4>2, <4>3, <4>4
      <3>2. CASE ~(m < count)
        <4>1. atMost(m, count) = count /\ atMost(m + 1, count) = count
          BY <2>1, <3>2 DEF atMost
        <4>2. Len(t.token) = count /\ ~(count < count)
          BY <2>3, <4>1
        <4>3. token = t.token
          BY <4>2
        <4> HIDE DEF token
        <4> QED  BY <1>1, <4>1, <4>3
      <3> QED  BY <3>1, <3>2
    <2>6. token = Cut(s, b, atMost(size(i + 1, 1, b, e), count))
      BY <2>1, <2>5
    <2>7. t.step <= 1
      BY <1>5, <1>9
    <2>8. token_step(f, count, t) = moved(f, t, 1, token)
      BY <1>4, <1>9, <2>7 DEF token_step, moved
    <2>9. 1 \in 0..2 /\ 1 # 2
      OBVIOUS
    <2>10. Phase(s, i + 1, 1, b, e, x)
      BY <1>6, <1>9
    <2> HIDE DEF token
    <2> QED  BY <2>4, <2>6, <2>8, <2>9, <2>10, TokenMoves
  <1> QED  BY <1>8, <1>9

\* One turn.
LEMMA TokenStep ==
    ASSUME NEW f \in CO_fifo_t, NEW count \in Nat, NEW i \in Nat, NEW t, NEW b, NEW e, NEW x,
           TokenAt(contents(f), b, e, x), TokenUpTo(f, count, t, i, b, e, x)
    PROVE  TokenUpTo(f, count, token_step(f, count, t), i + 1, b, e, x)
  <1> DEFINE s == contents(f)
  <1>1. CASE t.finished
    <2>1. token_step(f, count, t) = t
      BY <1>1 DEF token_step
    <2>2. TokenUpTo(f, count, t, i + 1, b, e, x)
      BY <1>1 DEF TokenUpTo
    <2> QED  BY <2>1, <2>2
  <1>2. CASE ~t.finished
    <2>1. s \in Seq(Char) /\ i < Len(s)
      BY <1>2, Contents DEF TokenUpTo
    <2>2. s[i + 1] \in Char
      BY <2>1, LenProperties, ElementOfSeq
    <2>3. s[i + 1] \in Blank \/ s[i + 1] \in {NL, HASH} \/ s[i + 1] \in Plain
      BY <2>2, Classes
    <2> QED  BY <1>2, <2>3, TokenBlank, TokenDelimiter, TokenPlain
  <1> QED  BY <1>1, <1>2

\* The result of CO_fifo_readToken that the walk t gives.
tokenReturn(count, expect, t) ==
    [to |-> t.to,
     ret |-> Ret(IF Len(t.token) = count THEN 0 ELSE Len(t.token),
                 IF Len(t.token) = count THEN <<>> ELSE t.token,
                 t.found,
                 \/ Len(t.token) = count
                 \/ expect = 1 /\ (~t.found \/ t.token = <<>>)
                 \/ expect = 0 /\ (t.found \/ t.token = <<>>))]

\* All turns: as many as there are characters.
LEMMA TokenLoop ==
    ASSUME NEW f \in CO_fifo_t, NEW count \in Nat, NEW expect, NEW b, NEW e, NEW x,
           TokenAt(contents(f), b, e, x)
    PROVE  \E t \in TokenType : /\ CO_fifo_readToken(f, count, expect) = tokenReturn(count, expect, t)
                                /\ TokenResult(f, count, t, b, e, x)
  <1> DEFINE n       == bufSize
             a       == [ptr |-> f.readPtr, step |-> 0, token |-> <<>>, found |-> FALSE,
                         finished |-> f.readPtr = f.writePtr, to |-> f.readPtr]
             S       == {t \in TokenType : \E i \in Nat : TokenUpTo(f, count, t, i, b, e, x)}
             pass(h) == [i \in 0..n |-> IF i = 0 THEN a ELSE token_step(f, count, h[i - 1])]
             run     == CHOOSE h : h = pass(h)
             step    == [i \in 1..n |-> [y \in S |-> token_step(f, count, y)]]
             After   == [i \in 0..n |-> {t \in S : TokenUpTo(f, count, t, i, b, e, x)}]
             s       == contents(f)
  <1>0. /\ f.readPtr \in Place /\ f.writePtr \in Place /\ n \in Nat
        /\ s \in Seq(Char) /\ Len(s) \in Nat /\ Len(s) < n
    BY Contents, SizeAssumption DEF CO_fifo_t, Place
  <1>1. CO_fifo_readToken(f, count, expect) = tokenReturn(count, expect, run[n])
    BY DEF CO_fifo_readToken, tokenReturn
  <1>2. TokenUpTo(f, count, a, 0, b, e, x)
    <2> DEFINE empty == (f.readPtr = f.writePtr)
    <2>1. empty \in BOOLEAN /\ <<>> \in Seq(Char) /\ 0 \in 0..2
      OBVIOUS
    <2>2. empty <=> Len(s) = 0
      BY <1>0, Contents, Distance
    <2>3. a = [ptr |-> f.readPtr, step |-> 0, token |-> <<>>, found |-> FALSE,
               finished |-> empty, to |-> f.readPtr]
      OBVIOUS
    <2> HIDE DEF empty, a
    <2>4. /\ a \in TokenType /\ a.ptr = f.readPtr /\ a.step = 0 /\ a.token = <<>> /\ a.found = FALSE
          /\ a.finished = empty /\ a.to = f.readPtr
      BY <1>0, <2>1, <2>3, Zenon DEF TokenType
    <2>5. place(f.readPtr, 0) = f.readPtr
      BY <1>0, SizeAssumption DEF place, Place
    <2>6. /\ b \in 0..Len(s) /\ e \in 0..Len(s) /\ x \in 0..Len(s) /\ b \in Nat
      BY <1>0, TokenNumbers
    <2>7. CASE empty
      <3>1. e = 0 /\ x = 0
        BY <2>2, <2>6, <2>7
      <3>2. TokenResult(f, count, a, b, e, x)
        BY <2>4, <3>1, Zenon DEF TokenResult
      <3> QED  BY <2>4, <2>7, <3>2, Zenon DEF TokenUpTo
    <2>8. CASE ~empty
      <3>1. 0 < Len(s)
        BY <1>0, <2>2, <2>8
      <3>2. Phase(s, 0, 0, b, e, x)
        BY <2>6 DEF Phase
      <3>3. atMost(size(0, 0, b, e), count) = 0
        BY DEF atMost, size
      <3>4. Cut(s, b, 0) = <<>>
        BY <2>6, CutEmpty
      <3> QED  BY <2>4, <2>5, <2>8, <3>1, <3>2, <3>3, <3>4, Zenon DEF TokenUpTo
    <2> QED  BY <2>7, <2>8
  <1>3. a \in S
    <2>1. a \in TokenType
      BY <1>2 DEF TokenUpTo
    <2> HIDE DEF a
    <2> QED  BY <1>2, <2>1, 0 \in Nat
  <1>4. ASSUME NEW y, NEW i \in Nat, TokenUpTo(f, count, y, i, b, e, x)
        PROVE  token_step(f, count, y) \in S /\ TokenUpTo(f, count, token_step(f, count, y), i + 1, b, e, x)
    <2>1. TokenUpTo(f, count, token_step(f, count, y), i + 1, b, e, x)
      BY <1>4, TokenStep
    <2>2. token_step(f, count, y) \in TokenType /\ i + 1 \in Nat
      BY <2>1 DEF TokenUpTo
    <2> QED  BY <2>1, <2>2
  <1>5. \A y \in S : token_step(f, count, y) \in S
    <2> SUFFICES ASSUME NEW y \in S
                 PROVE  token_step(f, count, y) \in S
      OBVIOUS
    <2>1. PICK i \in Nat : TokenUpTo(f, count, y, i, b, e, x)
      OBVIOUS
    <2> HIDE DEF S
    <2> QED  BY <1>4, <2>1
  <1> HIDE DEF a, S, n
  <1>6. step \in [1..n -> [S -> S]]
    BY <1>5
  <1>7. PICK l \in [0..n -> S] : IsLoop(l, n, a, step)
    <2> HIDE DEF step
    <2> QED  BY <1>0, <1>3, <1>6, LoopExists
  <1>8. l = pass(l)
    <2>1. ASSUME NEW i \in 1..n
          PROVE  l[i] = token_step(f, count, l[i - 1])
      <3>1. l[i - 1] \in S
        BY <1>0
      <3> QED  BY <1>7, <3>1 DEF IsLoop
    <2> QED  BY <1>0, <1>7, <2>1 DEF IsLoop
  <1>9. run = pass(run)
    <2> HIDE DEF pass
    <2> QED  BY <1>8, Zenon
  <1> HIDE DEF run
  <1>10. run[0] = a /\ \A i \in 1..n : run[i] = token_step(f, count, run[i - 1])
    BY <1>0, <1>9
  <1>11. \A i \in 0..n : run[i] \in After[i]
    <2>1. run[0] \in After[0]
      BY <1>0, <1>2, <1>3, <1>10
    <2>2. ASSUME NEW i \in 1..n, run[i - 1] \in After[i - 1]
          PROVE  run[i] \in After[i]
      <3>1. i - 1 \in Nat /\ (i - 1) + 1 = i /\ i - 1 \in 0..n /\ i \in 0..n
        BY <1>0
      <3>2. TokenUpTo(f, count, run[i - 1], i - 1, b, e, x)
        BY <2>2, <3>1
      <3>3. /\ token_step(f, count, run[i - 1]) \in S
            /\ TokenUpTo(f, count, token_step(f, count, run[i - 1]), i, b, e, x)
        BY <1>4, <3>1, <3>2
      <3> QED  BY <1>10, <3>1, <3>3
    <2> HIDE DEF After
    <2> QED  BY <1>0, <2>1, <2>2, LoopAssertions
  <1>12. n \in 0..n /\ ~(n < Len(s))
    BY <1>0
  <1>13. TokenUpTo(f, count, run[n], n, b, e, x)
    BY <1>11, <1>12
  <1>14. run[n] \in TokenType /\ TokenResult(f, count, run[n], b, e, x)
    BY <1>12, <1>13 DEF TokenUpTo
  <1> QED  BY <1>1, <1>14
-----------------------------------------------------------------------------
(* The actions *)

\* The second reader is not ahead of the data.
FifoInv == /\ fifo \in CO_fifo_t
           /\ alt \in BOOLEAN
           /\ alt => between(fifo.readPtr, fifo.altReadPtr) <= Len(contents(fifo))

\* The two modules write results in the same way.
LEMMA SameRet ==
    ASSUME NEW n, NEW data, NEW a, NEW b
    PROVE  Q!Ret(n, data, a, b) = Ret(n, data, a, b)
  BY DEF Q!Ret, Ret

\* The invariant holds whatever is written or taken while the second reader is
\* not in use.
LEMMA InvNext ==
    ASSUME FifoInv, ~alt, fifo' \in CO_fifo_t, UNCHANGED alt
    PROVE  FifoInv'
  BY DEF FifoInv

\* The first k characters are taken.
LEMMA TakenNext ==
    ASSUME FifoInv, ~alt, NEW k \in Nat, k <= Len(contents(fifo)),
           fifo' = Taken(fifo, k), UNCHANGED alt
    PROVE  FifoInv' /\ contents(fifo)' = Q!From(k + 1)
  <1>1. fifo \in CO_fifo_t
    BY DEF FifoInv
  <1>2. fifo' \in CO_fifo_t /\ contents(fifo') = SubSeq(contents(fifo), k + 1, Len(contents(fifo)))
    BY <1>1, TakenRest
  <1> QED  BY <1>2, InvNext DEF Q!From

\* CO_fifo_write.
LEMMA WriteImplements ==
    ASSUME FifoInv, NEW s \in Text, Write(s)
    PROVE  FifoInv' /\ Q!Write(s)
  <1> DEFINE g == CO_fifo_write(fifo, s)
             q == contents(fifo)
             m == atMost(Len(s), bufSize - 1 - Len(q))
  <1>1. fifo \in CO_fifo_t /\ s \in Seq(Char) /\ Len(s) \in Nat
    BY CallsAssumption, LenProperties DEF FifoInv
  <1>2. /\ g \in CO_fifo_t /\ g.readPtr = fifo.readPtr /\ g.altReadPtr = fifo.altReadPtr
        /\ m \in Nat /\ m <= Len(s) /\ bufSize - 1 - Len(q) \in Nat
        /\ contents(g) = q \o SubSeq(s, 1, m)
        /\ between(fifo.writePtr, g.writePtr) = m
    BY <1>1, Written
  <1>3. /\ fifo' = g /\ UNCHANGED alt
        /\ res' = Ret(between(fifo.writePtr, g.writePtr), <<>>, FALSE, FALSE)
    BY DEF Write
  <1>4. Q!Min({Len(s), bufSize - 1 - Len(q)}) = m
    BY <1>1, <1>2, LeastOfTwo
  <1>5. SubSeq(s, 1, m) \in Seq(Char)
    <2>1. \A i \in 1..m : s[i] \in Char
      BY <1>1, <1>2, ElementOfSeq
    <2> QED  BY <1>1, <1>2, <2>1, SubSeqProperties, 1 \in Int, m \in Int
  <1>6. Len(contents(g)) >= Len(q)
    <2>1. q \in Seq(Char)
      BY <1>1, Contents
    <2>2. Len(q \o SubSeq(s, 1, m)) = Len(q) + Len(SubSeq(s, 1, m))
      BY <1>5, <2>1, ConcatProperties
    <2>3. Len(q) \in Nat /\ Len(SubSeq(s, 1, m)) \in Nat
      BY <1>5, <2>1, LenProperties
    <2> HIDE DEF g, q, m
    <2> QED  BY <1>2, <2>2, <2>3
  <1> HIDE DEF g, m
  <1>7. FifoInv'
    <2>1. Len(q) \in Nat /\ Len(contents(g)) \in Nat
      BY <1>1, <1>2, Contents, LenProperties
    <2>2. alt => between(fifo.readPtr, fifo.altReadPtr) <= Len(q) /\ between(fifo.readPtr, fifo.altReadPtr) \in Nat
      BY <1>1, Distance, SizeAssumption DEF FifoInv, CO_fifo_t, Place
    <2>3. alt => between(g.readPtr, g.altReadPtr) <= Len(contents(g))
      BY <1>2, <1>6, <2>1, <2>2
    <2> HIDE DEF q
    <2> QED  BY <1>2, <1>3, <2>3 DEF FifoInv
  <1>8. contents(fifo)' = q \o SubSeq(s, 1, m)
    BY <1>2, <1>3
  <1>9. res' = Q!Ret(m, <<>>, FALSE, FALSE)
    BY <1>2, <1>3, SameRet
  <1>10. (IF alt THEN between(fifo.readPtr, fifo.altReadPtr) ELSE -1)' =
           (IF alt THEN between(fifo.readPtr, fifo.altReadPtr) ELSE -1)
    BY <1>2, <1>3
  <1> QED  BY <1>4, <1>7, <1>8, <1>9, <1>10 DEF Q!Write

\* CO_fifo_putc_ov.
LEMMA OverwriteImplements ==
    ASSUME FifoInv, NEW c \in Char, Overwrite(c)
    PROVE  FifoInv' /\ Q!Overwrite(c)
  <1> DEFINE g == CO_fifo_putc_ov(fifo, c)
             s == Append(contents(fifo), c)
  <1>1. fifo \in CO_fifo_t
    BY DEF FifoInv
  <1>2. g \in CO_fifo_t /\ contents(g) = IF Len(s) > bufSize - 1 THEN Tail(s) ELSE s
    BY <1>1, Overwritten
  <1>3. ~alt /\ fifo' = g /\ UNCHANGED alt /\ res' = Ret(0, <<>>, FALSE, FALSE)
    BY DEF Overwrite
  <1> HIDE DEF g
  <1>4. FifoInv'
    BY <1>2, <1>3, InvNext
  <1>5. contents(fifo)' = IF Len(s) > bufSize - 1 THEN Tail(s) ELSE s
    BY <1>2, <1>3
  <1>6. res' = Q!Ret(0, <<>>, FALSE, FALSE)
    BY <1>3, SameRet
  <1> QED  BY <1>3, <1>4, <1>5, <1>6 DEF Q!Overwrite

\* CO_fifo_read and CO_fifo_getc.
LEMMA ReadImplements ==
    ASSUME FifoInv, NEW n \in Count, NEW d \in BOOLEAN, Read(n, d)
    PROVE  FifoInv' /\ Q!Read(n, d)
  <1> DEFINE q == contents(fifo)
             t == CO_fifo_read(fifo, n, d)
             x == Q!First({NL}, 1)
             data == walked(fifo, fifo.readPtr, t.ptr)
             last == IF d /\ x \in 1..n THEN x ELSE Q!Min({n, Len(q)})
  <1>1. fifo \in CO_fifo_t /\ n \in Nat
    BY CallsAssumption DEF FifoInv
  <1>2. q \in Seq(Char) /\ Len(q) \in Nat
    BY <1>1, Contents, LenProperties
  <1>3. PICK k \in Nat : ReadUpTo(fifo, d, t, n, k)
    BY <1>1, ReadTo
  <1>4. /\ ~alt /\ fifo' = [fifo EXCEPT !.readPtr = t.ptr]
        /\ res' = Ret(Len(data), data, t.eof, FALSE) /\ UNCHANGED alt
    BY DEF Read
  <1> HIDE DEF t
  <1>5. /\ t.ptr = place(fifo.readPtr, k) /\ t.eof \in BOOLEAN
        /\ k <= Len(q) /\ k <= n
        /\ k < n => k = Len(q) \/ t.eof
        /\ t.eof => d /\ k > 0 /\ q[k] = NL
        /\ \A j \in 1..k : d /\ q[j] = NL => t.eof /\ j = k
    BY <1>3 DEF ReadUpTo
  <1>6. data = SubSeq(q, 1, k) /\ Len(data) = k
    <2>1. 0 <= k /\ 0 + 1 = 1 /\ 0 \in Nat /\ k - 0 = k
      OBVIOUS
    <2>2. place(fifo.readPtr, 0) = fifo.readPtr
      BY <1>1, SizeAssumption DEF place, Place, CO_fifo_t
    <2>3. data = SubSeq(q, 1, k) /\ between(fifo.readPtr, t.ptr) = k
      BY <1>1, <1>5, <2>1, <2>2, Part
    <2>4. fifo.readPtr \in Place /\ t.ptr \in Place
      BY <1>1, <1>5, Step DEF CO_fifo_t
    <2> QED  BY <1>1, <2>3, <2>4, WalkedSeq
  <1>7. IsFirst(q, {NL}, 1, x)
    BY <1>1, FirstFound, 1 \in Nat
  <1>8. Q!Min({n, Len(q)}) = atMost(n, Len(q))
    BY <1>1, <1>2, LeastOfTwo
  <1> HIDE DEF q, x, data
  <1>9. last = k
    <2>1. CASE t.eof
      <3>1. d /\ k \in 1..Len(q) /\ q[k] = NL /\ \A j \in 1..(k - 1) : q[j] # NL
        BY <1>2, <1>5, <2>1
      <3>2. x = k
        BY <1>2, <1>7, <3>1 DEF IsFirst
      <3> QED  BY <1>1, <1>5, <3>1, <3>2
    <2>2. CASE ~t.eof
      <3>1. k = atMost(n, Len(q))
        BY <1>1, <1>2, <1>5, <2>2 DEF atMost
      <3>2. ASSUME d, x \in 1..n
            PROVE  FALSE
        <4>1. x \in 1..Len(q) /\ q[x] = NL
          BY <1>7, <3>2 DEF IsFirst
        <4>2. x \in 1..k
          BY <1>1, <1>2, <3>1, <3>2, <4>1 DEF atMost
        <4> QED  BY <1>5, <2>2, <3>2, <4>1, <4>2
      <3> QED  BY <1>8, <3>1, <3>2
    <2> QED  BY <2>1, <2>2
  <1>10. t.eof <=> d /\ k > 0 /\ q[k] = NL
    BY <1>5
  <1>11. fifo' = Taken(fifo, k)
    BY <1>4, <1>5 DEF Taken
  <1>12. FifoInv' /\ contents(fifo)' = Q!From(k + 1)
    BY <1>4, <1>5, <1>11, TakenNext DEF q
  <1> HIDE DEF last
  <1>13. res' = Q!Ret(last, SubSeq(q, 1, last), d /\ last > 0 /\ q[last] = NL, FALSE)
    <2>1. t.eof = (d /\ k > 0 /\ q[k] = NL)
      BY <1>5, <1>10
    <2> QED  BY <1>4, <1>6, <1>9, <2>1, SameRet
  <1>14. ~alt /\ UNCHANGED alt /\ contents(fifo)' = Q!From(last + 1)
    BY <1>4, <1>9, <1>12
  <1> QED  BY <1>12, <1>13, <1>14 DEF Q!Read, last, q, x

\* CO_fifo_reset and CO_fifo_purge.
LEMMA ClearImplements ==
    ASSUME FifoInv, Clear
    PROVE  FifoInv' /\ Q!Clear
  <1> DEFINE g == [fifo EXCEPT !.readPtr = 0, !.writePtr = 0]
             q == contents(fifo)
  <1>1. fifo \in CO_fifo_t
    BY DEF FifoInv
  <1>2. /\ ~alt /\ UNCHANGED alt /\ ((fifo' = fifo /\ fifo.readPtr = fifo.writePtr) \/ fifo' = g)
        /\ res' = Ret(0, <<>>, fifo.readPtr # fifo.writePtr, FALSE)
    BY DEF Clear
  <1>3. 0 \in Place
    BY SizeAssumption DEF Place
  <1>4. fifo' \in CO_fifo_t /\ fifo'.readPtr = fifo'.writePtr
    BY <1>1, <1>2, <1>3 DEF CO_fifo_t
  <1>5. ASSUME NEW f \in CO_fifo_t
        PROVE  contents(f) = <<>> <=> f.readPtr = f.writePtr
    <2>1. /\ contents(f) \in Seq(Char) /\ Len(contents(f)) = between(f.readPtr, f.writePtr)
      BY Contents
    <2>2. Len(contents(f)) = 0 <=> f.readPtr = f.writePtr
      BY <2>1, Distance DEF CO_fifo_t
    <2> QED  BY <2>1, <2>2, EmptySeq
  <1>6. contents(fifo)' = <<>>
    BY <1>4, <1>5
  <1>7. FifoInv'
    BY <1>2, <1>4, InvNext
  <1>8. res' = Q!Ret(0, <<>>, q # <<>>, FALSE)
    <2>1. (q # <<>>) = (fifo.readPtr # fifo.writePtr)
      BY <1>1, <1>5
    <2> QED  BY <1>2, <2>1, SameRet
  <1> QED  BY <1>2, <1>6, <1>7, <1>8 DEF Q!Clear

\* CO_fifo_altBegin: the second reader starts from the first.
LEMMA AltBeginImplements ==
    ASSUME FifoInv, NEW n \in Count, AltBegin(n)
    PROVE  FifoInv' /\ Q!AltBegin(n)
  <1> DEFINE q == contents(fifo)
             m == atMost(n, Len(q))
             to == forward(fifo, fifo.readPtr, n)
  <1>1. fifo \in CO_fifo_t /\ n \in Nat /\ fifo.readPtr \in Place
    BY CallsAssumption DEF FifoInv, CO_fifo_t
  <1>2. q \in Seq(Char) /\ Len(q) \in Nat
    BY <1>1, Contents, LenProperties
  <1>3. place(fifo.readPtr, 0) = fifo.readPtr /\ 0 + n = n /\ 0 \in Nat /\ 0 <= Len(q)
    BY <1>1, <1>2, SizeAssumption DEF place, Place
  <1>4. to = place(fifo.readPtr, m)
    BY <1>1, <1>3, ForwardTo
  <1>5. m \in Nat /\ m <= Len(q) /\ 0 <= m /\ m - 0 = m
    BY <1>1, <1>2 DEF atMost
  <1>6. fifo' = [fifo EXCEPT !.altReadPtr = to] /\ alt' = TRUE
        /\ res' = Ret(between(fifo.readPtr, to), <<>>, FALSE, FALSE)
    BY DEF AltBegin
  <1> HIDE DEF m, to
  <1>7. to \in Place
    BY <1>1, <1>4, <1>5, Step
  <1>8. between(fifo.readPtr, to) = m
    BY <1>1, <1>3, <1>4, <1>5, Part
  <1>9. /\ fifo' \in CO_fifo_t /\ fifo'.readPtr = fifo.readPtr /\ fifo'.altReadPtr = to
        /\ fifo'.writePtr = fifo.writePtr /\ fifo'.buf = fifo.buf
    BY <1>1, <1>6, <1>7 DEF CO_fifo_t
  <1>10. contents(fifo)' = q
    BY <1>9 DEF contents, walked
  <1>11. FifoInv'
    BY <1>5, <1>6, <1>8, <1>9, <1>10 DEF FifoInv
  <1>12. Q!Min({n, Len(q)}) = m
    BY <1>1, <1>2, LeastOfTwo DEF m
  <1>13. (IF alt THEN between(fifo.readPtr, fifo.altReadPtr) ELSE -1)' = m
    BY <1>6, <1>8, <1>9
  <1>14. res' = Q!Ret(m, <<>>, FALSE, FALSE)
    BY <1>6, <1>8, SameRet
  <1> QED  BY <1>10, <1>11, <1>12, <1>13, <1>14 DEF Q!AltBegin

\* CO_fifo_altRead.
LEMMA AltReadImplements ==
    ASSUME FifoInv, NEW n \in Count, AltRead(n)
    PROVE  FifoInv' /\ Q!AltRead(n)
  <1> DEFINE q == contents(fifo)
             r == fifo.readPtr
             j == between(r, fifo.altReadPtr)
             m == atMost(j + n, Len(q))
             to == forward(fifo, fifo.altReadPtr, n)
  <1>1. fifo \in CO_fifo_t /\ n \in Nat /\ r \in Place /\ fifo.altReadPtr \in Place
    BY CallsAssumption DEF FifoInv, CO_fifo_t
  <1>2. q \in Seq(Char) /\ Len(q) \in Nat
    BY <1>1, Contents, LenProperties
  <1>3. /\ alt /\ fifo' = [fifo EXCEPT !.altReadPtr = to] /\ alt' = alt
        /\ res' = Ret(between(fifo.altReadPtr, to), walked(fifo, fifo.altReadPtr, to), FALSE, FALSE)
    BY DEF AltRead
  <1>4. j \in Nat /\ j <= Len(q) /\ place(r, j) = fifo.altReadPtr
    BY <1>1, <1>3, Distance, SizeAssumption DEF FifoInv, Place
  <1>5. to = place(r, m)
    BY <1>1, <1>4, ForwardTo
  <1>6. m \in Nat /\ m <= Len(q) /\ j <= m /\ j + n \in Nat /\ 0 <= m /\ m - 0 = m
    BY <1>1, <1>2, <1>4 DEF atMost
  <1> HIDE DEF m, to, j
  <1>7. to \in Place
    BY <1>1, <1>5, <1>6, Step
  <1>8. /\ walked(fifo, fifo.altReadPtr, to) = SubSeq(q, j + 1, m)
        /\ between(fifo.altReadPtr, to) = m - j
    <2>1. /\ walked(fifo, place(r, j), place(r, m)) = SubSeq(q, j + 1, m)
          /\ between(place(r, j), place(r, m)) = m - j
      BY <1>1, <1>4, <1>6, Part
    <2> HIDE DEF q, r
    <2> QED  BY <1>4, <1>5, <2>1
  <1>9. between(r, to) = m
    <2>1. m \in Place
      BY <1>1, <1>2, <1>6, Contents, SizeAssumption DEF Place
    <2> HIDE DEF r
    <2> QED  BY <1>1, <1>5, <2>1, Ring
  <1>10. /\ fifo' \in CO_fifo_t /\ fifo'.readPtr = r /\ fifo'.altReadPtr = to
         /\ fifo'.writePtr = fifo.writePtr /\ fifo'.buf = fifo.buf
    BY <1>1, <1>3, <1>7 DEF CO_fifo_t
  <1>11. contents(fifo)' = q
    BY <1>10 DEF contents, walked
  <1>12. FifoInv'
    BY <1>3, <1>6, <1>9, <1>10, <1>11 DEF FifoInv
  <1>13. Q!Min({j + n, Len(q)}) = m
    BY <1>2, <1>6, LeastOfTwo DEF m
  <1>14. /\ (IF alt THEN between(fifo.readPtr, fifo.altReadPtr) ELSE -1)' = m
         /\ (IF alt THEN between(fifo.readPtr, fifo.altReadPtr) ELSE -1) = j
         /\ j >= 0
    BY <1>3, <1>4, <1>9, <1>10 DEF j
  <1>15. res' = Q!Ret(m - j, SubSeq(q, j + 1, m), FALSE, FALSE)
    BY <1>3, <1>8, SameRet
  <1> HIDE DEF q
  <1> QED  BY <1>11, <1>12, <1>13, <1>14, <1>15 DEF Q!AltRead, q

\* CO_fifo_altFinish: what the second reader has read is taken.
LEMMA AltFinishImplements ==
    ASSUME FifoInv, AltFinish
    PROVE  FifoInv' /\ Q!AltFinish
  <1> DEFINE q == contents(fifo)
             r == fifo.readPtr
             j == between(r, fifo.altReadPtr)
  <1>1. fifo \in CO_fifo_t /\ r \in Place /\ fifo.altReadPtr \in Place
    BY DEF FifoInv, CO_fifo_t
  <1>3. /\ alt /\ fifo' = [fifo EXCEPT !.readPtr = fifo.altReadPtr] /\ alt' = FALSE
        /\ res' = Ret(0, walked(fifo, r, fifo.altReadPtr), FALSE, FALSE)
    BY DEF AltFinish
  <1>4. /\ j \in Nat /\ j <= Len(q) /\ place(r, j) = fifo.altReadPtr /\ j >= 0
        /\ 0 <= j /\ 0 \in Nat /\ 0 + 1 = 1
    BY <1>1, <1>3, Distance, SizeAssumption DEF FifoInv, Place
  <1>5. place(r, 0) = r
    BY <1>1, SizeAssumption DEF place, Place
  <1> HIDE DEF j
  <1>6. walked(fifo, r, fifo.altReadPtr) = SubSeq(q, 1, j)
    BY <1>1, <1>4, <1>5, Part
  <1>7. fifo' = Taken(fifo, j)
    BY <1>3, <1>4 DEF Taken
  <1>8. fifo' \in CO_fifo_t /\ contents(fifo)' = Q!From(j + 1)
    BY <1>1, <1>4, <1>7, TakenRest DEF Q!From
  <1>9. FifoInv'
    BY <1>3, <1>8 DEF FifoInv
  <1>10. /\ (IF alt THEN between(fifo.readPtr, fifo.altReadPtr) ELSE -1)' = -1
         /\ (IF alt THEN between(fifo.readPtr, fifo.altReadPtr) ELSE -1) = j
    BY <1>3 DEF j
  <1>11. res' = Q!Ret(0, SubSeq(q, 1, j), FALSE, FALSE)
    BY <1>3, <1>6, SameRet
  <1> QED  BY <1>4, <1>8, <1>9, <1>10, <1>11 DEF Q!AltFinish

\* CO_fifo_getSpace, CO_fifo_getOccupied and CO_fifo_altGetOccupied.
LEMMA GetSizeImplements ==
    ASSUME FifoInv, GetSize
    PROVE  FifoInv' /\ Q!GetSize
  <1> DEFINE q == contents(fifo)
             r == fifo.readPtr
             w == fifo.writePtr
             j == between(r, fifo.altReadPtr)
             ahead == IF alt THEN between(fifo.readPtr, fifo.altReadPtr) ELSE -1
  <1>1. fifo \in CO_fifo_t /\ r \in Place /\ w \in Place /\ fifo.altReadPtr \in Place
    BY DEF FifoInv, CO_fifo_t
  <1>2. UNCHANGED <<fifo, alt>>
    BY DEF GetSize
  <1>3. Len(q) = between(r, w) /\ place(r, Len(q)) = w /\ Len(q) \in Place
    BY <1>1, Contents
  <1>4. CO_fifo_getOccupied(fifo) = Len(q) /\ CO_fifo_getSpace(fifo) = bufSize - 1 - Len(q)
    <2>1. CO_fifo_getSpace(fifo) = bufSize - 1 - between(r, w)
      BY <1>1, SizeAssumption DEF CO_fifo_getSpace, between, Place
    <2> QED  BY <1>3, <2>1 DEF CO_fifo_getOccupied
  <1>5. alt => j \in Nat /\ CO_fifo_altGetOccupied(fifo) = Len(q) - j
    <2>1. j \in Place /\ place(r, j) = fifo.altReadPtr
      BY <1>1, Distance
    <2>2. alt => j <= Len(q)
      BY DEF FifoInv
    <2> HIDE DEF r, w, q, j
    <2>3. alt => between(fifo.altReadPtr, w) = Len(q) - j
      BY <1>1, <1>3, <2>1, <2>2, Apart
    <2> QED  BY <2>1, <2>3, SizeAssumption DEF CO_fifo_altGetOccupied, Place, w
  <1>6. FifoInv' /\ UNCHANGED <<contents(fifo), ahead>>
    BY <1>2 DEF FifoInv
  <1>7. alt => ahead = j /\ ahead >= 0
    BY <1>5
  <1>8. \/ res' = Q!Ret(bufSize - 1 - Len(q), <<>>, FALSE, FALSE)
        \/ res' = Q!Ret(Len(q), <<>>, TRUE, FALSE)
        \/ ahead >= 0 /\ res' = Q!Ret(Len(q) - ahead, <<>>, FALSE, TRUE)
    BY <1>4, <1>5, <1>7, SameRet DEF GetSize
  <1> QED  BY <1>6, <1>8 DEF Q!GetSize

\* The search for a command, said of the queue.
LEMMA SearchedQueue ==
    ASSUME NEW g \in CO_fifo_t
    PROVE  CO_fifo_CommSearch(g) = Q!Searched(contents(g))
  <1> DEFINE s == contents(g)
  <1>1. CO_fifo_CommSearch(g) <=> (\E i \in 1..Len(s) : s[i] = NL) \/ Len(s) = bufSize - 1
    BY Searched
  <1>2. DOMAIN s = 1..Len(s)
    BY Contents, LenProperties
  <1>3. NL \in Q!ToSet(s) <=> \E i \in 1..Len(s) : s[i] = NL
    BY <1>2 DEF Q!ToSet
  <1>4. CO_fifo_CommSearch(g) \in BOOLEAN
    BY Zenon DEF CO_fifo_CommSearch
  <1> QED  BY <1>1, <1>3, <1>4 DEF Q!Searched

\* From position i on there is nothing, or one character less than before.
LEMMA Rest ==
    ASSUME fifo \in CO_fifo_t, NEW k \in Nat, k <= Len(contents(fifo))
    PROVE  LET s == contents(Taken(fifo, k)) IN
           /\ s = Q!From(k + 1) /\ Len(s) = Len(contents(fifo)) - k
           /\ \A i \in 1..Len(s) : s[i] = contents(fifo)[k + i]
           /\ k = Len(contents(fifo)) => s = <<>>
  <1> DEFINE q == contents(fifo)
             s == contents(Taken(fifo, k))
  <1>1. q \in Seq(Char) /\ Len(q) \in Nat
    BY Contents, LenProperties
  <1>2. s = SubSeq(q, k + 1, Len(q))
    BY TakenRest
  <1>3. \A i \in (k + 1)..Len(q) : q[i] \in Char
    BY <1>1, ElementOfSeq
  <1>4. k + 1 \in Int /\ Len(q) \in Int
    BY <1>1
  <1>5. /\ s \in Seq(Char) /\ Len(s) = IF k + 1 <= Len(q) THEN Len(q) - (k + 1) + 1 ELSE 0
        /\ \A i \in 1..(Len(q) - (k + 1) + 1) : s[i] = q[(k + 1) + i - 1]
    BY <1>2, <1>3, <1>4, SubSeqProperties
  <1> HIDE DEF s
  <1>6. Len(s) = Len(q) - k
    BY <1>1, <1>5
  <1>7. \A i \in 1..Len(s) : s[i] = q[k + i]
    <2>1. ASSUME NEW i \in 1..Len(s)
          PROVE  (k + 1) + i - 1 = k + i /\ i \in 1..(Len(q) - (k + 1) + 1)
      BY <1>1, <1>6
    <2> QED  BY <1>5, <2>1
  <1>8. k = Len(q) => s = <<>>
    BY <1>1, <1>5, <1>6, EmptySeq
  <1>9. s = Q!From(k + 1)
    BY <1>2 DEF Q!From
  <1> QED  BY <1>6, <1>7, <1>8, <1>9 DEF s

\* Taking after taking.
LEMMA TakenTwice ==
    ASSUME NEW f \in CO_fifo_t, NEW k \in Nat, NEW p \in Nat, k + p <= Len(contents(f))
    PROVE  Taken(Taken(f, k), p) = Taken(f, k + p)
  <1> DEFINE r == f.readPtr
  <1>1. Len(contents(f)) \in Place /\ r \in Place
    BY Contents DEF CO_fifo_t
  <1>2. k \in Place /\ k + p \in Place /\ k <= k + p /\ (k + p) - k = p
    BY <1>1, SizeAssumption DEF Place
  <1>3. place(place(r, k), p) = place(r, k + p)
    <2> HIDE DEF r
    <2>1. place(place(r, k), (k + p) - k) = place(r, k + p)
      BY <1>1, <1>2, Further
    <2> QED  BY <1>2, <2>1
  <1>4. Taken(f, k).readPtr = place(r, k)
    BY DEF Taken, CO_fifo_t
  <1> QED  BY <1>3, <1>4 DEF Taken, CO_fifo_t

\* Clearing a command, said of the queue.
LEMMA ClearedQueue ==
    ASSUME fifo \in CO_fifo_t, NEW k \in Nat, k <= Len(contents(fifo))
    PROVE  \E m \in Nat : /\ m <= Len(contents(fifo)) /\ cleared(Taken(fifo, k)) = Taken(fifo, m)
                          /\ Q!From(m + 1) = Q!AfterCommand(k + 1)
  <1> DEFINE q == contents(fifo)
             g == Taken(fifo, k)
             s == contents(g)
             x == Q!First({NL}, k + 1)
  <1>1. q \in Seq(Char) /\ Len(q) \in Nat
    BY Contents, LenProperties
  <1>2. g \in CO_fifo_t
    BY TakenRest
  <1>3. PICK p \in Nat : cleared(g) = Taken(g, p) /\ CommandOf(s, p)
    BY <1>2, Cleared
  <1>4. Len(s) = Len(q) - k /\ \A i \in 1..Len(s) : s[i] = q[k + i]
    BY Rest
  <1>5. IsFirst(q, {NL}, k + 1, x)
    BY FirstFound, k + 1 \in Nat
  <1>6. p <= Len(s) /\ k + p <= Len(q) /\ k + p \in Nat
    BY <1>1, <1>3, <1>4 DEF CommandOf
  <1>7. cleared(g) = Taken(fifo, k + p)
    BY <1>3, <1>6, TakenTwice
  <1>8. Q!AfterCommand(k + 1) = IF x = 0 THEN <<>> ELSE Q!From(x + 1)
    BY DEF Q!AfterCommand
  <1> HIDE DEF q, g, s, x
  <1>9. CASE p = Len(s) /\ \A i \in 1..Len(s) : s[i] # NL
    <2>1. k + p = Len(q)
      BY <1>1, <1>4, <1>9
    <2>2. x = 0
      <3> SUFFICES ASSUME x # 0 PROVE FALSE
        OBVIOUS
      <3>1. x \in (k + 1)..Len(q) /\ q[x] = NL
        BY <1>5 DEF IsFirst
      <3>2. x - k \in 1..Len(s) /\ k + (x - k) = x
        BY <1>1, <1>4, <3>1
      <3>3. s[x - k] = q[x]
        BY <1>4, <3>2
      <3> QED  BY <1>9, <3>1, <3>2, <3>3
    <2>3. Q!From((k + p) + 1) = <<>>
      BY <1>6, <2>1, Rest DEF q
    <2> QED  BY <1>6, <1>7, <1>8, <2>2, <2>3 DEF q, g
  <1>10. CASE p > 0 /\ s[p] = NL /\ \A i \in 1..(p - 1) : s[i] # NL
    <2>1. q[k + p] = NL /\ k + p \in (k + 1)..Len(q)
      BY <1>1, <1>4, <1>6, <1>10
    <2>2. ASSUME NEW i \in (k + 1)..(k + p - 1)
          PROVE  q[i] # NL
      <3>1. i - k \in 1..(p - 1) /\ i - k \in 1..Len(s) /\ k + (i - k) = i
        BY <1>1, <1>4, <1>6
      <3> QED  BY <1>4, <1>10, <3>1
    <2>3. x # 0
      BY <1>5, <2>1 DEF IsFirst
    <2>4. x \in (k + 1)..Len(q) /\ q[x] = NL /\ \A i \in (k + 1)..(x - 1) : q[i] # NL
      BY <1>5, <2>3 DEF IsFirst
    <2>5. x = k + p
      BY <1>1, <2>1, <2>2, <2>4
    <2> QED  BY <1>6, <1>7, <1>8, <2>3, <2>5 DEF q, g
  <1> QED  BY <1>3, <1>9, <1>10 DEF CommandOf

\* CO_fifo_CommSearch.
LEMMA CommSearchImplements ==
    ASSUME FifoInv, NEW clear \in BOOLEAN, CommSearch(clear)
    PROVE  FifoInv' /\ Q!CommSearch(clear)
  <1> DEFINE q == contents(fifo)
  <1>1. fifo \in CO_fifo_t
    BY DEF FifoInv
  <1>2. /\ ~alt /\ UNCHANGED alt /\ fifo' = IF clear THEN cleared(fifo) ELSE fifo
        /\ res' = Ret(0, <<>>, CO_fifo_CommSearch(fifo), FALSE)
    BY DEF CommSearch
  <1>3. res' = Q!Ret(0, <<>>, Q!Searched(q), FALSE)
    BY <1>1, <1>2, SearchedQueue, SameRet
  <1>4. CASE ~clear
    <2>1. FifoInv'
      BY <1>1, <1>2, <1>4, InvNext
    <2> QED  BY <1>2, <1>3, <1>4, <2>1 DEF Q!CommSearch
  <1>5. CASE clear
    <2>1. Taken(fifo, 0) = fifo
      <3>1. place(fifo.readPtr, 0) = fifo.readPtr
        BY <1>1, SizeAssumption DEF CO_fifo_t, place, Place
      <3> QED  BY <1>1, <3>1 DEF Taken, CO_fifo_t
    <2>2. 0 <= Len(q) /\ 0 + 1 = 1 /\ 0 \in Nat
      BY <1>1, Contents, LenProperties
    <2>3. PICK m \in Nat : /\ m <= Len(q) /\ cleared(fifo) = Taken(fifo, m)
                           /\ Q!From(m + 1) = Q!AfterCommand(1)
      BY <1>1, <2>1, <2>2, ClearedQueue
    <2>4. fifo' = Taken(fifo, m)
      BY <1>2, <1>5, <2>3
    <2>5. FifoInv' /\ contents(fifo)' = Q!From(m + 1)
      BY <1>2, <2>3, <2>4, TakenNext
    <2> QED  BY <1>2, <1>3, <1>5, <2>3, <2>5 DEF Q!CommSearch
  <1> QED  BY <1>4, <1>5

\* Where the trimming of the queue stops, in the words of FifoQueue.
LEMMA StopsQueue ==
    ASSUME fifo \in CO_fifo_t, NEW inside \in BOOLEAN, NEW i \in 1..(Len(contents(fifo)) + 1)
    PROVE  inside \/ Q!First({HASH}, 1) \in 1..(i - 1) <=> Hashed(contents(fifo), inside, i)
  <1> DEFINE q == contents(fifo)
             h == Q!First({HASH}, 1)
  <1>1. Len(q) \in Nat
    BY Contents, LenProperties
  <1>2. IsFirst(q, {HASH}, 1, h)
    BY FirstFound, 1 \in Nat
  <1> HIDE DEF h, q
  <1>3. ASSUME h \in 1..(i - 1)
        PROVE  \E j \in 1..(i - 1) : q[j] = HASH
    BY <1>2, <1>3 DEF IsFirst
  <1>4. ASSUME NEW j \in 1..(i - 1), q[j] = HASH
        PROVE  h \in 1..(i - 1)
    <2>1. j \in 1..Len(q)
      BY <1>1 DEF q
    <2>2. h # 0
      BY <1>2, <1>4, <2>1 DEF IsFirst
    <2>3. h \in 1..Len(q) /\ \A y \in 1..(h - 1) : q[y] # HASH
      BY <1>2, <2>2 DEF IsFirst
    <2>4. ~(j < h)
      BY <1>1, <1>4, <2>1, <2>3
    <2> QED  BY <1>1, <2>1, <2>3, <2>4 DEF q
  <1> QED  BY <1>3, <1>4 DEF Hashed, h, q

\* CO_fifo_trimSpaces.
LEMMA TrimSpacesImplements ==
    ASSUME FifoInv, NEW inside \in BOOLEAN, TrimSpaces(inside)
    PROVE  FifoInv' /\ Q!TrimSpaces(inside)
  <1> DEFINE q == contents(fifo)
             t == CO_fifo_trimSpaces(fifo, inside)
             comment(i) == inside \/ Q!First({HASH}, 1) \in 1..(i - 1)
             stops == {i \in 1..Len(q) : q[i] = NL \/ (q[i] \in Q!Plain /\ ~comment(i))}
             stop == IF stops = {} THEN Len(q) + 1 ELSE Q!Min(stops)
             closed == stop <= Len(q) /\ q[stop] = NL
             last == IF closed THEN stop + 1 ELSE stop
  <1>1. fifo \in CO_fifo_t
    BY DEF FifoInv
  <1>2. q \in Seq(Char) /\ Len(q) \in Nat /\ Len(q) < bufSize
    BY <1>1, Contents, LenProperties, SizeAssumption DEF Place
  <1>3. PICK k \in Nat : TrimUpTo(fifo, inside, t, bufSize, k)
    BY <1>1, Trimmed
  <1>4. /\ ~alt /\ UNCHANGED alt /\ fifo' = [fifo EXCEPT !.readPtr = t.ptr]
        /\ res' = Ret(0, <<>>, t.found, t.inside)
    BY DEF TrimSpaces
  <1> HIDE DEF t
  <1>5. /\ t \in TrimType
        /\ t.ptr = place(fifo.readPtr, k) /\ k <= Len(q)
        /\ k < bufSize => t.stop \/ k = Len(q)
        /\ ~t.stop => /\ ~t.found /\ \A j \in 1..k : ~Stops(q, inside, j)
                      /\ t.inside <=> Hashed(q, inside, k + 1)
        /\ t.stop /\ t.found => /\ k > 0 /\ q[k] = NL /\ ~t.inside
                                /\ \A j \in 1..(k - 1) : ~Stops(q, inside, j)
        /\ t.stop /\ ~t.found => /\ k < Len(q) /\ Stops(q, inside, k + 1) /\ q[k + 1] # NL
                                 /\ ~t.inside /\ \A j \in 1..k : ~Stops(q, inside, j)
    BY <1>3 DEF TrimUpTo
  <1>6. \A i \in 1..(Len(q) + 1) : comment(i) <=> Hashed(q, inside, i)
    BY <1>1, StopsQueue
  <1> HIDE DEF comment
  <1>7. stops = {i \in 1..Len(q) : Stops(q, inside, i)}
    <2>1. \A i \in 1..Len(q) : i \in 1..(Len(q) + 1)
      BY <1>2
    <2>2. Q!Plain = Plain
      BY DEF Q!Plain, Plain
    <2> QED  BY <1>6, <2>1, <2>2 DEF Stops
  <1> HIDE DEF stops
  <1>8. stops # {} => stop \in stops /\ \A i \in stops : stop <= i
    <2>1. stops \in SUBSET Nat
      BY <1>2, <1>7
    <2> QED  BY <2>1, Least DEF Q!Min
  <1>9. stops = {} => stop = Len(q) + 1
    OBVIOUS
  <1> HIDE DEF stop, q
  <1>10. /\ last = k + 1
         /\ closed <=> t.found
         /\ (~closed /\ comment(stop)) <=> t.inside
    <2>1. CASE ~t.stop
      <3>0. k = Len(q)
        <4>1. k <= Len(q)
          BY <1>5
        <4>2. k < bufSize
          BY <1>2, <4>1, SizeAssumption
        <4> QED  BY <1>5, <2>1, <4>2, Zenon
      <3>1. /\ stops = {} /\ stop = k + 1 /\ ~(k + 1 <= Len(q)) /\ k + 1 \in 1..(Len(q) + 1)
        BY <1>2, <1>5, <1>7, <1>9, <2>1, <3>0
      <3> QED  BY <1>5, <1>6, <2>1, <3>1
    <2>2. CASE t.stop /\ t.found
      <3>1. k \in 1..Len(q) /\ k \in stops
        BY <1>2, <1>5, <1>7, <2>2 DEF Stops
      <3>2. stop \in 1..Len(q) /\ stop <= k /\ stop \in stops
        BY <1>7, <1>8, <3>1
      <3>3. stop = k
        BY <1>2, <1>5, <1>7, <2>2, <3>1, <3>2
      <3> QED  BY <1>2, <1>5, <2>2, <3>1, <3>3
    <2>3. CASE t.stop /\ ~t.found
      <3>1. k + 1 \in 1..Len(q) /\ k + 1 \in stops
        BY <1>2, <1>5, <1>7, <2>3
      <3>2. stop \in 1..Len(q) /\ stop <= k + 1 /\ stop \in stops
        BY <1>7, <1>8, <3>1
      <3>3. stop = k + 1
        BY <1>2, <1>5, <1>7, <2>3, <3>1, <3>2
      <3>4. ~Hashed(q, inside, k + 1) /\ k + 1 \in 1..(Len(q) + 1)
        BY <1>2, <1>5, <2>3, <3>1 DEF Stops
      <3> QED  BY <1>2, <1>5, <1>6, <2>3, <3>1, <3>3, <3>4
    <2> QED  BY <2>1, <2>2, <2>3
  <1>11. fifo' = Taken(fifo, k)
    BY <1>4, <1>5 DEF Taken
  <1>12. FifoInv' /\ contents(fifo)' = Q!From(k + 1)
    BY <1>4, <1>5, <1>11, TakenNext DEF q
  <1> HIDE DEF last
  <1>13. res' = Q!Ret(0, <<>>, closed, ~closed /\ comment(stop))
    <2>1. t.found \in BOOLEAN /\ t.inside \in BOOLEAN
      BY <1>5, Zenon DEF TrimType
    <2>2. closed \in BOOLEAN
      BY Zenon
    <2> HIDE DEF closed
    <2>3. t.found = closed /\ t.inside = (~closed /\ comment(stop))
      BY <1>10, <2>1, <2>2
    <2> QED  BY <1>4, <2>3, SameRet
  <1>14. ~alt /\ UNCHANGED alt /\ contents(fifo)' = Q!From(last)
    BY <1>4, <1>10, <1>12
  <1> QED  BY <1>12, <1>13, <1>14 DEF Q!TrimSpaces, last, closed, stop, stops, comment, q

\* CO_fifo_readToken.
LEMMA ReadTokenImplements ==
    ASSUME FifoInv, NEW count \in Count, NEW expect, ReadToken(count, expect)
    PROVE  FifoInv' /\ Q!ReadToken(count, expect)
  <1> DEFINE q == contents(fifo)
             b == Q!First(Char \ Blank, 1)
             e == IF b = 0 \/ q[b] \notin Q!Plain THEN b ELSE Q!First(Char \ Q!Plain, b)
             x == IF e = 0 THEN 0 ELSE Q!First(Char \ Blank, e)
             taken == IF e = 0 THEN 0 ELSE Q!Min({e - b, count})
             comment == x > 0 /\ q[x] = HASH
             found == x > 0 /\ (q[x] = NL \/ (comment /\ Q!Searched(Q!From(x))))
             rest == CASE e = 0 -> q
                       [] e > 0 /\ x = 0 -> <<>>
                       [] x > 0 /\ q[x] = NL -> Q!From(x + 1)
                       [] comment -> Q!AfterCommand(x)
                       [] OTHER -> Q!From(x)
  <1>1. fifo \in CO_fifo_t /\ count \in Nat
    BY CallsAssumption DEF FifoInv
  <1>2. q \in Seq(Char) /\ Len(q) \in Nat
    BY <1>1, Contents, LenProperties
  <1>3. Q!Plain = Plain
    BY DEF Q!Plain, Plain
  <1>4. TokenAt(q, b, e, x)
    <2>1. IsFirst(q, Char \ Blank, 1, b)
      BY <1>1, FirstFound, 1 \in Nat
    <2> HIDE DEF q, b
    <2>2. b \in Nat
      BY <1>2, <2>1 DEF IsFirst
    <2>3. IF b = 0 \/ q[b] \notin Plain THEN e = b ELSE IsFirst(q, Char \ Plain, b, e)
      BY <1>1, <1>3, <2>2, FirstFound DEF q
    <2> HIDE DEF e
    <2>4. e \in Nat
      BY <1>2, <2>1, <2>2, <2>3 DEF IsFirst
    <2>5. IF e = 0 THEN x = 0 ELSE IsFirst(q, Char \ Blank, e, x)
      BY <1>1, <2>4, FirstFound DEF q
    <2> HIDE DEF x
    <2> QED  BY <2>1, <2>3, <2>5 DEF TokenAt
  <1>5. /\ b \in 0..Len(q) /\ e \in 0..Len(q) /\ x \in 0..Len(q)
        /\ b \in Nat /\ e \in Nat /\ x \in Nat
        /\ b = 0 => e = 0
        /\ e = 0 => x = 0
        /\ e # 0 => b <= e
    <2> HIDE DEF q, b, e, x
    <2>1. /\ Len(q) \in Nat /\ b \in 0..Len(q) /\ e \in 0..Len(q) /\ x \in 0..Len(q)
          /\ b = 0 => e = 0
          /\ e = 0 => x = 0
          /\ e # 0 => b <= e /\ (x # 0 => e <= x)
      BY <1>2, <1>4, TokenNumbers
    <2> QED  BY <2>1
  <1>6. PICK t \in TokenType : /\ CO_fifo_readToken(fifo, count, expect) = tokenReturn(count, expect, t)
                               /\ TokenResult(fifo, count, t, b, e, x)
    <2> HIDE DEF b, e, x
    <2> QED  BY <1>1, <1>4, TokenLoop
  <1>7. /\ ~alt /\ count > 1 /\ UNCHANGED alt
        /\ fifo' = [fifo EXCEPT !.readPtr = t.to]
        /\ res' = tokenReturn(count, expect, t).ret
    <2> DEFINE r == CO_fifo_readToken(fifo, count, expect)
    <2>1. /\ ~alt /\ count > 1 /\ UNCHANGED alt
          /\ fifo' = [fifo EXCEPT !.readPtr = r.to] /\ res' = r.ret
      BY DEF ReadToken
    <2>2. r = tokenReturn(count, expect, t)
      BY <1>6
    <2>3. tokenReturn(count, expect, t).to = t.to
      BY DEF tokenReturn
    <2> HIDE DEF r
    <2> QED  BY <2>1, <2>2, <2>3
  <1> HIDE DEF b, e, x
  <1>8. /\ t.token = IF e = 0 THEN <<>> ELSE Cut(q, b, atMost(e - b, count))
        /\ t.found <=> x # 0 /\ (q[x] = NL \/ (q[x] = HASH /\ CO_fifo_CommSearch(Taken(fifo, x - 1))))
        /\ e = 0 => t.to = fifo.readPtr
        /\ e # 0 /\ x = 0 => t.to = fifo.writePtr
        /\ x # 0 /\ q[x] = NL => t.to = place(fifo.readPtr, x)
        /\ x # 0 /\ q[x] = HASH => t.to = cleared(Taken(fifo, x - 1)).readPtr
        /\ x # 0 /\ q[x] \in Plain => t.to = place(fifo.readPtr, x - 1)
    BY <1>6 DEF TokenResult
  <1>9. t.found \in BOOLEAN
    BY <1>6, Zenon DEF TokenType
  \* the token
  <1>10. /\ t.token = SubSeq(q, b, b + taken - 1) /\ Len(t.token) = taken
         /\ t.token = <<>> <=> taken = 0
    <2>1. CASE e = 0
      <3>1. taken = 0 /\ t.token = <<>>
        BY <1>8, <2>1
      <3>2. Cut(q, b, 0) = <<>>
        BY <1>5, CutEmpty
      <3>3. Len(<<>>) = 0
        OBVIOUS
      <3> HIDE DEF taken, q
      <3> QED  BY <3>1, <3>2, <3>3 DEF Cut
    <2>2. CASE e # 0
      <3>1. e - b \in Nat /\ b # 0
        BY <1>5, <2>2
      <3>2. taken = atMost(e - b, count)
        BY <1>1, <2>2, <3>1, LeastOfTwo
      <3> HIDE DEF taken, q
      <3>3. taken \in Nat /\ b + taken <= Len(q) + 1
        BY <1>1, <1>2, <1>5, <3>1, <3>2 DEF atMost
      <3>4. t.token = Cut(q, b, taken)
        BY <1>8, <2>2, <3>2
      <3>5. Cut(q, b, taken) \in Seq(Char) /\ Len(Cut(q, b, taken)) = taken
        BY <1>2, <1>5, <3>1, <3>3, CutProperties
      <3>6. t.token = <<>> <=> taken = 0
        BY <3>4, <3>5, EmptySeq
      <3> QED  BY <3>4, <3>5, <3>6 DEF Cut
    <2> QED  BY <2>1, <2>2
  \* the delimiter
  <1>11. x # 0 => /\ x - 1 \in Nat /\ x - 1 <= Len(q) /\ (x - 1) + 1 = x /\ x <= Len(q) /\ x > 0
                  /\ x \in Nat /\ x \in 1..Len(q) /\ e > 0
    BY <1>2, <1>5
  <1>12. t.found = found
    <2>1. x # 0 => CO_fifo_CommSearch(Taken(fifo, x - 1)) = Q!Searched(Q!From(x))
      <3> SUFFICES ASSUME x # 0
                   PROVE  CO_fifo_CommSearch(Taken(fifo, x - 1)) = Q!Searched(Q!From(x))
        OBVIOUS
      <3>1. Taken(fifo, x - 1) \in CO_fifo_t
        BY <1>1, <1>11, TakenRest
      <3>2. contents(Taken(fifo, x - 1)) = Q!From((x - 1) + 1)
        BY <1>1, <1>11, Rest
      <3>3. contents(Taken(fifo, x - 1)) = Q!From(x)
        BY <1>11, <3>2
      <3> QED  BY <3>1, <3>3, SearchedQueue
    <2>2. x > 0 <=> x # 0
      BY <1>5
    <2> HIDE DEF q
    <2>3. found <=> t.found
      BY <1>8, <2>1, <2>2
    <2>4. found \in BOOLEAN
      BY Zenon
    <2> HIDE DEF found
    <2> QED  BY <1>9, <2>3, <2>4
  \* where the reading goes on
  <1>13. PICK m \in Nat : m <= Len(q) /\ t.to = place(fifo.readPtr, m) /\ Q!From(m + 1) = rest
    <2>1. CASE e = 0
      <3>1. place(fifo.readPtr, 0) = fifo.readPtr
        BY <1>1, SizeAssumption DEF CO_fifo_t, place, Place
      <3>2. Q!From(0 + 1) = q
        <4>1. Taken(fifo, 0) = fifo
          BY <1>1, <3>1 DEF Taken, CO_fifo_t
        <4>2. 0 \in Nat /\ 0 <= Len(q)
          BY <1>2
        <4> QED  BY <1>1, <4>1, <4>2, Rest
      <3>3. rest = q
        BY <1>5, <2>1
      <3>4. 0 \in Nat /\ 0 <= Len(q) /\ t.to = place(fifo.readPtr, 0)
        BY <1>2, <1>8, <2>1, <3>1
      <3> HIDE DEF rest, q
      <3> QED  BY <3>2, <3>3, <3>4
    <2>2. CASE e # 0 /\ x = 0
      <3>1. e > 0 /\ ~(x > 0)
        BY <1>5, <2>2
      <3>2. rest = <<>>
        BY <2>2, <3>1
      <3>3. Len(q) <= Len(q)
        BY <1>2
      <3>4. Q!From(Len(q) + 1) = <<>>
        BY <1>1, <1>2, <3>3, Rest
      <3>5. t.to = place(fifo.readPtr, Len(q))
        BY <1>1, <1>8, <2>2, Contents
      <3> HIDE DEF rest, q
      <3> QED  BY <1>2, <3>2, <3>3, <3>4, <3>5
    <2>3. CASE x # 0 /\ q[x] = NL
      <3>1. rest = Q!From(x + 1)
        BY <1>11, <2>3, CharAssumption
      <3> HIDE DEF rest, q
      <3> QED  BY <1>8, <1>11, <2>3, <3>1
    <2>4. CASE x # 0 /\ q[x] = HASH
      <3>1. rest = Q!AfterCommand(x)
        BY <1>11, <2>4, CharAssumption
      <3>2. PICK m \in Nat : /\ m <= Len(q) /\ cleared(Taken(fifo, x - 1)) = Taken(fifo, m)
                             /\ Q!From(m + 1) = Q!AfterCommand((x - 1) + 1)
        BY <1>1, <1>11, <2>4, ClearedQueue
      <3>3. Taken(fifo, m).readPtr = place(fifo.readPtr, m)
        BY <1>1, <3>2, TakenRest
      <3>4. Q!From(m + 1) = Q!AfterCommand(x)
        BY <1>11, <2>4, <3>2
      <3> HIDE DEF rest, q
      <3> QED  BY <1>8, <2>4, <3>1, <3>2, <3>3, <3>4
    <2>5. CASE x # 0 /\ q[x] \in Plain
      <3>1. q[x] # NL /\ q[x] # HASH
        BY <2>5 DEF Plain
      <3>2. rest = Q!From(x)
        BY <1>11, <2>5, <3>1
      <3> HIDE DEF rest, q
      <3>3. Q!From((x - 1) + 1) = rest
        BY <1>11, <2>5, <3>2
      <3> QED  BY <1>8, <1>11, <2>5, <3>3
    <2>6. x # 0 => q[x] = NL \/ q[x] = HASH \/ q[x] \in Plain
      <3> HIDE DEF q
      <3>1. x # 0 => q[x] \in Char \ Blank
        BY <1>4, <1>5 DEF TokenAt, IsFirst
      <3> QED  BY <3>1, Classes
    <2> HIDE DEF rest, q
    <2> QED  BY <2>1, <2>2, <2>3, <2>4, <2>5, <2>6
  <1>14. fifo' = Taken(fifo, m)
    BY <1>7, <1>13 DEF Taken
  <1>15. FifoInv' /\ contents(fifo)' = rest
    <2> HIDE DEF rest
    <2> QED  BY <1>7, <1>13, <1>14, TakenNext
  <1> HIDE DEF rest, found, taken
  <1>16. res' = Q!Ret(IF taken = count THEN 0 ELSE taken,
                      IF taken = count THEN <<>> ELSE SubSeq(q, b, b + taken - 1),
                      found,
                      \/ taken = count
                      \/ expect = 1 /\ (~found \/ taken = 0)
                      \/ expect = 0 /\ (found \/ taken = 0))
    <2> HIDE DEF q
    <2>1. tokenReturn(count, expect, t).ret =
            Ret(IF Len(t.token) = count THEN 0 ELSE Len(t.token),
                IF Len(t.token) = count THEN <<>> ELSE t.token,
                t.found,
                \/ Len(t.token) = count
                \/ expect = 1 /\ (~t.found \/ t.token = <<>>)
                \/ expect = 0 /\ (t.found \/ t.token = <<>>))
      BY DEF tokenReturn
    <2>2. (\/ Len(t.token) = count
           \/ expect = 1 /\ (~t.found \/ t.token = <<>>)
           \/ expect = 0 /\ (t.found \/ t.token = <<>>))
          = (\/ taken = count
             \/ expect = 1 /\ (~found \/ taken = 0)
             \/ expect = 0 /\ (found \/ taken = 0))
      BY <1>10, <1>12
    <2> QED  BY <1>7, <1>10, <1>12, <2>1, <2>2, SameRet
  <1> HIDE DEF q
  <1> QED  BY <1>7, <1>15, <1>16 DEF Q!ReadToken, rest, found, taken, comment, x, e, b, q

-----------------------------------------------------------------------------
\* The empty buffer is the empty queue.
LEMMA InitImplements ==
    ASSUME Init
    PROVE  FifoInv /\ Q!Init
  <1>1. 0 \in Place
    BY SizeAssumption DEF Place
  <1>2. fifo = [buf |-> [p \in Place |-> NL], writePtr |-> 0, readPtr |-> 0, altReadPtr |-> 0]
    BY DEF Init
  <1>3. [p \in Place |-> NL] \in [Place -> Char]
    BY CharAssumption
  <1>4. fifo \in CO_fifo_t /\ fifo.readPtr = 0 /\ fifo.writePtr = 0
    BY <1>1, <1>2, <1>3 DEF CO_fifo_t
  <1>5. contents(fifo) \in Seq(Char) /\ Len(contents(fifo)) = 0
    BY <1>4, Contents DEF between
  <1>6. contents(fifo) = <<>>
    BY <1>5, EmptySeq
  <1>7. alt = FALSE /\ res = Q!Ret(0, <<>>, FALSE, FALSE)
    BY SameRet DEF Init
  <1> QED  BY <1>4, <1>6, <1>7 DEF Q!Init, FifoInv

\* Every step of the buffer is a step of the queue.
LEMMA NextImplements ==
    ASSUME FifoInv, Next
    PROVE  FifoInv' /\ Q!Next
  <1>1. CASE \E s \in Text : Write(s)
    BY <1>1, WriteImplements DEF Q!Next
  <1>2. CASE \E c \in Char : Overwrite(c)
    BY <1>2, OverwriteImplements DEF Q!Next
  <1>3. CASE \E n \in Count, toDelimiter \in BOOLEAN : Read(n, toDelimiter)
    BY <1>3, ReadImplements DEF Q!Next
  <1>4. CASE Clear
    BY <1>4, ClearImplements DEF Q!Next
  <1>5. CASE \E n \in Count : AltBegin(n) \/ AltRead(n)
    BY <1>5, AltBeginImplements, AltReadImplements DEF Q!Next
  <1>6. CASE AltFinish
    BY <1>6, AltFinishImplements DEF Q!Next
  <1>7. CASE GetSize
    BY <1>7, GetSizeImplements DEF Q!Next
  <1>8. CASE \E clear \in BOOLEAN : CommSearch(clear)
    BY <1>8, CommSearchImplements DEF Q!Next
  <1>9. CASE \E inside \in BOOLEAN : TrimSpaces(inside)
    BY <1>9, TrimSpacesImplements DEF Q!Next
  <1>10. CASE \E count \in Count, expect \in {0, 1, 255} : ReadToken(count, expect)
    BY <1>10, ReadTokenImplements DEF Q!Next
  <1> QED  BY <1>1, <1>2, <1>3, <1>4, <1>5, <1>6, <1>7, <1>8, <1>9, <1>10 DEF Next

\* The circular buffer of 301/CO_fifo.c is a bounded queue, for every size of
\* the buffer, every text and every count: wherever the data wraps, each call
\* returns and leaves in the buffer what FifoQueue says, for bytes, commands,
\* blanks and tokens, and for the second reader.
THEOREM FifoIsAQueue == Spec => ImplementsQueue
  <1>1. Init => FifoInv /\ Q!Init
    BY InitImplements
  <1>2. FifoInv /\ [Next]_vars => FifoInv' /\ [Q!Next]_(Q!vars)
    <2> SUFFICES ASSUME FifoInv, [Next]_vars
                 PROVE  FifoInv' /\ [Q!Next]_(Q!vars)
      OBVIOUS
    <2>1. CASE Next
      BY <2>1, NextImplements
    <2>2. CASE UNCHANGED vars
      BY <2>2 DEF vars, FifoInv, Q!vars
    <2> QED  BY <2>1, <2>2
  <1> QED  BY <1>1, <1>2, PTL DEF Spec, ImplementsQueue, Q!Spec

=============================================================================
