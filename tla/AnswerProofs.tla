---------------------------- MODULE AnswerProofs ----------------------------
(***************************************************************************)
(* What MCAnswer checks for the modes 0 to 4, proved for every set of poll *)
(* modes. The invariant Right says what of an answer is in the shift       *)
(* register, the FIFO and the DMA channel (Coming), and that a port that   *)
(* listens has nothing left from an answer that was cut off (Wire);        *)
(* Settles says what the bytes hold. The last theorems are about InputMap, *)
(* the values of the bytes.                                                *)
(***************************************************************************)
EXTENDS Answer, InputMap, SequenceTheorems, TLAPS

Kinds == {"probe", "origin", "poll"}
Controls == {Layout(m)[i] : m \in 0 .. 4, i \in 1 .. 8}
Byte == [kind : Kinds, byte : 1 .. 10, holds : Controls \cup Kinds]
Channel == [kind : Kinds, next : 1 .. 11, left : 0 .. 10]
Port == [sm : {"in", "out"}, osr : Byte \cup {Nothing}, fifo : Seq(Byte), dma : Channel]

\* The channel stops at the end of its answer.
Stops(d) == d.left > 0 => d.next + d.left = Length[d.kind] + 1

\* It waits only for a full FIFO.
Fits(p) == p \in Port /\ Stops(p.dma) /\ Len(p.fifo) <= TxFifoDepth
Filled(p) ==
  /\ Fits(p)
  /\ p.dma.left > 0 => Len(p.fifo) = TxFifoDepth

OutOK == out \in [1 .. 8 -> Controls]

\* The three answers and their lengths.
LEMMA Lengths == /\ DOMAIN Length = Kinds
                 /\ Length["probe"] = 3 /\ Length["origin"] = 10 /\ Length["poll"] = 8
  BY DEF Length, Kinds

\* What the channel reads is a byte of the answer it reads.
LEMMA ReadIsByte ==
  ASSUME OutOK, NEW k \in Kinds, NEW i \in 1 .. Length[k]
  PROVE  Read(k, i) \in Byte /\ Read(k, i) # Nothing
                    /\ Read(k, i).kind = k /\ Read(k, i).byte = i
                    /\ (k = "poll" => Read(k, i).holds = out[i])
<1>1. i \in 1 .. 10 /\ (k = "poll" => i \in 1 .. 8)
  BY Lengths DEF Kinds
<1>2. PICK h : h = IF k = "poll" THEN out[i] ELSE k
  OBVIOUS
<1>3. k # "none"
  BY DEF Kinds
<1>4. k = "poll" => out[i] \in Controls
  BY <1>1 DEF OutOK
<1>5. h \in Controls \cup Kinds
  BY <1>2, <1>4
<1>6. Read(k, i) = [kind |-> k, byte |-> i, holds |-> h]
  BY <1>2 DEF Read
<1>7. Read(k, i) \in Byte /\ Read(k, i) # Nothing
  BY <1>1, <1>3, <1>5, <1>6 DEF Byte, Nothing, None
<1>8. QED
  BY <1>2, <1>6, <1>7

\* No byte is the empty shift register.
LEMMA BytesAreSomething == \A b \in Byte : b # Nothing
  BY DEF Byte, Nothing, None, Kinds

\* What the channel copies, byte by byte.
LEMMA Copies ==
  ASSUME OutOK, NEW p, Fits(p)
  PROVE  LET q == Copied(p)
             n == Room(p)
         IN /\ Filled(q)
            /\ n \in 0 .. 4 /\ n <= p.dma.left
            /\ n = IF 4 - Len(p.fifo) < p.dma.left THEN 4 - Len(p.fifo) ELSE p.dma.left
            /\ q.sm = p.sm /\ q.osr = p.osr
            /\ q.dma = [kind |-> p.dma.kind, next |-> p.dma.next + n, left |-> p.dma.left - n]
            /\ Len(q.fifo) = Len(p.fifo) + n
            /\ \A i \in 1 .. Len(p.fifo) : q.fifo[i] = p.fifo[i]
            /\ \A i \in 1 .. n : q.fifo[Len(p.fifo) + i] = Read(p.dma.kind, p.dma.next + i - 1)
<1>1. PICK d : d = p.dma
  OBVIOUS
<1>2. PICK n : n = Room(p)
  OBVIOUS
<1>3. PICK f, len : f = p.fifo /\ len = Len(f)
  OBVIOUS
<1>4. PICK last : last = Length[d.kind]
  OBVIOUS
<1>5. d \in Channel /\ f \in Seq(Byte) /\ len \in 0 .. 4
  <2>1. p \in Port /\ f \in Seq(Byte) /\ d \in Channel
    BY <1>1, <1>3 DEF Fits, Port
  <2>2. len <= 4
    BY <1>3 DEF Fits, TxFifoDepth
  <2>3. len \in Nat
    BY <1>3, <2>1
  <2>4. QED
    BY <2>1, <2>2, <2>3
<1>6. d.kind \in Kinds /\ d.next \in 1 .. 11 /\ d.left \in 0 .. 10 /\ last \in 0 .. 10
  BY <1>4, <1>5, Lengths DEF Channel, Kinds
<1>7. n = IF 4 - len < d.left THEN 4 - len ELSE d.left
  BY <1>1, <1>2, <1>3 DEF Room, TxFifoDepth
<1>8. n \in 0 .. 4 /\ n <= d.left /\ (d.left > n => n + len = 4)
  BY <1>5, <1>6, <1>7
<1>9. d.left > 0 => d.next + d.left = last + 1
  BY <1>1, <1>4 DEF Fits, Stops
<1>10. PICK new : new = [i \in 1 .. n |-> Read(d.kind, d.next + i - 1)]
  OBVIOUS
<1>11. \A i \in 1 .. n : d.next + i - 1 \in 1 .. last
  BY <1>6, <1>8, <1>9
<1>12. \A i \in 1 .. n : Read(d.kind, d.next + i - 1) \in Byte
  BY <1>4, <1>6, <1>11, ReadIsByte
<1>13. n \in Nat /\ new \in [1 .. n -> Byte]
  BY <1>8, <1>10, <1>12
<1>14. new \in Seq(Byte) /\ Len(new) = n
  BY <1>13
<1>15. PICK fifo : fifo = p.fifo \o new
  OBVIOUS
<1>16. /\ fifo \in Seq(Byte) /\ Len(fifo) = len + n
       /\ \A i \in 1 .. len : fifo[i] = f[i]
       /\ \A i \in 1 .. n : fifo[len + i] = new[i]
  <2>1. fifo = f \o new /\ len = Len(f)
    BY <1>3, <1>15
  <2>2. QED
    <3>1. /\ fifo \in Seq(Byte) /\ Len(fifo) = Len(f) + Len(new)
          /\ \A i \in 1 .. Len(f) + Len(new) : fifo[i] = IF i <= Len(f) THEN f[i] ELSE new[i - Len(f)]
      BY <1>5, <1>14, <2>1, ConcatProperties
    <3>2. \A i \in 1 .. len + n : fifo[i] = IF i <= len THEN f[i] ELSE new[i - len]
      BY <1>14, <2>1, <3>1
    <3>3. \A i \in 1 .. len : i \in 1 .. len + n /\ i <= len
      BY <1>5, <1>8
    <3>4. \A i \in 1 .. n : len + i \in 1 .. len + n /\ ~(len + i <= len) /\ len + i - len = i
      BY <1>5, <1>8
    <3>5. QED
      BY <1>14, <2>1, <3>1, <3>2, <3>3, <3>4
<1>17. PICK e : e = [kind |-> d.kind, next |-> d.next + n, left |-> d.left - n]
  OBVIOUS
<1>18. e = [d EXCEPT !.next = @ + n, !.left = @ - n]
  <2>1. d = [kind |-> d.kind, next |-> d.next, left |-> d.left]
    BY <1>5 DEF Channel
  <2>2. PICK a, b : a = d.next + n /\ b = d.left - n
    OBVIOUS
  <2>3. PICK r : r = [d EXCEPT !.next = a, !.left = b]
    OBVIOUS
  <2>4. a \in Int /\ b \in Int
    BY <1>6, <1>8, <2>2
  <2>5. r \in [kind : Kinds, next : Int, left : Int] /\ r.kind = d.kind /\ r.next = a /\ r.left = b
    BY <1>5, <2>3, <2>4 DEF Channel
  <2>6. r = [kind |-> d.kind, next |-> a, left |-> b]
    BY <2>5
  <2>7. QED
    BY <1>17, <2>2, <2>3, <2>6
<1>19. d.next + n \in 1 .. 11 /\ d.left - n \in 0 .. 10
       /\ (d.left - n > 0 => d.next + n + (d.left - n) = last + 1)
  <2>1. d.next + n \in 1 .. 11 /\ d.left - n \in 0 .. 10
    BY <1>6, <1>8, <1>9
  <2>2. d.left - n > 0 => d.next + n + (d.left - n) = last + 1
    <3>1. n \in 0 .. 4 /\ n <= d.left
      BY <1>8
    <3>2. QED
      BY <1>6, <1>9, <3>1
  <2>3. QED
    BY <2>1, <2>2
<1>20. e \in Channel /\ Stops(e)
  BY <1>4, <1>6, <1>17, <1>19 DEF Channel, Stops
<1>21. PICK q : q = Copied(p)
  OBVIOUS
<1>22. q = [p EXCEPT !.fifo = fifo, !.dma = e]
  BY <1>1, <1>2, <1>10, <1>15, <1>18, <1>21 DEF Copied
<1>23. q \in Port /\ q.sm = p.sm /\ q.osr = p.osr /\ q.fifo = fifo /\ q.dma = e
  BY <1>16, <1>20, <1>22 DEF Fits, Port
<1>24. Len(fifo) <= 4 /\ (e.left > 0 => Len(fifo) = 4)
  <2>1. len + n <= 4 /\ (d.left - n > 0 => len + n = 4)
    BY <1>5, <1>6, <1>8, <1>7
  <2>2. e.left = d.left - n
    BY <1>17
  <2>3. QED
    BY <1>16, <2>1, <2>2
<1>25. Filled(q)
  BY <1>20, <1>23, <1>24 DEF Filled, Fits, TxFifoDepth
<1>26. \A i \in 1 .. n : fifo[len + i] = Read(d.kind, d.next + i - 1)
  BY <1>10, <1>16
<1>27. QED
  BY <1>1, <1>2, <1>3, <1>7, <1>8, <1>16, <1>17, <1>21, <1>23, <1>25, <1>26

\* Emptying the FIFO lets the channel fill it again: four bytes less are left.
LEMMA Clears ==
  ASSUME OutOK, NEW p, Filled(p)
  PROVE  LET q == pio_sm_clear_fifos(p)
         IN /\ Filled(q) /\ q.sm = p.sm /\ q.osr = p.osr
            /\ q.dma.left = IF p.dma.left > 4 THEN p.dma.left - 4 ELSE 0
            /\ p.dma.left = 0 => q.fifo = <<>>
<1>1. PICK e : e = [p EXCEPT !.fifo = <<>>]
  OBVIOUS
<1>2. p \in Port /\ Stops(p.dma) /\ p.dma \in Channel
  BY DEF Filled, Fits, Port
<1>3. <<>> \in Seq(Byte) /\ Len(<<>>) = 0
  OBVIOUS
<1>4. e \in Port /\ e.dma = p.dma /\ e.fifo = <<>> /\ e.sm = p.sm /\ e.osr = p.osr
  BY <1>1, <1>2, <1>3 DEF Port
<1>5. Fits(e) /\ Len(e.fifo) = 0
  BY <1>2, <1>3, <1>4 DEF Fits, TxFifoDepth
<1>6. PICK q : q = Copied(e)
  OBVIOUS
<1>7. PICK n : n = Room(e)
  OBVIOUS
<1>8. /\ Filled(q) /\ q.sm = e.sm /\ q.osr = e.osr
      /\ n \in 0 .. 4 /\ n <= e.dma.left
      /\ n = IF 4 - Len(e.fifo) < e.dma.left THEN 4 - Len(e.fifo) ELSE e.dma.left
      /\ q.dma = [kind |-> e.dma.kind, next |-> e.dma.next + n, left |-> e.dma.left - n]
      /\ Len(q.fifo) = Len(e.fifo) + n
  BY <1>5, <1>6, <1>7, Copies
<1>9. n = IF 4 < e.dma.left THEN 4 ELSE e.dma.left
  BY <1>5, <1>8
<1>10. q.dma.left = e.dma.left - n /\ e.dma.left \in 0 .. 10
  BY <1>2, <1>4, <1>8 DEF Channel
<1>11. q.fifo \in Seq(Byte)
  BY <1>8 DEF Filled, Fits, Port
<1>12. e.dma.left = 0 => q.fifo = <<>>
  BY <1>5, <1>8, <1>9, <1>11
<1>13. q.dma.left = IF e.dma.left > 4 THEN e.dma.left - 4 ELSE 0
  BY <1>9, <1>10
<1>14. QED
  BY <1>1, <1>4, <1>6, <1>8, <1>12, <1>13 DEF pio_sm_clear_fifos

\* What fills an empty shift register.
LEMMA Pulls ==
  ASSUME OutOK, NEW p, Filled(p)
  PROVE  LET q == Pulled(p)
             n == IF p.dma.left > 0 THEN 1 ELSE 0
         IN /\ Filled(q) /\ q.sm = p.sm /\ q.dma.left <= p.dma.left
            /\ p.osr # Nothing \/ p.fifo = <<>> => q = p
            /\ p.osr = Nothing /\ p.fifo # <<>> =>
                 /\ q.osr \in Byte /\ q.osr = p.fifo[1]
                 /\ q.dma = [kind |-> p.dma.kind, next |-> p.dma.next + n, left |-> p.dma.left - n]
                 /\ Len(q.fifo) = Len(p.fifo) - 1 + n
                 /\ \A i \in 1 .. Len(p.fifo) - 1 : q.fifo[i] = p.fifo[i + 1]
                 /\ n = 1 => q.fifo[Len(p.fifo)] = Read(p.dma.kind, p.dma.next)
<1>1. p \in Port /\ Stops(p.dma) /\ p.dma \in Channel /\ p.fifo \in Seq(Byte)
  BY DEF Filled, Fits, Port
<1>2. p.dma.left \in 0 .. 10 /\ p.dma.next \in 1 .. 11
  BY <1>1 DEF Channel
<1>3. CASE p.osr # Nothing \/ p.fifo = <<>>
  <2>1. Pulled(p) = p
    BY <1>3 DEF Pulled
  <2>2. p.dma.left <= p.dma.left /\ ~(p.osr = Nothing /\ p.fifo # <<>>)
    BY <1>2, <1>3
  <2>3. QED
    BY <2>1, <2>2
<1>4. CASE p.osr = Nothing /\ p.fifo # <<>>
  <2>1. PICK f, len : f = p.fifo /\ len = Len(f)
    OBVIOUS
  <2>2. PICK rest : rest = Tail(f)
    OBVIOUS
  <2>3. len \in Nat /\ len >= 1
    BY <1>1, <1>4, <2>1
  <2>4. len <= 4 /\ (p.dma.left > 0 => len = 4)
    BY <2>1 DEF Filled, Fits, TxFifoDepth
  <2>5. /\ Head(f) = f[1] /\ f[1] \in Byte
        /\ rest \in Seq(Byte) /\ Len(rest) = len - 1
        /\ \A i \in 1 .. Len(rest) : rest[i] = f[i + 1]
    <3>1. f \in Seq(Byte) /\ f # <<>>
      BY <1>1, <1>4, <2>1
    <3>2. Head(f) \in Byte /\ Tail(f) \in Seq(Byte) /\ Len(Tail(f)) = Len(f) - 1
          /\ \A i \in 1 .. Len(Tail(f)) : Tail(f)[i] = f[i + 1]
      BY <3>1, HeadTailProperties
    <3>3. Head(f) = f[1]
      BY <3>1
    <3>4. QED
      BY <2>1, <2>2, <3>2, <3>3
  <2>6. PICK e : e = [p EXCEPT !.osr = Head(f), !.fifo = rest]
    OBVIOUS
  <2>7. e \in Port /\ e.sm = p.sm /\ e.osr = f[1] /\ e.fifo = rest /\ e.dma = p.dma
    BY <1>1, <2>5, <2>6 DEF Port
  <2>8. PICK m : m = Len(rest)
    OBVIOUS
  <2>9. m = len - 1 /\ m \in 0 .. 3
    BY <2>3, <2>4, <2>5, <2>8
  <2>10. Fits(e)
    BY <1>1, <2>7, <2>8, <2>9 DEF Fits, TxFifoDepth
  <2>11. PICK q, k : q = Copied(e) /\ k = Room(e)
    OBVIOUS
  <2>12. /\ Filled(q) /\ q.sm = e.sm /\ q.osr = e.osr
         /\ k \in 0 .. 4 /\ k <= e.dma.left
         /\ k = IF 4 - Len(e.fifo) < e.dma.left THEN 4 - Len(e.fifo) ELSE e.dma.left
         /\ q.dma = [kind |-> e.dma.kind, next |-> e.dma.next + k, left |-> e.dma.left - k]
         /\ Len(q.fifo) = Len(e.fifo) + k
         /\ \A i \in 1 .. Len(e.fifo) : q.fifo[i] = e.fifo[i]
         /\ \A i \in 1 .. k : q.fifo[Len(e.fifo) + i] = Read(e.dma.kind, e.dma.next + i - 1)
    BY <2>10, <2>11, Copies
  <2>13. k = IF 4 - m < p.dma.left THEN 4 - m ELSE p.dma.left
    BY <2>7, <2>8, <2>12
  <2>14. k = IF p.dma.left > 0 THEN 1 ELSE 0
    BY <1>2, <2>4, <2>9, <2>13
  <2>15. q = Pulled(p)
    BY <1>4, <2>1, <2>2, <2>6, <2>11 DEF Pulled
  <2>16. Filled(q) /\ q.sm = p.sm /\ q.osr = f[1] /\ q.osr \in Byte
    BY <2>5, <2>7, <2>12
  <2>17. q.dma = [kind |-> p.dma.kind, next |-> p.dma.next + k, left |-> p.dma.left - k]
    BY <2>7, <2>12
  <2>18. Len(q.fifo) = len - 1 + k
    BY <2>7, <2>8, <2>9, <2>12
  <2>19. \A i \in 1 .. len - 1 : q.fifo[i] = f[i + 1]
    BY <2>5, <2>7, <2>8, <2>9, <2>12
  <2>20. k = 1 => q.fifo[len] = Read(p.dma.kind, p.dma.next)
    <3>1. k = 1 => q.fifo[m + 1] = Read(p.dma.kind, p.dma.next + 1 - 1)
      BY <2>7, <2>8, <2>12
    <3>2. m + 1 = len /\ p.dma.next + 1 - 1 = p.dma.next
      BY <1>2, <2>3, <2>9
    <3>3. QED
      BY <3>1, <3>2
  <2>21. q.dma.left <= p.dma.left
    BY <1>2, <2>14, <2>17
  <2>22. QED
    BY <1>4, <2>1, <2>14, <2>15, <2>16, <2>17, <2>18, <2>19, <2>20, <2>21
<1>5. QED
  BY <1>3, <1>4

\* A port that is set up again has lost the rest of the answer, and a port that
\* had nothing left is empty.
LEMMA SetsUp ==
  ASSUME OutOK, NEW p, Filled(p), p.dma.left <= 8, NEW in \in BOOLEAN
  PROVE  LET q == joybus_set_in(in, p)
         IN /\ Filled(q) /\ q.sm = (IF in THEN "in" ELSE "out") /\ q.dma.left = 0
            /\ p.dma.left = 0 => q.osr = Nothing
<1>1. PICK c : c = pio_sm_clear_fifos(p)
  OBVIOUS
<1>2. Filled(c) /\ c.dma.left = (IF p.dma.left > 4 THEN p.dma.left - 4 ELSE 0)
  BY <1>1, Clears
<1>3. PICK d : d = pio_sm_clear_fifos(c)
  OBVIOUS
<1>4. Filled(d) /\ d.dma.left = (IF c.dma.left > 4 THEN c.dma.left - 4 ELSE 0)
      /\ (c.dma.left = 0 => d.fifo = <<>>)
  BY <1>2, <1>3, Clears
<1>5. p.dma.left \in 0 .. 10
  BY DEF Filled, Fits, Port, Channel
<1>6. d.dma.left = 0 /\ (p.dma.left = 0 => d.fifo = <<>>)
  BY <1>2, <1>4, <1>5
<1>7. PICK e : e = [d EXCEPT !.osr = Nothing, !.sm = IF in THEN "in" ELSE "out"]
  OBVIOUS
<1>8. d \in Port /\ Stops(d.dma)
  BY <1>4 DEF Filled, Fits
<1>9. e \in Port /\ e.sm = (IF in THEN "in" ELSE "out") /\ e.osr = Nothing
      /\ e.fifo = d.fifo /\ e.dma = d.dma
  BY <1>7, <1>8 DEF Port
<1>10. Filled(e)
  BY <1>4, <1>9 DEF Filled, Fits
<1>11. PICK q : q = Pulled(e)
  OBVIOUS
<1>12. Filled(q) /\ q.sm = e.sm /\ q.dma.left <= e.dma.left /\ (e.fifo = <<>> => q = e)
  BY <1>10, <1>11, Pulls
<1>13. q.dma.left \in 0 .. 10
  BY <1>12 DEF Filled, Fits, Port, Channel
<1>14. q.dma.left = 0
  BY <1>6, <1>9, <1>12, <1>13
<1>15. q = joybus_set_in(in, p)
  BY <1>1, <1>3, <1>7, <1>11 DEF joybus_set_in
<1>16. QED
  BY <1>6, <1>9, <1>12, <1>14, <1>15
-----------------------------------------------------------------------------
\* Of an answer of this kind, h bytes are out: the next one is in the shift
\* register, more are behind it, and the channel brings the rest.
Coming(p, kind, h) ==
  /\ p.osr \in Byte /\ p.osr.kind = kind /\ p.osr.byte = h + 1
  /\ \A i \in 1 .. Len(p.fifo) : p.fifo[i].kind = kind /\ p.fifo[i].byte = h + 1 + i
  /\ h + 1 + Len(p.fifo) + p.dma.left = Length[kind]
  /\ p.dma.left > 0 => p.dma.kind = kind

\* What a byte of an answer to a poll holds is what the buffer holds now.
TrueByte(b) == b.kind = "poll" => b.holds = out[b.byte]
TrueBytes(p) ==
  /\ p.osr # Nothing => TrueByte(p.osr)
  /\ \A i \in 1 .. Len(p.fifo) : TrueByte(p.fifo[i])

\* What is read of an answer to a poll is what the buffer holds then.
LEMMA ReadIsTrue ==
  ASSUME OutOK, NEW k \in Kinds, NEW i \in 1 .. Length[k]
  PROVE  TrueByte(Read(k, i))
<1>1. Read(k, i).kind = k /\ Read(k, i).byte = i /\ (k = "poll" => Read(k, i).holds = out[i])
  BY ReadIsByte
<1>2. QED
  BY <1>1 DEF TrueByte

\* An answer that is sent to an empty port is all that comes.
LEMMA Sends ==
  ASSUME OutOK, NEW p, Filled(p), p.dma.left = 0, p.osr = Nothing, NEW kind \in Kinds
  PROVE  LET q == _gamecube_send(kind, p)
         IN Filled(q) /\ q.sm = p.sm /\ Coming(q, kind, 0) /\ TrueBytes(q)
<1>1. PICK c : c = pio_sm_clear_fifos(p)
  OBVIOUS
<1>2. Filled(c) /\ c.sm = p.sm /\ c.osr = Nothing /\ c.fifo = <<>> /\ c.dma.left = 0
  <2>1. Filled(c) /\ c.sm = p.sm /\ c.osr = p.osr
        /\ c.dma.left = (IF p.dma.left > 4 THEN p.dma.left - 4 ELSE 0)
        /\ (p.dma.left = 0 => c.fifo = <<>>)
    BY <1>1, Clears
  <2>2. QED
    BY <2>1
<1>3. PICK size : size = Length[kind]
  OBVIOUS
<1>4. size \in {3, 8, 10}
  BY <1>3, Lengths DEF Kinds
<1>5. PICK d : d = [kind |-> kind, next |-> 1, left |-> size]
  OBVIOUS
<1>6. d \in Channel /\ Stops(d) /\ d.left = size /\ d.next = 1 /\ d.kind = kind
  BY <1>3, <1>4, <1>5 DEF Channel, Stops
<1>7. PICK e : e = [c EXCEPT !.dma = d]
  OBVIOUS
<1>8. c \in Port /\ Len(<<>>) = 0
  BY <1>2 DEF Filled, Fits
<1>9. e \in Port /\ e.sm = p.sm /\ e.osr = Nothing /\ e.fifo = <<>> /\ e.dma = d
  BY <1>2, <1>6, <1>7, <1>8 DEF Port
<1>10. PICK m : m = Len(e.fifo)
  OBVIOUS
<1>11. m = 0
  BY <1>8, <1>9, <1>10
<1>12. Fits(e)
  BY <1>6, <1>9, <1>10, <1>11 DEF Fits, TxFifoDepth
<1>13. PICK g, n : g = Copied(e) /\ n = Room(e)
  OBVIOUS
<1>14. /\ Filled(g) /\ g.sm = e.sm /\ g.osr = e.osr
       /\ n \in 0 .. 4 /\ n <= e.dma.left
       /\ n = IF 4 - Len(e.fifo) < e.dma.left THEN 4 - Len(e.fifo) ELSE e.dma.left
       /\ g.dma = [kind |-> e.dma.kind, next |-> e.dma.next + n, left |-> e.dma.left - n]
       /\ Len(g.fifo) = Len(e.fifo) + n
       /\ \A i \in 1 .. n : g.fifo[Len(e.fifo) + i] = Read(e.dma.kind, e.dma.next + i - 1)
  BY <1>12, <1>13, Copies
<1>15. n = IF 4 < size THEN 4 ELSE size
  BY <1>4, <1>6, <1>9, <1>10, <1>11, <1>14
<1>16. n \in 3 .. 4 /\ n <= size
  BY <1>4, <1>15
<1>17. /\ Filled(g) /\ g.sm = p.sm /\ g.osr = Nothing
       /\ g.dma = [kind |-> kind, next |-> 1 + n, left |-> size - n]
  BY <1>6, <1>9, <1>14
<1>18. PICK b : b = g.fifo
  OBVIOUS
<1>19. Len(b) = n
  BY <1>10, <1>11, <1>14, <1>16, <1>18
<1>20. \A i \in 1 .. n : b[i] = Read(kind, i)
  <2>1. \A i \in 1 .. n : b[0 + i] = Read(kind, 1 + i - 1)
    BY <1>6, <1>9, <1>10, <1>11, <1>14, <1>18
  <2>2. \A i \in 1 .. n : 0 + i = i /\ 1 + i - 1 = i
    BY <1>16
  <2>3. QED
    BY <2>1, <2>2
<1>21. PICK q, k : q = Pulled(g) /\ k = IF size - n > 0 THEN 1 ELSE 0
  OBVIOUS
<1>22. b # <<>>
  BY <1>8, <1>16, <1>19
<1>23. g.dma.left = size - n /\ g.dma.next = 1 + n /\ g.dma.kind = kind
  BY <1>17
<1>24. /\ Filled(q) /\ q.sm = p.sm
       /\ q.osr \in Byte /\ q.osr = b[1]
       /\ q.dma = [kind |-> kind, next |-> 1 + n + k, left |-> size - n - k]
       /\ Len(q.fifo) = n - 1 + k
       /\ \A i \in 1 .. n - 1 : q.fifo[i] = b[i + 1]
       /\ k = 1 => q.fifo[n] = Read(kind, 1 + n)
  <2>1. LET h == IF g.dma.left > 0 THEN 1 ELSE 0
        IN /\ Filled(q) /\ q.sm = g.sm
           /\ q.osr \in Byte /\ q.osr = g.fifo[1]
           /\ q.dma = [kind |-> g.dma.kind, next |-> g.dma.next + h, left |-> g.dma.left - h]
           /\ Len(q.fifo) = Len(g.fifo) - 1 + h
           /\ \A i \in 1 .. Len(g.fifo) - 1 : q.fifo[i] = g.fifo[i + 1]
           /\ h = 1 => q.fifo[Len(g.fifo)] = Read(g.dma.kind, g.dma.next)
    BY <1>17, <1>18, <1>21, <1>22, Pulls
  <2>2. QED
    BY <1>17, <1>18, <1>19, <1>21, <1>23, <2>1
<1>25. PICK l : l = n - 1 + k
  OBVIOUS
<1>26. k \in 0 .. 1 /\ l \in 2 .. 4 /\ (k = 1 => l = n /\ n + 1 <= size) /\ (k = 0 => l = n - 1)
       /\ (size - n - k > 0 => k = 1)
  BY <1>4, <1>16, <1>21, <1>25
<1>27. \A i \in 1 .. l : q.fifo[i] = Read(kind, i + 1) /\ i + 1 \in 1 .. size
  <2> TAKE i \in 1 .. l
  <2>1. CASE i <= n - 1
    <3>1. i \in 1 .. n - 1 /\ i + 1 \in 1 .. n /\ i + 1 \in 1 .. size
      BY <1>4, <1>16, <1>26, <2>1
    <3>2. QED
      BY <1>20, <1>24, <3>1
  <2>2. CASE i > n - 1
    <3>1. i = n /\ k = 1 /\ 1 + n = i + 1 /\ i + 1 \in 1 .. size
      BY <1>4, <1>16, <1>26, <2>2
    <3>2. QED
      BY <1>24, <3>1
  <2>3. QED
    BY <1>16, <1>26, <2>1, <2>2
<1>28. 1 \in 1 .. n /\ 1 \in 1 .. size
  BY <1>4, <1>16
<1>29. q.osr = Read(kind, 1)
  BY <1>20, <1>24, <1>28
<1>30. Coming(q, kind, 0)
  <2>1. q.osr \in Byte /\ q.osr.kind = kind /\ q.osr.byte = 0 + 1
    BY <1>3, <1>24, <1>28, <1>29, ReadIsByte
  <2>2. \A i \in 1 .. l : q.fifo[i].kind = kind /\ q.fifo[i].byte = 0 + 1 + i
    <3>1. \A i \in 1 .. l : q.fifo[i].kind = kind /\ q.fifo[i].byte = i + 1
      BY <1>3, <1>27, ReadIsByte
    <3>2. \A i \in 1 .. l : 0 + 1 + i = i + 1
      OBVIOUS
    <3>3. QED
      BY <3>1, <3>2
  <2>3. q.dma.left = size - n - k /\ q.dma.kind = kind /\ Len(q.fifo) = l
    BY <1>24, <1>25
  <2>4. 0 + 1 + l + (size - n - k) = size
    BY <1>4, <1>16, <1>25, <1>26
  <2>5. QED
    BY <1>3, <2>1, <2>2, <2>3, <2>4 DEF Coming
<1>31. TrueBytes(q)
  <2>1. TrueByte(q.osr)
    BY <1>3, <1>28, <1>29, ReadIsTrue
  <2>2. \A i \in 1 .. l : TrueByte(q.fifo[i])
    BY <1>3, <1>27, ReadIsTrue
  <2>3. QED
    BY <1>24, <1>25, <2>1, <2>2 DEF TrueBytes
<1>32. q = _gamecube_send(kind, p)
  <2>1. e = [c EXCEPT !.dma = [kind |-> kind, next |-> 1,
                               left |-> IF @.left > 0 THEN @.left ELSE Length[kind]]]
    BY <1>2, <1>3, <1>5, <1>7
  <2>2. QED
    BY <1>1, <1>13, <1>21, <2>1 DEF _gamecube_send
<1>33. QED
  BY <1>24, <1>30, <1>31, <1>32

\* When a byte is out the next one follows, and the last one leaves nothing.
LEMMA Follows ==
  ASSUME OutOK, NEW p, Filled(p), NEW kind \in Kinds, NEW h \in Nat, Coming(p, kind, h)
  PROVE  LET q == Pulled([p EXCEPT !.osr = Nothing])
         IN /\ Filled(q) /\ q.sm = p.sm /\ q.dma.left <= p.dma.left
            /\ p.fifo = <<>> => q.osr = Nothing /\ q.dma.left = 0 /\ h + 1 = Length[kind]
            /\ p.fifo # <<>> => q.osr # Nothing /\ Coming(q, kind, h + 1)
            /\ TrueBytes(p) => TrueBytes(q)
<1>1. PICK e : e = [p EXCEPT !.osr = Nothing]
  OBVIOUS
<1>2. p \in Port /\ p.fifo \in Seq(Byte) /\ p.dma \in Channel /\ Stops(p.dma)
  BY DEF Filled, Fits, Port
<1>3. e \in Port /\ e.sm = p.sm /\ e.osr = Nothing /\ e.fifo = p.fifo /\ e.dma = p.dma
  BY <1>1, <1>2 DEF Port
<1>4. Filled(e)
  BY <1>3 DEF Filled, Fits
<1>5. PICK q, left : q = Pulled(e) /\ left = p.dma.left
  OBVIOUS
<1>6. left \in 0 .. 10
  BY <1>2, <1>5 DEF Channel
<1>7. PICK f, len : f = p.fifo /\ len = Len(f)
  OBVIOUS
<1>8. len \in Nat /\ (f = <<>> <=> len = 0) /\ f \in Seq(Byte)
  BY <1>2, <1>7
<1>9. len <= 4 /\ (left > 0 => len = 4)
  BY <1>5, <1>7 DEF Filled, Fits, TxFifoDepth
<1>10. PICK size : size = Length[kind]
  OBVIOUS
<1>11. size \in {3, 8, 10}
  BY <1>10, Lengths DEF Kinds
<1>12. h + 1 + len + left = size /\ (left > 0 => p.dma.kind = kind)
       /\ \A i \in 1 .. len : f[i].kind = kind /\ f[i].byte = h + 1 + i
  BY <1>5, <1>7, <1>10 DEF Coming
<1>13. CASE f = <<>>
  <2>1. len = 0 /\ left = 0
    BY <1>6, <1>8, <1>9, <1>13
  <2>2. q = e
    BY <1>3, <1>4, <1>5, <1>7, <1>13, Pulls
  <2>3. h + 1 = size
    BY <1>12, <2>1
  <2>4. TrueBytes(q)
    <3>1. Len(q.fifo) = 0 /\ q.osr = Nothing
      BY <1>3, <1>7, <2>1, <2>2
    <3>2. QED
      BY <3>1 DEF TrueBytes
  <2>5. q.dma.left <= p.dma.left
    BY <1>3, <1>5, <1>6, <2>2
  <2>6. QED
    BY <1>1, <1>3, <1>4, <1>5, <1>7, <1>10, <1>13, <2>1, <2>2, <2>3, <2>4, <2>5
<1>14. CASE f # <<>>
  <2>1. PICK n : n = IF left > 0 THEN 1 ELSE 0
    OBVIOUS
  <2>2. PICK kd, nx : kd = p.dma.kind /\ nx = p.dma.next
    OBVIOUS
  <2>3. /\ Filled(q) /\ q.sm = p.sm
        /\ q.osr \in Byte /\ q.osr = f[1]
        /\ q.dma = [kind |-> kd, next |-> nx + n, left |-> left - n]
        /\ Len(q.fifo) = len - 1 + n
        /\ \A i \in 1 .. len - 1 : q.fifo[i] = f[i + 1]
        /\ n = 1 => q.fifo[len] = Read(kd, nx)
    <3>1. LET m == IF e.dma.left > 0 THEN 1 ELSE 0
          IN /\ Filled(q) /\ q.sm = e.sm
             /\ q.osr \in Byte /\ q.osr = e.fifo[1]
             /\ q.dma = [kind |-> e.dma.kind, next |-> e.dma.next + m, left |-> e.dma.left - m]
             /\ Len(q.fifo) = Len(e.fifo) - 1 + m
             /\ \A i \in 1 .. Len(e.fifo) - 1 : q.fifo[i] = e.fifo[i + 1]
             /\ m = 1 => q.fifo[Len(e.fifo)] = Read(e.dma.kind, e.dma.next)
      BY <1>3, <1>4, <1>5, <1>7, <1>14, Pulls
    <3>2. QED
      BY <1>3, <1>5, <1>7, <2>1, <2>2, <3>1
  <2>4. len \in 1 .. 4
    BY <1>8, <1>9, <1>14
  <2>5. PICK l : l = len - 1 + n
    OBVIOUS
  <2>6. n \in 0 .. 1 /\ n <= left /\ l \in 0 .. 4 /\ (n = 1 => l = len /\ left > 0)
        /\ (n = 0 => l = len - 1 /\ left = 0)
    BY <1>6, <2>1, <2>4, <2>5
  <2>7. left > 0 => kd = kind /\ nx = h + 1 + len + 1 /\ nx \in 1 .. size
    <3>1. nx \in 1 .. 11 /\ (left > 0 => nx + left = Length[kd] + 1)
      BY <1>2, <1>5, <2>2 DEF Channel, Stops
    <3>2. left > 0 => kd = kind /\ nx + left = size + 1
      BY <1>10, <1>12, <2>2, <3>1
    <3>3. left > 0 => nx = h + 1 + len + 1 /\ nx <= size
      BY <1>6, <1>11, <1>12, <2>4, <3>1, <3>2
    <3>4. QED
      BY <1>11, <3>1, <3>2, <3>3
  <2>8. Coming(q, kind, h + 1)
    <3>1. q.osr.kind = kind /\ q.osr.byte = h + 1 + 1
      BY <1>12, <2>3, <2>4
    <3>2. \A i \in 1 .. l : q.fifo[i].kind = kind /\ q.fifo[i].byte = h + 1 + 1 + i
      <4> TAKE i \in 1 .. l
      <4>1. CASE i <= len - 1
        <5>1. i \in 1 .. len - 1 /\ i + 1 \in 1 .. len /\ h + 1 + (i + 1) = h + 1 + 1 + i
          BY <2>4, <2>6, <4>1
        <5>2. q.fifo[i] = f[i + 1] /\ f[i + 1].kind = kind /\ f[i + 1].byte = h + 1 + (i + 1)
          BY <1>12, <2>3, <5>1
        <5>3. QED
          BY <5>1, <5>2
      <4>2. CASE i > len - 1
        <5>1. i = len /\ n = 1 /\ left > 0
          BY <2>4, <2>6, <4>2
        <5>2. q.fifo[i] = Read(kind, nx)
          BY <2>3, <2>7, <5>1
        <5>3. q.fifo[i].kind = kind /\ q.fifo[i].byte = nx
          BY <1>10, <2>7, <5>1, <5>2, ReadIsByte
        <5>4. nx = h + 1 + 1 + i
          BY <2>4, <2>7, <5>1
        <5>5. QED
          BY <5>3, <5>4
      <4>3. QED
        BY <2>4, <2>6, <4>1, <4>2
    <3>3. h + 1 + 1 + l + (left - n) = size
      BY <1>6, <1>11, <1>12, <2>4, <2>5, <2>6
    <3>4. q.dma.left = left - n /\ q.dma.kind = kd /\ Len(q.fifo) = l
      BY <2>3, <2>5
    <3>5. left - n > 0 => kd = kind
      BY <1>6, <2>6, <2>7
    <3>6. QED
      BY <1>10, <2>3, <3>1, <3>2, <3>3, <3>4, <3>5 DEF Coming
  <2>9. ASSUME TrueBytes(p) PROVE TrueBytes(q)
    <3>1. \A i \in 1 .. len : TrueByte(f[i])
      BY <1>7, <2>9 DEF TrueBytes
    <3>2. TrueByte(q.osr)
      BY <2>3, <2>4, <3>1
    <3>3. \A i \in 1 .. l : TrueByte(q.fifo[i])
      <4> TAKE i \in 1 .. l
      <4>1. CASE i <= len - 1
        <5>1. i \in 1 .. len - 1 /\ i + 1 \in 1 .. len
          BY <2>4, <2>6, <4>1
        <5>2. QED
          BY <2>3, <3>1, <5>1
      <4>2. CASE i > len - 1
        <5>1. i = len /\ n = 1 /\ left > 0
          BY <2>4, <2>6, <4>2
        <5>2. QED
          BY <1>10, <2>3, <2>7, <5>1, ReadIsTrue
      <4>3. QED
        BY <2>4, <2>6, <4>1, <4>2
    <3>4. Len(q.fifo) = l
      BY <2>3, <2>5
    <3>5. QED
      BY <3>2, <3>3, <3>4 DEF TrueBytes
  <2>10. q.dma.left <= p.dma.left
    BY <1>5, <1>6, <2>3, <2>6
  <2>11. q.osr # Nothing
    BY <2>3, BytesAreSomething
  <2>12. QED
    BY <1>1, <1>5, <1>7, <1>14, <2>3, <2>8, <2>9, <2>10, <2>11
<1>15. QED
  BY <1>13, <1>14

\* Switching the direction leaves the bytes alone.
LEMMA Switches ==
  ASSUME NEW p, Filled(p), NEW sm \in {"in", "out"}
  PROVE  LET q == [p EXCEPT !.sm = sm]
         IN /\ Filled(q) /\ q.sm = sm /\ q.osr = p.osr /\ q.fifo = p.fifo /\ q.dma = p.dma
            /\ \A k, h : Coming(p, k, h) => Coming(q, k, h)
            /\ TrueBytes(p) => TrueBytes(q)
<1>1. p \in Port
  BY DEF Filled, Fits
<1>2. PICK q : q = [p EXCEPT !.sm = sm]
  OBVIOUS
<1>3. q \in Port /\ q.sm = sm /\ q.osr = p.osr /\ q.fifo = p.fifo /\ q.dma = p.dma
  BY <1>1, <1>2 DEF Port
<1>4. Filled(q)
  BY <1>3 DEF Filled, Fits
<1>5. \A k, h : Coming(p, k, h) => Coming(q, k, h)
  BY <1>3 DEF Coming
<1>6. TrueBytes(p) => TrueBytes(q)
  BY <1>3 DEF TrueBytes
<1>7. QED
  BY <1>2, <1>3, <1>4, <1>5, <1>6
-----------------------------------------------------------------------------
\* Every layout has eight bytes, the buttons first.
LEMMA Layouts ==
  ASSUME NEW m
  PROVE  /\ Layout(m) \in [1 .. 8 -> Controls]
         /\ Layout(m)[1] = "buttons" /\ Layout(m)[2] = "buttons"
         /\ \A i \in 1 .. 8 : Layout(m)[i] \in {Layout(k)[i] : k \in 0 .. 4}
<1>1. PICK k \in 0 .. 4 : Layout(m) = Layout(k)
  <2>1. m \notin {0, 1, 2, 4} => Layout(m) = Layout(3)
    BY DEF Layout
  <2>2. QED
    BY <2>1
<1>2. Layout(k) \in {Mode0, Mode1, Mode2, Mode3, Mode4}
  BY DEF Layout
<1>3. DOMAIN Layout(k) = 1 .. 8 /\ Layout(k) = [i \in 1 .. 8 |-> Layout(k)[i]]
  BY <1>2 DEF Mode0, Mode1, Mode2, Mode3, Mode4
<1>4. Layout(k)[1] = "buttons" /\ Layout(k)[2] = "buttons"
  BY <1>2 DEF Mode0, Mode1, Mode2, Mode3, Mode4
<1>5. \A i \in 1 .. 8 : Layout(k)[i] \in Controls
  BY DEF Controls
<1>6. QED
  BY <1>1, <1>3, <1>4, <1>5

OutTyped == OutOK /\ \A i \in 1 .. 8 : out[i] \in {Layout(m)[i] : m \in 0 .. 4}
HeardTyped == heard \in Seq(Byte) /\ Len(heard) <= 10
Typed ==
  /\ OutTyped /\ HeardTyped
  /\ update \in [next : 0 .. 8, mode : PollModes \cup {0}]
  /\ mode \in PollModes \cup {0}
  /\ polled \in BOOLEAN /\ got_data \in BOOLEAN /\ settled \in BOOLEAN
  /\ loop \in {"messages", "reset", "forget", "init", "update"}
  /\ asked \in [kind : Kinds \cup {None}, settled : BOOLEAN]

\* Buffer and bytes heard keep their types while nothing touches them.
LEMMA Unread ==
  ASSUME Typed
  PROVE  OutOK /\ (out' = out => OutTyped') /\ (heard' = heard => HeardTyped')
<1>1. OutTyped /\ HeardTyped
  BY DEF Typed
<1>2. ASSUME out' = out PROVE OutTyped'
  BY <1>1, <1>2 DEF OutTyped, OutOK
<1>3. ASSUME heard' = heard PROVE HeardTyped'
  BY <1>1, <1>3 DEF HeardTyped
<1>4. QED
  BY <1>1, <1>2, <1>3 DEF OutTyped

\* The channel has nothing left for a port that listens, and little for one that
\* is being connected: emptying the FIFO twice takes the rest of any answer.
Wire ==
  /\ Filled(port) /\ port.dma.left <= 5
  /\ port.sm = "in" => port.dma.left = 0
  /\ loop = "init" => port.dma.left <= 4

\* An answer on its way was heard from its first byte on and is all that comes.
OnItsWay ==
  /\ asked.kind \in Kinds
  /\ \A i \in 1 .. Len(heard) : heard[i].kind = asked.kind /\ heard[i].byte = i
  /\ Coming(port, asked.kind, Len(heard))
Whole == port.sm = "out" /\ loop # "init" => OnItsWay

\* The byte that goes out is the next one of its answer.
LEMMA ByteOutGivesNext ==
  ASSUME Typed, Wire, Whole, ByteOut
  PROVE  /\ OnItsWay
         /\ heard' = Append(heard, port.osr) /\ port.osr \in Byte
         /\ heard' \in Seq(Byte) /\ Len(heard') = Len(heard) + 1 /\ Len(heard') <= 10
         /\ \A i \in 1 .. Len(heard) : heard'[i] = heard[i]
         /\ heard'[Len(heard) + 1] = port.osr
         /\ \A i \in 1 .. Len(heard') : heard'[i].kind = asked.kind /\ heard'[i].byte = i
         /\ Filled(port') /\ port'.dma.left <= port.dma.left /\ port'.sm \in {"in", "out"}
         /\ port'.sm = "in" => port'.dma.left = 0 /\ Len(heard') = Length[asked.kind]
         /\ port'.sm = "out" => Coming(port', asked.kind, Len(heard'))
         /\ TrueBytes(port) => TrueBytes(port')
<1>1. OnItsWay /\ asked.kind \in Kinds
  BY DEF ByteOut, Whole, OnItsWay
<1>2. PICK h : h = Len(heard)
  OBVIOUS
<1>3. h \in Nat /\ heard \in Seq(Byte)
  BY <1>2 DEF Typed, HeardTyped
<1>4. Coming(port, asked.kind, h)
  BY <1>1, <1>2 DEF OnItsWay
<1>5. port.osr \in Byte /\ port.osr.kind = asked.kind /\ port.osr.byte = h + 1
  BY <1>4 DEF Coming
<1>6. PICK p : p = Pulled([port EXCEPT !.osr = Nothing])
  OBVIOUS
<1>7. /\ Filled(p) /\ p.sm = port.sm /\ p.dma.left <= port.dma.left
      /\ port.fifo = <<>> => p.osr = Nothing /\ p.dma.left = 0 /\ h + 1 = Length[asked.kind]
      /\ port.fifo # <<>> => p.osr # Nothing /\ Coming(p, asked.kind, h + 1)
      /\ TrueBytes(port) => TrueBytes(p)
  BY <1>1, <1>3, <1>4, <1>6, Unread, Follows DEF Wire
<1>8. PICK sm : sm = IF p.osr = Nothing THEN "in" ELSE "out"
  OBVIOUS
<1>9. port' = [p EXCEPT !.sm = sm]
  BY <1>6, <1>8 DEF ByteOut
<1>10. /\ Filled(port') /\ port'.sm = sm /\ port'.dma = p.dma
       /\ \A k, n : Coming(p, k, n) => Coming(port', k, n)
       /\ TrueBytes(p) => TrueBytes(port')
  BY <1>7, <1>8, <1>9, Switches
<1>11. heard' = Append(heard, port.osr)
  BY DEF ByteOut
<1>12. /\ heard' \in Seq(Byte) /\ Len(heard') = h + 1
       /\ \A i \in 1 .. h : heard'[i] = heard[i]
       /\ heard'[h + 1] = port.osr
  BY <1>2, <1>3, <1>5, <1>11, AppendProperties
<1>13. \A i \in 1 .. h + 1 : heard'[i].kind = asked.kind /\ heard'[i].byte = i
  <2>1. \A i \in 1 .. h : heard[i].kind = asked.kind /\ heard[i].byte = i
    BY <1>1, <1>2 DEF OnItsWay
  <2>2. \A i \in 1 .. h + 1 : i \in 1 .. h \/ i = h + 1
    BY <1>3
  <2>3. QED
    BY <1>5, <1>12, <2>1, <2>2
<1>14. h + 1 <= 10
  BY <1>5 DEF Byte
<1>15. QED
  BY <1>1, <1>2, <1>5, <1>7, <1>8, <1>10, <1>11, <1>12, <1>13, <1>14

\* The update writes one byte, laid out for its mode.
LEMMA OutWritten ==
  ASSUME Typed, NEW i \in 1 .. 8, NEW m, out' = [out EXCEPT ![i] = Layout(m)[i]]
  PROVE  /\ OutTyped'
         /\ out'[i] = Layout(m)[i] /\ \A j \in (1 .. 8) \ {i} : out'[j] = out[j]
<1>1. Layout(m)[i] \in Controls /\ Layout(m)[i] \in {Layout(k)[i] : k \in 0 .. 4}
  BY Layouts
<1>2. out \in [1 .. 8 -> Controls]
  BY DEF Typed, OutTyped, OutOK
<1>3. out' \in [1 .. 8 -> Controls]
      /\ out'[i] = Layout(m)[i] /\ \A j \in (1 .. 8) \ {i} : out'[j] = out[j]
  BY <1>1, <1>2
<1>4. ASSUME NEW j \in 1 .. 8 PROVE out'[j] \in {Layout(k)[j] : k \in 0 .. 4}
  <2>1. CASE j = i
    BY <1>1, <1>3, <2>1
  <2>2. CASE j # i
    BY <1>3, <2>2 DEF Typed, OutTyped
  <2>3. QED
    BY <2>1, <2>2
<1>5. QED
  BY <1>3, <1>4 DEF OutTyped, OutOK

\* A restart leaves nothing of the answer it cut off.
LEMMA RestartEmpties ==
  ASSUME Typed, Wire, Restart
  PROVE  Filled(port') /\ port'.sm = "in" /\ port'.dma.left = 0
<1>1. port.dma.left <= 8
  BY DEF Wire, Filled, Fits, Port, Channel
<1>2. QED
  BY <1>1, Unread, SetsUp DEF Restart, Wire

\* An answer that is begun comes whole.
LEMMA RespondSends ==
  ASSUME Typed, Wire, NEW kind \in Kinds, Respond(kind)
  PROVE  /\ Filled(port') /\ port'.sm = "out" /\ port'.dma.left <= 5
         /\ loop = "init" => port'.dma.left = 0
         /\ Coming(port', kind, 0) /\ TrueBytes(port')
<1>1. port.dma.left = 0 /\ Filled(port) /\ (loop = "init" => kind = "probe")
  BY DEF Respond, Listening, Wire
<1>2. PICK s : s = joybus_set_in(FALSE, port)
  OBVIOUS
<1>3. Filled(s) /\ s.sm = "out" /\ s.dma.left = 0 /\ s.osr = Nothing
  <2>1. port.dma.left <= 8 /\ OutOK
    BY <1>1, Unread
  <2>2. Filled(s) /\ s.sm = (IF FALSE THEN "in" ELSE "out") /\ s.dma.left = 0
        /\ (port.dma.left = 0 => s.osr = Nothing)
    BY <1>1, <1>2, <2>1, SetsUp
  <2>3. QED
    BY <1>1, <2>2
<1>4. PICK q : q = _gamecube_send(kind, s)
  OBVIOUS
<1>5. Filled(q) /\ q.sm = "out" /\ Coming(q, kind, 0) /\ TrueBytes(q)
  BY <1>3, <1>4, Unread, Sends
<1>6. q = port'
  BY <1>2, <1>4 DEF Respond
<1>7. PICK l, left, size : l = Len(q.fifo) /\ left = q.dma.left /\ size = Length[kind]
  OBVIOUS
<1>8. size <= 10 /\ size \in Nat /\ (kind = "probe" => size = 3)
  BY <1>7, Lengths DEF Kinds
<1>9. left \in 0 .. 10 /\ (left > 0 => l = 4)
  BY <1>5, <1>7 DEF Filled, Fits, Port, Channel, TxFifoDepth
<1>10. l \in Nat
  BY <1>5, <1>7 DEF Filled, Fits, Port
<1>11. 0 + 1 + l + left = size
  BY <1>5, <1>7 DEF Coming
<1>12. left <= 5 /\ (kind = "probe" => left = 0)
  BY <1>8, <1>9, <1>10, <1>11
<1>13. QED
  BY <1>1, <1>5, <1>6, <1>7, <1>12

\* A connection leaves at most four bytes in the channel ...
LEMMA ConnectEmpties ==
  ASSUME Typed, Wire, Connect
  PROVE  /\ Filled(port') /\ port'.dma.left <= 4
         /\ port'.sm = "in" => port'.dma.left = 0
<1>1. /\ Filled(port') /\ port'.sm = port.sm
      /\ port'.dma.left = IF port.dma.left > 4 THEN port.dma.left - 4 ELSE 0
  BY Unread, Clears DEF Connect, Wire
<1>2. port.dma.left \in 0 .. 10
  BY DEF Wire, Filled, Fits, Port, Channel
<1>3. QED
  BY <1>1, <1>2 DEF Wire

\* ... and the start of the program, those neither.
LEMMA ProgramInitEmpties ==
  ASSUME Typed, Wire, ProgramInit
  PROVE  Filled(port') /\ port'.sm = "in" /\ port'.dma.left = 0
<1>1. PICK c : c = pio_sm_clear_fifos(port)
  OBVIOUS
<1>2. Filled(c) /\ c.dma.left = (IF port.dma.left > 4 THEN port.dma.left - 4 ELSE 0)
  BY <1>1, Unread, Clears DEF Wire
<1>3. port.dma.left \in 0 .. 10 /\ port.dma.left <= 4
  BY DEF ProgramInit, Wire, Filled, Fits, Port, Channel
<1>4. c.dma.left = 0 /\ c \in Port
  BY <1>2, <1>3 DEF Filled, Fits
<1>5. PICK e : e = [c EXCEPT !.osr = Nothing, !.sm = "in"]
  OBVIOUS
<1>6. e \in Port /\ e.sm = "in" /\ e.fifo = c.fifo /\ e.dma = c.dma
  BY <1>4, <1>5 DEF Port
<1>7. Filled(e)
  BY <1>2, <1>6 DEF Filled, Fits
<1>8. port' = Pulled(e)
  BY <1>1, <1>5 DEF ProgramInit
<1>9. Filled(port') /\ port'.sm = "in" /\ port'.dma.left <= e.dma.left
  BY <1>6, <1>7, <1>8, Unread, Pulls
<1>10. port'.dma.left \in 0 .. 10
  BY <1>9 DEF Filled, Fits, Port, Channel
<1>11. QED
  BY <1>4, <1>6, <1>9, <1>10

Right == Typed /\ Wire /\ Whole

\* The induction for Right.
LEMMA RightInit == Init => Right
<1> SUFFICES ASSUME Init PROVE Right
  OBVIOUS
<1>1. Layout(3) = Mode3
  BY DEF Layout
<1>2. OutTyped
  BY <1>1, Layouts DEF Init, OutOK, OutTyped
<1>3. <<>> \in Seq(Byte) /\ Len(<<>>) = 0
  OBVIOUS
<1>4. Typed
  <2>1. HeardTyped
    BY <1>3 DEF Init, HeardTyped
  <2>2. QED
    <3>1. update \in [next : 0 .. 8, mode : PollModes \cup {0}] /\ mode \in PollModes \cup {0}
      BY DEF Init, Idle
    <3>2. asked \in [kind : Kinds \cup {None}, settled : BOOLEAN]
      BY DEF Init
    <3>3. polled \in BOOLEAN /\ got_data \in BOOLEAN /\ settled \in BOOLEAN /\ loop = "messages"
      BY DEF Init
    <3>4. QED
      BY <1>2, <2>1, <3>1, <3>2, <3>3 DEF Typed
<1>5. port = [sm |-> "in", osr |-> Nothing, fifo |-> <<>>,
              dma |-> [kind |-> "probe", next |-> 1, left |-> 0]]
  BY DEF Init
<1>6. port.dma \in Channel /\ port.dma.left = 0 /\ port.sm = "in" /\ port.fifo = <<>>
  BY <1>5 DEF Channel, Kinds
<1>7. port \in Port
  BY <1>3, <1>5, <1>6 DEF Port
<1>8. Wire
  BY <1>3, <1>6, <1>7 DEF Wire, Filled, Fits, Stops, TxFifoDepth
<1>9. Whole
  BY <1>6 DEF Whole
<1>10. QED
  BY <1>4, <1>8, <1>9 DEF Right

\* Steps that leave the port and what was heard alone.
LEMMA PortAlone ==
  ASSUME Wire, Whole, UNCHANGED <<port, asked, heard>>, loop' = "init" <=> loop = "init"
  PROVE  Wire' /\ Whole'
<1>1. Wire'
  BY DEF Wire
<1>2. OnItsWay => OnItsWay'
  BY DEF OnItsWay
<1>3. QED
  BY <1>1, <1>2 DEF Whole

LEMMA RightStep == Right /\ [Next]_vars => Right'
<1> SUFFICES ASSUME Right, [Next]_vars PROVE Right'
  OBVIOUS
<1>1. Typed /\ Wire /\ Whole
  BY DEF Right
<1>2. CASE Check \/ Forget \/ MessageInput
  <2>1. Typed'
    <3>1. CASE Check
      BY <1>1, <3>1, Unread DEF Typed, Check
    <3>2. CASE Forget
      BY <1>1, <3>2, Unread DEF Typed, Forget
    <3>3. CASE MessageInput
      <4>1. update' = [next |-> 1, mode |-> 0] /\ loop' = "update"
            /\ UNCHANGED <<out, mode, polled, got_data, asked, heard, settled>>
        BY <3>3 DEF MessageInput
      <4>2. update' \in [next : 0 .. 8, mode : PollModes \cup {0}]
        BY <4>1
      <4>3. QED
        BY <1>1, <4>1, <4>2, Unread DEF Typed
    <3>4. QED
      BY <1>2, <3>1, <3>2, <3>3
  <2>2. UNCHANGED <<port, asked, heard>> /\ (loop' = "init" <=> loop = "init")
    BY <1>2 DEF Check, Forget, MessageInput
  <2>3. QED
    BY <1>1, <2>1, <2>2, PortAlone DEF Right
<1>3. CASE WriteButtons \/ WriteAxes
  <2>1. PICK i, m : /\ i \in 1 .. 8 /\ update.next = i
                    /\ out' = [out EXCEPT ![i] = Layout(m)[i]]
    <3>1. CASE WriteButtons
      <4>1. update.next \in {1, 2} /\ out' = [out EXCEPT ![update.next] = "buttons"]
        BY <3>1 DEF WriteButtons
      <4>2. Layout(0)[update.next] = "buttons" /\ update.next \in 1 .. 8
        BY <4>1, Layouts
      <4>3. QED
        BY <4>1, <4>2
    <3>2. CASE WriteAxes
      <4>1. update.next \in 1 .. 8
            /\ out' = [out EXCEPT ![update.next] = Layout(update.mode)[update.next]]
        BY <3>2 DEF WriteAxes, AxisByte
      <4>2. QED
        BY <4>1
    <3>3. QED
      BY <1>3, <3>1, <3>2
  <2>2. OutTyped'
    BY <1>1, <2>1, OutWritten
  <2>3. update' \in [next : 0 .. 8, mode : PollModes \cup {0}] /\ settled' \in BOOLEAN
    <3>1. update \in [next : 0 .. 8, mode : PollModes \cup {0}] /\ mode \in PollModes \cup {0}
          /\ settled \in BOOLEAN
      BY <1>1 DEF Typed
    <3>2. CASE WriteButtons
      BY <3>1, <3>2 DEF WriteButtons
    <3>3. CASE WriteAxes
      <4>1. CASE update.next < 8
        <5>1. update' = [update EXCEPT !.next = @ + 1] /\ settled' = settled
          BY <3>3, <4>1 DEF WriteAxes
        <5>2. update.next + 1 \in 0 .. 8
          BY <3>1, <4>1
        <5>3. QED
          BY <3>1, <5>1, <5>2
      <4>2. CASE ~(update.next < 8)
        BY <3>1, <3>3, <4>2 DEF WriteAxes, Idle
      <4>3. QED
        BY <4>1, <4>2
    <3>4. QED
      BY <1>3, <3>2, <3>3
  <2>4. UNCHANGED <<mode, polled, got_data, port, asked, heard>> /\ loop' \in {loop, "messages"}
        /\ loop = "update"
    BY <1>3 DEF WriteButtons, WriteAxes
  <2>5. Typed'
    BY <1>1, <2>2, <2>3, <2>4, Unread DEF Typed
  <2>6. QED
    BY <1>1, <2>4, <2>5, PortAlone DEF Right
<1>4. CASE PollMode
  <2>1. Typed'
    BY <1>1, <1>4, Unread DEF Typed, PollMode
  <2>2. QED
    BY <1>1, <1>4, <2>1, PortAlone DEF PollMode, Right
<1>5. CASE SatOut \/ Reset
  <2>1. Filled(port') /\ port'.sm = "in" /\ port'.dma.left = 0
    BY <1>1, <1>5, RestartEmpties DEF SatOut, Reset
  <2>2. Typed'
    BY <1>1, <1>5, Unread DEF Typed, SatOut, Reset
  <2>3. Wire' /\ Whole'
    BY <2>1 DEF Wire, Whole
  <2>4. QED
    BY <2>2, <2>3 DEF Right
<1>6. ASSUME NEW kind \in DOMAIN Length, Respond(kind) PROVE Right'
  <2>1. kind \in Kinds
    BY <1>6, Lengths
  <2>2. /\ Filled(port') /\ port'.sm = "out" /\ port'.dma.left <= 5
        /\ loop = "init" => port'.dma.left = 0
        /\ Coming(port', kind, 0)
    BY <1>1, <1>6, <2>1, RespondSends
  <2>3. <<>> \in Seq(Byte) /\ Len(<<>>) = 0
    OBVIOUS
  <2>4. Typed'
    <3>1. HeardTyped'
      BY <1>6, <2>3 DEF Respond, HeardTyped
    <3>2. QED
      BY <1>1, <1>6, <2>1, <3>1, Unread DEF Typed, Respond
  <2>5. Wire'
    <3>1. loop' = loop /\ (loop = "init" => port'.dma.left = 0)
      BY <1>6, <2>2 DEF Respond
    <3>2. QED
      BY <2>2, <3>1 DEF Wire
  <2>6. heard' = <<>> /\ asked'.kind = kind
    BY <1>6 DEF Respond
  <2>7. OnItsWay'
    BY <2>1, <2>2, <2>3, <2>6 DEF OnItsWay
  <2>8. QED
    BY <2>4, <2>5, <2>7 DEF Right, Whole
<1>7. CASE Connect
  <2>1. Typed'
    BY <1>1, <1>7, Unread DEF Typed, Connect
  <2>2. Filled(port') /\ port'.dma.left <= 4 /\ (port'.sm = "in" => port'.dma.left = 0)
    BY <1>1, <1>7, ConnectEmpties
  <2>3. port'.dma.left <= 5
    BY <2>2 DEF Filled, Fits, Port, Channel
  <2>4. loop' = "init"
    BY <1>7 DEF Connect
  <2>5. QED
    BY <2>1, <2>2, <2>3, <2>4 DEF Right, Wire, Whole
<1>8. CASE ProgramInit
  <2>1. Typed'
    BY <1>1, <1>8, Unread DEF Typed, ProgramInit
  <2>2. Filled(port') /\ port'.sm = "in" /\ port'.dma.left = 0
    BY <1>1, <1>8, ProgramInitEmpties
  <2>3. QED
    BY <2>1, <2>2 DEF Right, Wire, Whole
<1>9. CASE ByteOut
  <2>1. /\ OnItsWay
        /\ heard' \in Seq(Byte) /\ Len(heard') <= 10
        /\ \A i \in 1 .. Len(heard') : heard'[i].kind = asked.kind /\ heard'[i].byte = i
        /\ Filled(port') /\ port'.dma.left <= port.dma.left
        /\ port'.sm = "in" => port'.dma.left = 0
        /\ port'.sm = "out" => Coming(port', asked.kind, Len(heard'))
    BY <1>1, <1>9, ByteOutGivesNext
  <2>2. UNCHANGED <<out, update, mode, polled, got_data, loop, asked, settled>> /\ loop # "init"
    BY <1>9 DEF ByteOut
  <2>3. Typed'
    <3>1. HeardTyped'
      BY <2>1 DEF HeardTyped
    <3>2. QED
      BY <1>1, <2>2, <3>1, Unread DEF Typed
  <2>4. port'.dma.left \in 0 .. 10 /\ port.dma.left \in 0 .. 10
    BY <1>1, <2>1 DEF Wire, Filled, Fits, Port, Channel
  <2>5. port.dma.left <= 5
    BY <1>1 DEF Wire
  <2>6. Wire'
    BY <2>1, <2>2, <2>4, <2>5 DEF Wire
  <2>7. Whole'
    BY <2>1, <2>2 DEF Whole, OnItsWay
  <2>8. QED
    BY <2>3, <2>6, <2>7 DEF Right
<1>10. CASE UNCHANGED vars
  <2>1. Typed'
    BY <1>1, <1>10, Unread DEF Typed, vars
  <2>2. QED
    BY <1>1, <1>10, <2>1, PortAlone DEF vars, Right
<1>11. QED
  BY <1>2, <1>3, <1>4, <1>5, <1>6, <1>7, <1>8, <1>9, <1>10 DEF Next, MainLoop

LEMMA StaysRight == Spec => []Right
  BY RightInit, RightStep, PTL DEF Spec

\* The port, the main loop and the histories keep their types.
THEOREM TypeCorrect == Spec => []TypeOK
<1>1. Right => TypeOK
  <2> SUFFICES ASSUME Right PROVE TypeOK
    OBVIOUS
  <2>1. port.sm \in {"in", "out"} /\ Len(port.fifo) <= TxFifoDepth
    BY DEF Right, Wire, Filled, Fits, Port
  <2>2. port.dma.left \in 0 .. 10 /\ port.dma.left <= 5
    BY DEF Right, Wire, Filled, Fits, Port, Channel
  <2>3. port.dma.left \in 0 .. 9
    BY <2>2
  <2>4. QED
    BY <2>1, <2>3, Lengths DEF Right, Typed, OutTyped, HeardTyped, TypeOK
<1>2. QED
  BY <1>1, StaysRight, PTL

\* An answer ends only when its last byte is out.
LEMMA OverIsByteOut == Next /\ Over => ByteOut
<1>1. ASSUME NEW kind \in DOMAIN Length, Respond(kind), Over PROVE FALSE
  BY <1>1 DEF Respond, Listening, Over
<1>2. QED
  BY <1>1 DEF Next, MainLoop, Over, PollMode, SatOut, Check, Reset, Forget, Connect,
              ProgramInit, MessageInput, WriteButtons, WriteAxes

\* An answer that comes to its end is the answer asked for, whole, whatever was
\* cut off before it.
THEOREM WholeAnswers == Spec => AnswersAreWhole
<1>1. Right /\ [Next]_vars =>
        [Over => /\ Len(heard') = Length[asked.kind]
                 /\ \A i \in DOMAIN heard' : heard'[i].kind = asked.kind /\ heard'[i].byte = i]_vars
  <2> SUFFICES ASSUME Right, Next, Over
               PROVE  /\ Len(heard') = Length[asked.kind]
                      /\ \A i \in DOMAIN heard' : heard'[i].kind = asked.kind /\ heard'[i].byte = i
    OBVIOUS
  <2>1. ByteOut
    BY OverIsByteOut
  <2>2. /\ heard' \in Seq(Byte)
        /\ \A i \in 1 .. Len(heard') : heard'[i].kind = asked.kind /\ heard'[i].byte = i
        /\ port'.sm = "in" => Len(heard') = Length[asked.kind]
    BY <2>1, ByteOutGivesNext DEF Right
  <2>3. DOMAIN heard' = 1 .. Len(heard')
    BY <2>2
  <2>4. QED
    BY <2>2, <2>3 DEF Over
<1>2. QED
  BY <1>1, StaysRight, PTL DEF Spec, AnswersAreWhole
-----------------------------------------------------------------------------
\* How far an update has come.
Written ==
  /\ loop # "update" => update.next = 0
  /\ out[1] = "buttons" /\ out[2] = "buttons"
  /\ \A i \in 3 .. 8 : i < update.next => out[i] = Layout(update.mode)[i]

\* Once settled, the buffer has the layout of the mode, and an update in progress
\* writes what is there already.
SettledOut ==
  settled => /\ out = Layout(mode)
             /\ update.next >= 3 => Layout(update.mode) = Layout(mode)

\* So the bytes of an answer that began settled hold what they should, those in
\* the FIFO as those that were heard.
AsPromised ==
  port.sm = "out" /\ loop # "init" /\ asked.settled =>
    settled /\ TrueBytes(port) /\ \A i \in 1 .. Len(heard) : TrueByte(heard[i])

Settles == Written /\ SettledOut /\ AsPromised

\* The induction for Settles.
LEMMA SettlesInit == Init => Settles
<1> SUFFICES ASSUME Init PROVE Settles
  OBVIOUS
<1>1. Layout(3) = Mode3
  BY DEF Layout
<1>2. out[1] = "buttons" /\ out[2] = "buttons" /\ update.next = 0 /\ ~settled /\ port.sm = "in"
  BY <1>1, Layouts DEF Init, Idle
<1>3. QED
  BY <1>2 DEF Settles, Written, SettledOut, AsPromised

\* Writing a byte of the layout that is there changes nothing.
LEMMA SameOut ==
  ASSUME Typed, NEW i \in 1 .. 8, NEW m, out = Layout(m), out' = [out EXCEPT ![i] = Layout(m)[i]]
  PROVE  out' = out
<1>1. out \in [1 .. 8 -> Controls]
  BY DEF Typed, OutTyped, OutOK
<1>2. QED
  BY <1>1

\* Steps that change nothing of what the promise is about.
LEMMA PromiseKept ==
  ASSUME AsPromised, UNCHANGED <<port, asked, heard>>, loop' = "init" <=> loop = "init",
         settled => settled' /\ out' = out
  PROVE  AsPromised'
<1>1. TrueBytes(port) /\ out' = out => TrueBytes(port)'
  BY DEF TrueBytes, TrueByte
<1>2. (\A i \in 1 .. Len(heard) : TrueByte(heard[i])) /\ out' = out
        => (\A i \in 1 .. Len(heard) : TrueByte(heard[i]))'
  BY DEF TrueByte
<1>3. QED
  BY <1>1, <1>2 DEF AsPromised

\* The update keeps Settles: buttons have their place in every layout ...
LEMMA SettlesWriteButtons == Right /\ Settles /\ WriteButtons => Settles'
<1> SUFFICES ASSUME Right, Settles, WriteButtons PROVE Settles'
  OBVIOUS
<1>1. Typed /\ Wire /\ Whole /\ Written /\ SettledOut /\ AsPromised
  BY DEF Right, Settles
<1>2. PICK i : i = update.next
  OBVIOUS
<1>3. /\ i \in {1, 2} /\ out' = [out EXCEPT ![i] = Layout(mode)[i]]
      /\ update' = [next |-> i + 1, mode |-> IF i = 2 THEN mode ELSE 0]
      /\ loop = "update"
      /\ UNCHANGED <<mode, polled, got_data, loop, port, asked, heard, settled>>
  BY <1>2, Layouts DEF WriteButtons
<1>4. i \in 1 .. 8
  BY <1>3
<1>5. out'[1] = "buttons" /\ out'[2] = "buttons"
  BY <1>1, <1>3, <1>4, OutWritten, Layouts DEF Written
<1>6. update'.next = i + 1 /\ (i = 2 => update'.mode = mode)
  BY <1>3
<1>7. Written'
  <2>1. ~(\E j \in 3 .. 8 : j < i + 1)
    BY <1>3
  <2>2. QED
    BY <1>3, <1>5, <1>6, <2>1 DEF Written
<1>8. ASSUME settled PROVE out' = out
  BY <1>1, <1>3, <1>4, <1>8, SameOut DEF SettledOut
<1>9. SettledOut'
  <2>1. update'.next >= 3 => i = 2
    BY <1>3, <1>6
  <2>2. QED
    BY <1>1, <1>3, <1>6, <1>8, <2>1 DEF SettledOut
<1>10. AsPromised'
  BY <1>1, <1>3, <1>8, PromiseKept
<1>11. QED
  BY <1>7, <1>9, <1>10 DEF Settles

\* ... and the axes are written for the mode the update has read.
LEMMA SettlesWriteAxes == Right /\ Settles /\ WriteAxes => Settles'
<1> SUFFICES ASSUME Right, Settles, WriteAxes PROVE Settles'
  OBVIOUS
<1>1. Typed /\ Wire /\ Whole /\ Written /\ SettledOut /\ AsPromised
  BY DEF Right, Settles
<1>2. PICK i, um : i = update.next /\ um = update.mode
  OBVIOUS
<1>3. /\ i \in 3 .. 8 /\ out' = [out EXCEPT ![i] = Layout(um)[i]]
      /\ loop = "update"
      /\ UNCHANGED <<mode, polled, got_data, port, asked, heard>>
  BY <1>2 DEF WriteAxes, AxisByte
<1>4. i \in 1 .. 8
  BY <1>3
<1>5. OutTyped' /\ out'[i] = Layout(um)[i] /\ \A j \in (1 .. 8) \ {i} : out'[j] = out[j]
  BY <1>1, <1>3, <1>4, OutWritten
<1>6. out'[1] = "buttons" /\ out'[2] = "buttons"
  BY <1>1, <1>3, <1>5 DEF Written
<1>7. \A j \in 3 .. 8 : j < i + 1 => out'[j] = Layout(um)[j]
  <2> SUFFICES ASSUME NEW j \in 3 .. 8, j < i + 1 PROVE out'[j] = Layout(um)[j]
    OBVIOUS
  <2>1. CASE j = i
    BY <1>5, <2>1
  <2>2. CASE j # i
    <3>1. j < i /\ j \in (1 .. 8) \ {i}
      BY <1>3, <2>2
    <3>2. QED
      BY <1>1, <1>2, <1>5, <3>1 DEF Written
  <2>3. QED
    BY <2>1, <2>2
<1>8. ASSUME settled PROVE out' = out /\ Layout(um) = Layout(mode)
  <2>1. out = Layout(mode) /\ Layout(um) = Layout(mode)
    BY <1>1, <1>2, <1>3, <1>8 DEF SettledOut
  <2>2. QED
    BY <1>1, <1>3, <1>4, <2>1, SameOut
<1>9. CASE i < 8
  <2>1. update' = [update EXCEPT !.next = @ + 1] /\ UNCHANGED <<loop, settled>>
    BY <1>2, <1>9 DEF WriteAxes
  <2>2. update'.next = i + 1 /\ update'.mode = um
    BY <1>1, <1>2, <2>1 DEF Typed
  <2>3. Written'
    BY <1>3, <1>6, <1>7, <2>1, <2>2 DEF Written
  <2>4. SettledOut'
    BY <1>1, <1>3, <1>8, <2>1, <2>2 DEF SettledOut
  <2>5. AsPromised'
    BY <1>1, <1>3, <1>8, <2>1, PromiseKept
  <2>6. QED
    BY <2>3, <2>4, <2>5 DEF Settles
<1>10. CASE i = 8
  <2>1. update' = Idle /\ loop' = "messages" /\ settled' = (Layout(um) = Layout(mode))
    <3>1. ~(update.next < 8)
      BY <1>2, <1>10
    <3>2. QED
      BY <1>2, <3>1 DEF WriteAxes
  <2>2. update'.next = 0
    BY <2>1 DEF Idle
  <2>3. Written'
    <3>1. ~(\E j \in 3 .. 8 : j < 0)
      OBVIOUS
    <3>2. QED
      BY <1>6, <2>2, <3>1 DEF Written
  <2>4. out' = Layout(um)
    <3>1. \A j \in 1 .. 8 : out'[j] = Layout(um)[j]
      <4>1. \A j \in 1 .. 8 : j = 1 \/ j = 2 \/ (j \in 3 .. 8 /\ j < i + 1)
        BY <1>10
      <4>2. QED
        BY <1>6, <1>7, <4>1, Layouts
    <3>2. out' \in [1 .. 8 -> Controls] /\ Layout(um) \in [1 .. 8 -> Controls]
      BY <1>5, Layouts DEF OutTyped, OutOK
    <3>3. QED
      BY <3>1, <3>2
  <2>5. SettledOut'
    <3>1. settled' => Layout(um) = Layout(mode)
      BY <2>1
    <3>2. ~(update'.next >= 3)
      BY <2>2
    <3>3. QED
      BY <1>3, <2>4, <3>1, <3>2 DEF SettledOut
  <2>6. AsPromised'
    BY <1>1, <1>3, <1>8, <2>1, PromiseKept
  <2>7. QED
    BY <2>3, <2>5, <2>6 DEF Settles
<1>11. QED
  BY <1>3, <1>9, <1>10

LEMMA SettlesStep == Right /\ Settles /\ [Next]_vars => Settles'
<1> SUFFICES ASSUME Right, Settles, [Next]_vars PROVE Settles'
  OBVIOUS
<1>1. Typed /\ Wire /\ Whole /\ Written /\ SettledOut /\ AsPromised
  BY DEF Right, Settles
<1>2. CASE Check \/ Forget \/ UNCHANGED vars
  <2>1. UNCHANGED <<out, update, mode, settled, port, asked, heard>>
        /\ (loop' = "init" <=> loop = "init") /\ (loop' = "update" <=> loop = "update")
    BY <1>2 DEF Check, Forget, vars
  <2>2. Written' /\ SettledOut'
    BY <1>1, <2>1 DEF Written, SettledOut
  <2>3. QED
    BY <1>1, <2>1, <2>2, PromiseKept DEF Settles
<1>3. CASE MessageInput
  <2>1. /\ update' = [next |-> 1, mode |-> 0] /\ loop' = "update" /\ loop = "messages"
        /\ UNCHANGED <<out, mode, settled, port, asked, heard>>
    BY <1>3 DEF MessageInput
  <2>2. update'.next = 1 /\ ~(\E j \in 3 .. 8 : j < 1) /\ ~(1 >= 3)
    BY <2>1
  <2>3. Written' /\ SettledOut'
    BY <1>1, <2>1, <2>2 DEF Written, SettledOut
  <2>4. QED
    BY <1>1, <2>1, <2>3, PromiseKept DEF Settles
<1>4. CASE PollMode
  <2>1. /\ port.sm = "in" /\ port' = port
        /\ UNCHANGED <<out, update, loop>>
        /\ settled' = (settled /\ Layout(mode') = Layout(mode))
    BY <1>4 DEF PollMode, Listening
  <2>2. QED
    BY <1>1, <2>1 DEF Settles, Written, SettledOut, AsPromised
<1>5. CASE SatOut \/ Reset \/ ProgramInit
  <2>1. port'.sm = "in"
    BY <1>1, <1>5, RestartEmpties, ProgramInitEmpties DEF SatOut, Reset
  <2>2. UNCHANGED <<out, update, mode, settled>> /\ (loop' = "update" <=> loop = "update")
    BY <1>5 DEF SatOut, Reset, ProgramInit
  <2>3. QED
    BY <1>1, <2>1, <2>2 DEF Settles, Written, SettledOut, AsPromised
<1>6. CASE Connect
  BY <1>1, <1>6 DEF Connect, Settles, Written, SettledOut, AsPromised
<1>7. ASSUME NEW kind \in DOMAIN Length, Respond(kind) PROVE Settles'
  <2>1. TrueBytes(port')
    BY <1>1, <1>7, Lengths, RespondSends
  <2>2. /\ UNCHANGED <<out, update, mode, loop, settled>>
        /\ heard' = <<>> /\ asked'.settled = settled
    BY <1>7 DEF Respond
  <2>3. TrueBytes(port)'
    BY <2>1, <2>2 DEF TrueBytes, TrueByte
  <2>4. (\A i \in 1 .. Len(heard) : TrueByte(heard[i]))'
    <3>1. Len(<<>>) = 0
      OBVIOUS
    <3>2. Len(heard') = 0
      BY <2>2, <3>1
    <3>3. QED
      BY <3>2
  <2>5. QED
    BY <1>1, <2>2, <2>3, <2>4 DEF Settles, Written, SettledOut, AsPromised
<1>8. CASE ByteOut
  <2>1. /\ port.osr \in Byte
        /\ Len(heard') = Len(heard) + 1
        /\ \A i \in 1 .. Len(heard) : heard'[i] = heard[i]
        /\ heard'[Len(heard) + 1] = port.osr
        /\ TrueBytes(port) => TrueBytes(port')
    BY <1>1, <1>8, ByteOutGivesNext
  <2>2. UNCHANGED <<out, update, mode, loop, asked, settled>> /\ port.sm = "out" /\ loop # "init"
    BY <1>8 DEF ByteOut
  <2>3. ASSUME asked.settled
        PROVE  settled /\ TrueBytes(port)' /\ (\A i \in 1 .. Len(heard) : TrueByte(heard[i]))'
    <3>1. settled /\ TrueBytes(port) /\ \A i \in 1 .. Len(heard) : TrueByte(heard[i])
      BY <1>1, <2>2, <2>3 DEF AsPromised
    <3>2. TrueBytes(port)'
      BY <2>1, <2>2, <3>1 DEF TrueBytes, TrueByte
    <3>3. TrueByte(port.osr)
      BY <2>1, <3>1, BytesAreSomething DEF TrueBytes
    <3>4. PICK n : n = Len(heard)
      OBVIOUS
    <3>5. n \in Nat
      BY <1>1, <3>4 DEF Typed, HeardTyped
    <3>6. \A i \in 1 .. n + 1 : i \in 1 .. n \/ i = n + 1
      BY <3>5
    <3>7. \A i \in 1 .. n + 1 : TrueByte(heard'[i])
      BY <2>1, <3>1, <3>3, <3>4, <3>6
    <3>8. \A i \in 1 .. Len(heard') : TrueByte(heard'[i])
      BY <2>1, <3>4, <3>7
    <3>9. (\A i \in 1 .. Len(heard) : TrueByte(heard[i]))'
      BY <2>2, <3>8 DEF TrueByte
    <3>10. QED
      BY <3>1, <3>2, <3>9
  <2>4. QED
    BY <1>1, <2>2, <2>3 DEF Settles, Written, SettledOut, AsPromised
<1>9. QED
  BY <1>2, <1>3, <1>4, <1>5, <1>6, <1>7, <1>8, SettlesWriteButtons, SettlesWriteAxes
  DEF Next, MainLoop

\* Once an update that saw the mode is complete, a poll in it is answered in it,
\* updates in the middle of the answer included.
THEOREM SettledAnswers == Spec => SettledModeAnswered
<1>1. Right /\ Settles /\ [Next]_vars =>
        [Over /\ asked.kind = "poll" /\ asked.settled =>
           [i \in 1 .. 8 |-> heard'[i].holds] = Layout(mode)]_vars
  <2> SUFFICES ASSUME Right, Settles, Next, Over, asked.kind = "poll", asked.settled
               PROVE  [i \in 1 .. 8 |-> heard'[i].holds] = Layout(mode)
    OBVIOUS
  <2>1. ByteOut
    BY OverIsByteOut
  <2>2. port.sm = "out" /\ loop # "init" /\ out' = out
    BY <2>1 DEF ByteOut
  <2>3. /\ port.osr \in Byte
        /\ Len(heard') = Len(heard) + 1
        /\ \A i \in 1 .. Len(heard) : heard'[i] = heard[i]
        /\ heard'[Len(heard) + 1] = port.osr
        /\ \A i \in 1 .. Len(heard') : heard'[i].kind = asked.kind /\ heard'[i].byte = i
        /\ port'.sm = "in" => Len(heard') = Length[asked.kind]
    BY <2>1, ByteOutGivesNext DEF Right
  <2>4. settled /\ TrueBytes(port) /\ \A i \in 1 .. Len(heard) : TrueByte(heard[i])
    BY <2>2 DEF Settles, AsPromised
  <2>5. TrueByte(port.osr)
    BY <2>3, <2>4, BytesAreSomething DEF TrueBytes
  <2>6. Len(heard') = 8
    BY <2>3, Lengths DEF Over
  <2>7. PICK n : n = Len(heard)
    OBVIOUS
  <2>8. n \in Nat
    BY <2>7 DEF Right, Typed, HeardTyped
  <2>9. n = 7
    <3>1. n + 1 = 8
      BY <2>3, <2>6, <2>7
    <3>2. QED
      BY <2>8, <3>1
  <2>10. \A i \in 1 .. 8 : i \in 1 .. 7 \/ i = 7 + 1
    OBVIOUS
  <2>11. \A i \in 1 .. 8 : TrueByte(heard'[i]) /\ heard'[i].kind = "poll" /\ heard'[i].byte = i
    BY <2>3, <2>4, <2>5, <2>6, <2>7, <2>9, <2>10
  <2>12. \A i \in 1 .. 8 : heard'[i].holds = out[i]
    BY <2>11 DEF TrueByte
  <2>13. out = Layout(mode)
    BY <2>4 DEF Settles, SettledOut
  <2>14. out \in [1 .. 8 -> Controls]
    BY DEF Right, Typed, OutTyped, OutOK
  <2>15. QED
    BY <2>12, <2>13, <2>14
<1>2. QED
  BY <1>1, StaysRight, SettlesInit, SettlesStep, PTL DEF Spec, SettledModeAnswered
-----------------------------------------------------------------------------
\* A game reads either half of a trigger.  Whatever the gamepad reports, the two
\* agree: the button is down exactly when the travel is at its end, more than 245
\* of 255 (gamecube.c:415-449).
THEOREM TriggersAgree ==
  ASSUME NEW pedal \in Pedal, NEW button \in BOOLEAN
  PROVE  /\ Analog(pedal, button) \in 0 .. 255
         /\ Digital(pedal, button) <=> Analog(pedal, button) > 245
  BY DEF Pedal, Analog, Digital, _gamecube_analog_trigger_helper, CLAMP_0_255

\* A trigger pushed further never reads as less, but where its pedal takes over
\* from its button (gamecube.c:350-356, 415-427).
THEOREM TriggersGrow ==
  ASSUME NEW pedal \in Pedal, NEW further \in Pedal, pedal <= further,
         NEW button \in BOOLEAN,
         button => _gamecube_analog_trigger_helper(pedal) > 0
  PROVE  Analog(pedal, button) <= Analog(further, button)
  BY DEF Pedal, Analog, _gamecube_analog_trigger_helper, CLAMP_0_255

\* A stick fits its byte without being cut off at either end of its axis, rests
\* where the main loop starts it, and is as far from there in both directions, to
\* within one (gamecube.c:342-348, 390-393).
THEOREM SticksAreCentred ==
  ASSUME NEW axis \in Axis
  PROVE  /\ StickX(0) = 127
         /\ StickX(axis) \in 17 .. 236 /\ StickY(axis) \in 17 .. 237
         /\ StickX(axis) + StickY(axis) \in 253 .. 254
  BY DEF Axis, StickX, StickY, _gamecube_analog_helper, CLAMP_0_255
=============================================================================
