-------------------------- MODULE BootConfigProofs --------------------------
(* Proofs about BootConfig: the types, that app_main gets the lines whole  *)
(* and in order, that an item is stored in time, and that there is room to *)
(* the end.  First the bytes, wherever the reads end; then the lines; then *)
(* which requests have been answered.                                      *)
EXTENDS BootConfig, SequenceTheorems, TLAPS

(* How many requests have been asked, and how many have been taken off.    *)
asked  == IF waiting THEN step ELSE step - 1
popped == asked - Len(mainToUart)

(* How many lines app_main has taken.                                      *)
taken == step - 1 - late

BootTypeOK ==
    /\ TypeOK
    /\ step = N + 2 => ~waiting

(* What has not been sent on are the last of the lines said.               *)
Lined ==
    \E k \in 0..Len(said) :
        /\ Len(Unsent) = 3 * k
        /\ \A i \in 1..k :
            /\ Unsent[3 * i - 2] = said[Len(said) - k + i]
            /\ Unsent[3 * i - 1] = CR
            /\ Unsent[3 * i] = LF

Framed ==
    /\ Len(restore) <= 2
    /\ strings # <<>> => restore = <<>>
    /\ Lined

(* What app_main has taken and what waits for it are the first of them.    *)
InOrder ==
    /\ taken >= 0 /\ taken + Len(uartToMain) <= Len(said)
    /\ \A i \in 1..Len(uartToMain) : uartToMain[i] = said[taken + i]
    /\ ~getConfDown => Len(Unsent) = 3 * (Len(said) - taken - Len(uartToMain))

(* mainToUart holds the newest of what was asked, in order.                *)
Asked ==
    /\ \A i \in 1..Len(mainToUart) : mainToUart[i] = popped + i
    /\ popped >= 0
    /\ mark # "INIT" => mainToUart # <<>>

(* On a line that loses nothing what was taken off has been answered, and  *)
(* so has what waits for an answer.                                        *)
Fresh ==
    ~lost =>
        /\ popped <= fresh \/ popped = GetConfDown
        /\ (mark # "INIT" /\ popped + 1 \in Items) => popped + 1 <= fresh

(* Every answer is among the first lines, but for the surplus.             *)
Placed ==
    ~lost => \A item \in 1..fresh :
        \E j \in 1..Len(said) : j <= item + extra /\ said[j] = item

(* Whatever app_main has taken it has stored.                              *)
Kept == \A j \in 1..taken : said[j] \in Items => said[j] \in config

BootInv ==
    /\ BootTypeOK /\ Framed /\ InOrder /\ Asked /\ Fresh /\ Placed /\ Kept
    /\ StoredInTime

---------------------------------------------------------------------------
(* Bytes                                                                   *)

LEMMA ThreeParts ==
  ASSUME NEW S, NEW a \in Seq(S), NEW b \in Seq(S), NEW c \in Seq(S)
  PROVE  /\ a \o b \o c \in Seq(S)
         /\ Len(a \o b \o c) = Len(a) + Len(b) + Len(c)
         /\ \A i \in 1..Len(a) : (a \o b \o c)[i] = a[i]
         /\ \A i \in 1..Len(b) : (a \o b \o c)[Len(a) + i] = b[i]
         /\ \A i \in 1..Len(c) : (a \o b \o c)[Len(a) + Len(b) + i] = c[i]
<1> DEFINE ab == a \o b
<1>1. /\ ab \in Seq(S) /\ Len(ab) = Len(a) + Len(b)
      /\ \A i \in 1 .. Len(a) + Len(b) : ab[i] = IF i <= Len(a) THEN a[i] ELSE b[i - Len(a)]
  BY ConcatProperties
<1> HIDE DEF ab
<1>a. ab \in Seq(S)
  BY <1>1
<1>2. /\ ab \o c \in Seq(S) /\ Len(ab \o c) = Len(ab) + Len(c)
      /\ \A i \in 1 .. Len(ab) + Len(c) :
            (ab \o c)[i] = IF i <= Len(ab) THEN ab[i] ELSE c[i - Len(ab)]
  BY <1>a, ConcatProperties
<1>3. Len(a) \in Nat /\ Len(b) \in Nat /\ Len(c) \in Nat
  OBVIOUS
<1>4. \A i \in 1..Len(a) : (ab \o c)[i] = a[i]
  BY <1>1, <1>2, <1>3
<1>5. \A i \in 1..Len(b) : (ab \o c)[Len(a) + i] = b[i]
  <2> SUFFICES ASSUME NEW i \in 1..Len(b) PROVE (ab \o c)[Len(a) + i] = b[i]
    OBVIOUS
  <2>1. Len(a) + i \in 1..(Len(a) + Len(b)) /\ Len(a) + i \in 1..(Len(ab) + Len(c))
    BY <1>1, <1>3
  <2>2. (ab \o c)[Len(a) + i] = ab[Len(a) + i]
    BY <1>1, <1>2, <1>3, <2>1
  <2>3. ab[Len(a) + i] = b[(Len(a) + i) - Len(a)]
    BY <1>1, <1>3, <2>1
  <2> QED  BY <1>3, <2>2, <2>3
<1>6. \A i \in 1..Len(c) : (ab \o c)[Len(a) + Len(b) + i] = c[i]
  <2> SUFFICES ASSUME NEW i \in 1..Len(c) PROVE (ab \o c)[Len(a) + Len(b) + i] = c[i]
    OBVIOUS
  <2>1. Len(a) + Len(b) + i \in 1..(Len(ab) + Len(c)) /\ Len(a) + Len(b) + i > Len(ab)
    BY <1>1, <1>3
  <2>2. (ab \o c)[Len(a) + Len(b) + i] = c[(Len(a) + Len(b) + i) - Len(ab)]
    BY <1>2, <2>1
  <2> QED  BY <1>1, <1>3, <2>2
<1> QED  BY <1>1, <1>2, <1>4, <1>5, <1>6 DEF ab

LEMMA UnsentType ==
  ASSUME TypeOK
  PROVE  Unsent \in Seq(Bytes) /\ Len(Unsent) = Len(restore) + Len(strings) + Len(wire)
  BY ThreeParts DEF TypeOK, Unsent

(* The first line of what has not been sent on, if there is anything.      *)
LEMMA FirstLine ==
  ASSUME TypeOK, Lined, Len(Unsent) > 0
  PROVE  /\ Len(Unsent) >= 3 /\ Len(said) >= 1
         /\ Unsent[1] \in Lines /\ Unsent[2] = CR /\ Unsent[3] = LF
         /\ Unsent[1] # CR
<1>1. PICK k \in 0..Len(said) :
        /\ Len(Unsent) = 3 * k
        /\ \A i \in 1..k :
            /\ Unsent[3 * i - 2] = said[Len(said) - k + i]
            /\ Unsent[3 * i - 1] = CR
            /\ Unsent[3 * i] = LF
  BY DEF Lined
<1>2. Len(said) \in Nat /\ k \in Nat
  BY DEF TypeOK
<1>3. k >= 1
  BY <1>1, <1>2
<1>4. /\ Unsent[3 * 1 - 2] = said[Len(said) - k + 1]
      /\ Unsent[3 * 1 - 1] = CR
      /\ Unsent[3 * 1] = LF
  BY <1>1, <1>2, <1>3
<1>5. Len(said) - k + 1 \in 1..Len(said)
  BY <1>1, <1>2, <1>3
<1>6. said[Len(said) - k + 1] \in Lines
  BY <1>5 DEF TypeOK
<1>7. \A l \in Lines : l # CR
  BY BootAssumption DEF Lines, Items, Other, CR
<1> QED  BY <1>1, <1>2, <1>3, <1>4, <1>6, <1>7

(* A complete line ends at the second byte.                                *)
LEMMA CompleteLine ==
  ASSUME TypeOK, Framed, strings # <<>>
  PROVE  /\ Complete(strings) \subseteq {2}
         /\ Len(strings) >= 3 => 2 \in Complete(strings)
         /\ \A p \in Complete(strings) : p < Len(strings)
<1>1. restore = <<>> /\ Len(restore) = 0 /\ Lined
  BY DEF Framed
<1>2. /\ Len(Unsent) = Len(strings) + Len(wire) /\ Len(strings) > 0
      /\ Len(strings) \in Nat /\ Len(wire) \in Nat
  BY <1>1, UnsentType DEF TypeOK
<1>3. \A i \in 1..Len(strings) : Unsent[i] = strings[i]
  <2>1. \A i \in 1..Len(strings) : Unsent[Len(restore) + i] = strings[i]
    BY ThreeParts DEF TypeOK, Unsent
  <2> QED  BY <1>1, <1>2, <2>1
<1>4. /\ Len(Unsent) >= 3 /\ Unsent[1] # CR /\ Unsent[2] = CR /\ Unsent[3] = LF
  BY <1>1, <1>2, FirstLine
<1>5. ASSUME NEW p \in FirstCR(strings) PROVE p = 2
  <2>1. p \in 1..Len(strings) /\ strings[p] = CR /\ \A q \in 1..(p-1) : strings[q] # CR
    BY <1>5 DEF FirstCR
  <2>2. p # 1
    BY <1>2, <1>3, <1>4, <2>1
  <2>3. CASE p > 2
    <3>1. 2 \in 1..(p-1) /\ 2 \in 1..Len(strings)
      BY <1>2, <2>1, <2>3
    <3> QED  BY <1>3, <1>4, <2>1, <3>1
  <2> QED  BY <1>2, <2>1, <2>2, <2>3
<1>6. Complete(strings) \subseteq {2} /\ \A p \in Complete(strings) : p < Len(strings)
  BY <1>5 DEF Complete
<1>7. ASSUME Len(strings) >= 3 PROVE 2 \in Complete(strings)
  <2>1. 1 \in 1..Len(strings) /\ 2 \in 1..Len(strings) /\ 3 \in 1..Len(strings)
    BY <1>2, <1>7
  <2>2. strings[1] # CR /\ strings[2] = CR /\ strings[3] = LF
    BY <1>3, <1>4, <2>1
  <2>3. 2 \in FirstCR(strings)
    BY <2>1, <2>2 DEF FirstCR
  <2> QED  BY <1>2, <1>7, <2>2, <2>3 DEF Complete
<1> QED  BY <1>6, <1>7
---------------------------------------------------------------------------
(* The steps that move bytes                                               *)

(* What the module says is put at the end of what has not been sent on.    *)
LEMMA SaysBytes ==
  ASSUME TypeOK, Lined, NEW line \in Lines, Says(line), UNCHANGED <<restore, strings>>
  PROVE  /\ wire' \in Seq(Bytes) /\ said' \in Seq(Lines)
         /\ Len(said') = Len(said) + 1 /\ said'[Len(said) + 1] = line
         /\ \A j \in 1..Len(said) : said'[j] = said[j]
         /\ Len(Unsent') = Len(Unsent) + 3
         /\ Lined'
<1>1. wire' = wire \o Spelled(line) /\ said' = Append(said, line)
  BY DEF Says
<1>2. /\ said' \in Seq(Lines) /\ Len(said') = Len(said) + 1 /\ said'[Len(said) + 1] = line
      /\ \A j \in 1..Len(said) : said'[j] = said[j]
      /\ Len(said) \in Nat
  BY <1>1 DEF TypeOK
<1>3. /\ Spelled(line) \in Seq(Bytes) /\ Len(Spelled(line)) = 3
      /\ Spelled(line)[1] = line /\ Spelled(line)[2] = CR /\ Spelled(line)[3] = LF
  BY DEF Spelled, Bytes
<1>4. Unsent \in Seq(Bytes) /\ Len(Unsent) \in Nat
  BY UnsentType
<1> DEFINE front == restore \o strings
<1>5. front \in Seq(Bytes) /\ wire \in Seq(Bytes)
  BY ConcatProperties DEF TypeOK
<1>6. wire' \in Seq(Bytes)
  BY <1>1, <1>3, <1>5, ConcatProperties
<1>7. Unsent' = Unsent \o Spelled(line)
  <2>1. Unsent' = front \o (wire \o Spelled(line)) /\ Unsent = front \o wire
    BY <1>1 DEF Unsent
  <2> HIDE DEF front
  <2>2. (front \o wire) \o Spelled(line) = front \o (wire \o Spelled(line))
    BY <1>3, <1>5, ConcatAssociative
  <2> QED  BY <2>1, <2>2
<1>8. /\ Len(Unsent') = Len(Unsent) + 3
      /\ \A i \in 1..(Len(Unsent) + 3) : Unsent'[i] =
            IF i <= Len(Unsent) THEN Unsent[i] ELSE Spelled(line)[i - Len(Unsent)]
  <2> DEFINE l == Spelled(line)
  <2>1. l \in Seq(Bytes) /\ Len(l) = 3
    BY <1>3
  <2>2. Unsent' = Unsent \o l
    BY <1>7
  <2>3. Unsent \in Seq(Bytes)
    BY <1>4
  <2> HIDE DEF l
  <2>4. /\ Len(Unsent \o l) = Len(Unsent) + Len(l)
        /\ \A i \in 1 .. Len(Unsent) + Len(l) : (Unsent \o l)[i] =
              IF i <= Len(Unsent) THEN Unsent[i] ELSE l[i - Len(Unsent)]
    BY <2>1, <2>3, ConcatProperties
  <2>5. /\ Len(Unsent') = Len(Unsent) + 3
        /\ \A i \in 1..(Len(Unsent) + 3) : Unsent'[i] =
              IF i <= Len(Unsent) THEN Unsent[i] ELSE l[i - Len(Unsent)]
    BY <2>1, <2>2, <2>4
  <2> QED  BY <2>5 DEF l
<1>9. /\ \A i \in 1..Len(Unsent) : Unsent'[i] = Unsent[i]
      /\ Unsent'[Len(Unsent) + 1] = line
      /\ Unsent'[Len(Unsent) + 2] = CR
      /\ Unsent'[Len(Unsent) + 3] = LF
  BY <1>3, <1>4, <1>8
<1>10. Lined'
  <2>1. PICK k \in 0..Len(said) :
          /\ Len(Unsent) = 3 * k
          /\ \A i \in 1..k :
              /\ Unsent[3 * i - 2] = said[Len(said) - k + i]
              /\ Unsent[3 * i - 1] = CR
              /\ Unsent[3 * i] = LF
    BY DEF Lined
  <2>2. k + 1 \in 0..Len(said') /\ Len(Unsent') = 3 * (k + 1)
    BY <1>2, <1>8, <2>1
  <2>3. ASSUME NEW i \in 1..(k + 1)
        PROVE  /\ Unsent'[3 * i - 2] = said'[Len(said') - (k + 1) + i]
               /\ Unsent'[3 * i - 1] = CR
               /\ Unsent'[3 * i] = LF
    <3>1. CASE i <= k
      <4>1. /\ 3 * i - 2 \in 1..Len(Unsent) /\ 3 * i - 1 \in 1..Len(Unsent)
            /\ 3 * i \in 1..Len(Unsent) /\ i \in 1..k
        BY <1>2, <2>1, <3>1
      <4>2. /\ Len(said) - k + i \in 1..Len(said)
            /\ Len(said') - (k + 1) + i = Len(said) - k + i
        BY <1>2, <2>1, <3>1
      <4>3. said'[Len(said') - (k + 1) + i] = said[Len(said) - k + i]
        BY <1>2, <4>2
      <4>4. /\ Unsent'[3 * i - 2] = Unsent[3 * i - 2]
            /\ Unsent'[3 * i - 1] = Unsent[3 * i - 1] /\ Unsent'[3 * i] = Unsent[3 * i]
        BY <1>9, <4>1
      <4> QED  BY <2>1, <4>1, <4>3, <4>4
    <3>2. CASE i = k + 1
      <4>1. /\ 3 * i - 2 = Len(Unsent) + 1 /\ 3 * i - 1 = Len(Unsent) + 2
            /\ 3 * i = Len(Unsent) + 3
            /\ Len(said') - (k + 1) + i = Len(said) + 1
        BY <1>2, <2>1, <3>2
      <4> QED  BY <1>2, <1>9, <4>1
    <3> QED  BY <1>2, <2>1, <3>1, <3>2
  <2> QED  BY <2>2, <2>3 DEF Lined
<1> QED  BY <1>2, <1>6, <1>8, <1>10

(* A read moves bytes and loses none.                                      *)
LEMMA ReadBytes ==
  ASSUME TypeOK, Framed, UartRead
  PROVE  /\ wire' \in Seq(Bytes) /\ strings' \in Seq(Bytes)
         /\ restore' = <<>> /\ Unsent' = Unsent
<1>1. PICK k \in 1..Len(wire) :
        /\ strings' = (IF \E i \in DOMAIN restore : restore[i] \in Lines
                         THEN restore ELSE <<>>) \o SubSeq(wire, 1, k)
        /\ wire' = SubSeq(wire, k + 1, Len(wire))
  BY DEF UartRead
<1>2. strings = <<>> /\ restore' = <<>>
  BY DEF UartRead
<1>3. restore \in Seq(Bytes) /\ wire \in Seq(Bytes) /\ <<>> \in Seq(Bytes)
  BY DEF TypeOK
<1>4. /\ SubSeq(wire, 1, k) \in Seq(Bytes) /\ SubSeq(wire, k + 1, Len(wire)) \in Seq(Bytes)
      /\ SubSeq(wire, 1, k) \o SubSeq(wire, k + 1, Len(wire)) = wire
  <2>1. Len(wire) \in Nat /\ k \in 0..Len(wire) /\ 1 \in 1..(Len(wire) + 1)
        /\ k \in 1-1..Len(wire) /\ Len(wire) \in k..Len(wire)
    BY <1>3
  <2>2. \A i \in 1..Len(wire) : wire[i] \in Bytes
    BY <1>3
  <2>3. SubSeq(wire, 1, k) \in Seq(Bytes)
    BY <2>1, <2>2, SubSeqProperties
  <2>4. SubSeq(wire, k + 1, Len(wire)) \in Seq(Bytes)
    <3>1. \A i \in (k + 1)..Len(wire) : wire[i] \in Bytes
      BY <2>1, <2>2
    <3>2. k + 1 \in Int /\ Len(wire) \in Int
      BY <2>1
    <3> QED  BY <3>1, <3>2, SubSeqProperties
  <2>5. SubSeq(wire, 1, k) \o SubSeq(wire, k + 1, Len(wire)) = SubSeq(wire, 1, Len(wire))
    BY <1>3, <2>1, ConcatAdjacentSubSeq
  <2> QED  BY <1>3, <2>3, <2>4, <2>5, SubSeqFull
<1>5. (IF \E i \in DOMAIN restore : restore[i] \in Lines THEN restore ELSE <<>>) = restore
  <2>1. CASE restore = <<>>
    BY <2>1
  <2>2. CASE restore # <<>>
    <3>1. 1 \in 1..Len(restore) /\ Len(restore) \in Nat /\ Len(wire) \in Nat /\ Len(strings) \in Nat
      BY <1>2, <1>3, <2>2
    <3>2. Unsent[1] = restore[1]
      BY <3>1, ThreeParts DEF TypeOK, Unsent
    <3>3. Len(Unsent) > 0
      BY <3>1, UnsentType
    <3>4. restore[1] \in Lines
      BY <3>2, <3>3, FirstLine DEF Framed
    <3>5. 1 \in DOMAIN restore
      BY <1>3, <3>1
    <3> QED  BY <3>4, <3>5
  <2> QED  BY <2>1, <2>2
<1> DEFINE a == SubSeq(wire, 1, k)
           b == SubSeq(wire, k + 1, Len(wire))
<1>6. strings' = restore \o a /\ wire' = b
  BY <1>1, <1>5
<1>7. a \in Seq(Bytes) /\ b \in Seq(Bytes) /\ a \o b = wire
  BY <1>4
<1> HIDE DEF a, b
<1>8. strings' \in Seq(Bytes)
  BY <1>3, <1>6, <1>7, ConcatProperties
<1>9. Unsent' = Unsent
  <2>1. Unsent' = (<<>> \o strings') \o b
    BY <1>2, <1>6 DEF Unsent
  <2>2. <<>> \o strings' = restore \o a
    BY <1>6, <1>8, ConcatEmptySeq
  <2>3. (restore \o a) \o b = restore \o wire
    <3>1. restore \in Seq(Bytes) /\ a \in Seq(Bytes) /\ b \in Seq(Bytes)
      BY <1>3, <1>7
    <3>2. (restore \o a) \o b = restore \o (a \o b)
      BY <3>1, ConcatAssociative
    <3> QED  BY <1>7, <3>2
  <2>4. Unsent = (restore \o <<>>) \o wire
    BY <1>2 DEF Unsent
  <2>5. restore \o <<>> = restore
    BY <1>3, ConcatEmptySeq
  <2> QED  BY <2>1, <2>2, <2>3, <2>4, <2>5
<1> QED  BY <1>2, <1>6, <1>7, <1>8, <1>9

(* So does keeping what completes no line, and less than a line is kept.   *)
LEMMA KeepBytes ==
  ASSUME TypeOK, Framed, UartKeep
  PROVE  /\ restore' \in Seq(Bytes) /\ strings' = <<>> /\ wire' = wire
         /\ Unsent' = Unsent /\ Len(restore') <= 2
<1>1. /\ strings # <<>> /\ Complete(strings) = {}
      /\ restore' = strings /\ strings' = <<>> /\ wire' = wire
  BY DEF UartKeep
<1>2. restore = <<>>
  BY <1>1 DEF Framed
<1>3. strings \in Seq(Bytes) /\ Len(strings) \in Nat
  BY DEF TypeOK
<1>4. Len(strings) <= 2
  <2>1. ~(Len(strings) >= 3)
    BY <1>1, CompleteLine
  <2> QED  BY <1>3, <2>1
<1>5. Unsent' = Unsent
  <2>1. Unsent' = (strings \o <<>>) \o wire
    BY <1>1 DEF Unsent
  <2>2. Unsent = (<<>> \o strings) \o wire
    BY <1>2 DEF Unsent
  <2>3. strings \o <<>> = strings /\ <<>> \o strings = strings
    BY <1>3, ConcatEmptySeq
  <2> QED  BY <2>1, <2>2, <2>3
<1> QED  BY <1>1, <1>3, <1>4, <1>5

(* A line sent on is the first of those that have not been.                *)
LEMMA SendLineBytes ==
  ASSUME TypeOK, Framed, UartSendLine
  PROVE  /\ strings' \in Seq(Bytes) /\ restore = <<>> /\ restore' = <<>> /\ wire' = wire
         /\ Len(Unsent) >= 3 /\ Len(Unsent') = Len(Unsent) - 3
         /\ Lined'
         /\ SendsOn(strings[1]) /\ strings[1] \in Lines /\ said' = said
         /\ \E k \in 1..Len(said) :
               Len(Unsent) = 3 * k /\ strings[1] = said[Len(said) - k + 1]
         /\ mark' = IF mark = "PEEK" /\ strings[1] \in Items THEN "RECV" ELSE mark
<1>1. PICK p \in Complete(strings) :
        /\ SendsOn(strings[p - 1])
        /\ mark' = (IF mark = "PEEK" /\ strings[p - 1] \in Items THEN "RECV" ELSE mark)
        /\ strings' = SubSeq(strings, p + 2, Len(strings))
        /\ UNCHANGED <<restore, getConfDown, retries, mainToUart, appVars, lineVars>>
  BY DEF UartSendLine
<1>2. strings \in Seq(Bytes) /\ wire \in Seq(Bytes) /\ Len(strings) \in Nat /\ Len(wire) \in Nat
      /\ Len(said) \in Nat
  BY DEF TypeOK
<1>3. strings # <<>>
  BY <1>1, <1>2 DEF Complete, FirstCR
<1>4. p = 2 /\ 2 < Len(strings) /\ restore = <<>> /\ Len(restore) = 0
  BY <1>1, <1>3, CompleteLine DEF Framed
<1>5. /\ strings' \in Seq(Bytes) /\ Len(strings') = Len(strings) - 3
      /\ \A i \in 1..(Len(strings) - 3) : strings'[i] = strings[i + 3]
  <2>1. strings' = SubSeq(strings, 4, Len(strings))
    BY <1>1, <1>4
  <2>2. \A i \in 4..Len(strings) : strings[i] \in Bytes
    BY <1>2
  <2>3. /\ strings' \in Seq(Bytes)
        /\ Len(strings') = IF 4 <= Len(strings) THEN Len(strings) - 4 + 1 ELSE 0
        /\ \A i \in 1..(Len(strings) - 4 + 1) : strings'[i] = strings[4 + i - 1]
    BY <1>2, <2>1, <2>2, SubSeqProperties
  <2>4. Len(strings') = Len(strings) - 3
    <3>1. Len(strings') = IF 4 <= Len(strings) THEN Len(strings) - 4 + 1 ELSE 0
      BY <2>3
    <3>2. Len(strings) \in Nat /\ 2 < Len(strings)
      BY <1>2, <1>4
    <3>3. CASE 4 <= Len(strings)
      <4>1. Len(strings') = Len(strings) - 4 + 1
        BY <3>1, <3>3
      <4> QED  BY <3>2, <4>1
    <3>4. CASE ~(4 <= Len(strings))
      <4>1. Len(strings') = 0
        BY <3>1, <3>4
      <4>2. \A n \in Nat : 2 < n /\ ~(4 <= n) => n = 3
        OBVIOUS
      <4>3. Len(strings) = 3
        BY <3>2, <3>4, <4>2
      <4> QED  BY <4>1, <4>3
    <3> QED  BY <3>3, <3>4
  <2>5. ASSUME NEW i \in 1..(Len(strings) - 3) PROVE strings'[i] = strings[i + 3]
    <3>1. i \in 1..(Len(strings) - 4 + 1) /\ 4 + i - 1 = i + 3
      BY <1>2, <1>4
    <3>2. strings'[i] = strings[4 + i - 1]
      BY <2>3, <3>1
    <3> QED  BY <3>1, <3>2
  <2> QED  BY <2>3, <2>4, <2>5
<1>6. restore' = <<>> /\ wire' = wire /\ said' = said /\ Len(restore') = 0
  BY <1>1, <1>4 DEF lineVars
<1>7. /\ Len(Unsent) = Len(strings) + Len(wire)
      /\ \A i \in 1..Len(strings) : Unsent[i] = strings[i]
      /\ \A i \in 1..Len(wire) : Unsent[Len(strings) + i] = wire[i]
  <2>1. /\ Len(Unsent) = Len(restore) + Len(strings) + Len(wire)
        /\ \A i \in 1..Len(strings) : Unsent[Len(restore) + i] = strings[i]
        /\ \A i \in 1..Len(wire) : Unsent[Len(restore) + Len(strings) + i] = wire[i]
    BY ThreeParts DEF TypeOK, Unsent
  <2> QED  BY <1>2, <1>4, <2>1
<1>8. /\ Len(Unsent') = Len(strings') + Len(wire)
      /\ \A i \in 1..Len(strings') : Unsent'[i] = strings'[i]
      /\ \A i \in 1..Len(wire) : Unsent'[Len(strings') + i] = wire[i]
  <2>0. restore' \in Seq(Bytes) /\ wire' \in Seq(Bytes)
    BY <1>2, <1>6
  <2>1. /\ Len(Unsent') = Len(restore') + Len(strings') + Len(wire')
        /\ \A i \in 1..Len(strings') : Unsent'[Len(restore') + i] = strings'[i]
        /\ \A i \in 1..Len(wire') : Unsent'[Len(restore') + Len(strings') + i] = wire'[i]
    <3> DEFINE r == restore'
               t == strings'
               w == wire'
    <3>1. Unsent' = r \o t \o w
      BY DEF Unsent
    <3>2. r \in Seq(Bytes) /\ t \in Seq(Bytes) /\ w \in Seq(Bytes)
      BY <1>5, <2>0
    <3> HIDE DEF r, t, w
    <3>3. /\ Len(r \o t \o w) = Len(r) + Len(t) + Len(w)
          /\ \A i \in 1..Len(t) : (r \o t \o w)[Len(r) + i] = t[i]
          /\ \A i \in 1..Len(w) : (r \o t \o w)[Len(r) + Len(t) + i] = w[i]
      BY <3>2, ThreeParts
    <3>4. /\ Len(Unsent') = Len(r) + Len(t) + Len(w)
          /\ \A i \in 1..Len(t) : Unsent'[Len(r) + i] = t[i]
          /\ \A i \in 1..Len(w) : Unsent'[Len(r) + Len(t) + i] = w[i]
      BY <3>1, <3>3
    <3> QED  BY <3>4 DEF r, t, w
  <2> QED  BY <1>2, <1>5, <1>6, <2>1
<1>9. /\ Len(Unsent') = Len(Unsent) - 3 /\ Len(Unsent) >= 3
      /\ \A i \in 1..(Len(Unsent) - 3) : Unsent'[i] = Unsent[i + 3]
  <2>1. Len(Unsent') = Len(Unsent) - 3 /\ Len(Unsent) >= 3
    BY <1>2, <1>4, <1>5, <1>7, <1>8
  <2>2. ASSUME NEW i \in 1..(Len(Unsent) - 3) PROVE Unsent'[i] = Unsent[i + 3]
    <3>1. CASE i <= Len(strings) - 3
      <4>1. i \in 1..Len(strings') /\ i \in 1..(Len(strings) - 3) /\ i + 3 \in 1..Len(strings)
        BY <1>2, <1>4, <1>5, <2>2, <3>1
      <4> QED  BY <1>5, <1>7, <1>8, <4>1
    <3>2. CASE i > Len(strings) - 3
      <4> DEFINE j == i - (Len(strings) - 3)
      <4>1. j \in 1..Len(wire) /\ i = Len(strings') + j /\ i + 3 = Len(strings) + j
        BY <1>2, <1>4, <1>5, <1>7, <2>2, <3>2
      <4> HIDE DEF j
      <4> QED  BY <1>7, <1>8, <4>1
    <3> QED  BY <1>2, <3>1, <3>2
  <2> QED  BY <2>1, <2>2
<1>10. PICK k \in 0..Len(said) :
        /\ Len(Unsent) = 3 * k
        /\ \A i \in 1..k :
            /\ Unsent[3 * i - 2] = said[Len(said) - k + i]
            /\ Unsent[3 * i - 1] = CR
            /\ Unsent[3 * i] = LF
  BY DEF Framed, Lined
<1>11. k \in 1..Len(said) /\ strings[1] = said[Len(said) - k + 1]
  <2>1. k >= 1 /\ 1 \in 1..k /\ 1 \in 1..Len(strings)
    BY <1>2, <1>4, <1>9, <1>10
  <2>2. Unsent[3 * 1 - 2] = said[Len(said) - k + 1]
    BY <1>10, <2>1
  <2>3. Unsent[1] = strings[1]
    BY <1>7, <2>1
  <2> QED  BY <1>2, <1>10, <2>1, <2>2, <2>3
<1>12. strings[1] \in Lines
  <2>1. Len(said) - k + 1 \in 1..Len(said)
    BY <1>2, <1>11
  <2> QED  BY <1>11, <2>1 DEF TypeOK
<1>13. Lined'
  <2>1. k - 1 \in 0..Len(said') /\ Len(Unsent') = 3 * (k - 1)
    BY <1>2, <1>6, <1>9, <1>10, <1>11
  <2>2. ASSUME NEW i \in 1..(k - 1)
        PROVE  /\ Unsent'[3 * i - 2] = said'[Len(said') - (k - 1) + i]
               /\ Unsent'[3 * i - 1] = CR
               /\ Unsent'[3 * i] = LF
    <3>1. /\ 3 * i - 2 \in 1..(Len(Unsent) - 3) /\ 3 * i - 1 \in 1..(Len(Unsent) - 3)
          /\ 3 * i \in 1..(Len(Unsent) - 3) /\ i + 1 \in 1..k
          /\ (3 * i - 2) + 3 = 3 * (i + 1) - 2 /\ (3 * i - 1) + 3 = 3 * (i + 1) - 1
          /\ 3 * i + 3 = 3 * (i + 1)
          /\ Len(said) - (k - 1) + i = Len(said) - k + (i + 1)
      BY <1>2, <1>10, <1>11
    <3>2. /\ Unsent'[3 * i - 2] = Unsent[3 * (i + 1) - 2]
          /\ Unsent'[3 * i - 1] = Unsent[3 * (i + 1) - 1]
          /\ Unsent'[3 * i] = Unsent[3 * (i + 1)]
      BY <1>9, <3>1
    <3>3. /\ Unsent[3 * (i + 1) - 2] = said[Len(said) - k + (i + 1)]
          /\ Unsent[3 * (i + 1) - 1] = CR
          /\ Unsent[3 * (i + 1)] = LF
      BY <1>10, <3>1
    <3>4. said' = said
      BY <1>6
    <3> QED  BY <3>1, <3>2, <3>3, <3>4
  <2> QED  BY <2>1, <2>2 DEF Lined
<1>14. SendsOn(strings[1]) /\ mark' = (IF mark = "PEEK" /\ strings[1] \in Items THEN "RECV" ELSE mark)
  BY <1>1, <1>4
<1> QED
  BY <1>4, <1>5, <1>6, <1>9, <1>10, <1>11, <1>12, <1>13, <1>14
---------------------------------------------------------------------------
(* What every step uses                                                    *)

Counted ==
    /\ N \in Nat /\ N >= 1 /\ MainLen \in Nat /\ MainLen >= 1
    /\ step \in Nat /\ 1 <= step /\ step <= N + 2 /\ late \in Nat
    /\ Len(said) \in Nat /\ Len(uartToMain) \in Nat /\ Len(mainToUart) \in Nat
    /\ fresh \in Nat /\ fresh <= N
    /\ asked \in Int /\ popped \in Int /\ taken \in Nat /\ extra \in Int
    /\ waiting => step <= N + 1

LEMMA Numbers ==
  ASSUME BootInv
  PROVE  Counted
<1>1. N \in Nat /\ N >= 1 /\ MainLen \in Nat /\ MainLen >= 1
  BY BootAssumption
<1>2. /\ step \in 1..(N+2) /\ waiting \in BOOLEAN /\ late \in Nat
      /\ fresh \in 0..N
      /\ said \in Seq(Lines) /\ uartToMain \in Seq(Lines)
      /\ mainToUart \in Seq(1..GetConfDown)
  BY DEF BootInv, BootTypeOK, TypeOK
<1>3. Len(said) \in Nat /\ Len(uartToMain) \in Nat /\ Len(mainToUart) \in Nat
  BY <1>2
<1>4. asked \in Int /\ popped \in Int /\ taken \in Nat /\ extra \in Int
  BY <1>1, <1>2, <1>3 DEF asked, popped, taken, extra, BootInv, InOrder
<1>5. step = N + 2 => ~waiting
  BY DEF BootInv, BootTypeOK
<1> QED  BY <1>1, <1>2, <1>3, <1>4, <1>5 DEF Counted

(* A step that moves no byte and says no line.                             *)
LEMMA LinesStay ==
  ASSUME BootInv, UNCHANGED <<restore, strings, wire, said>>
  PROVE  Framed' /\ Len(Unsent') = Len(Unsent)
<1>1. Unsent' = Unsent
  BY DEF Unsent
<1> QED  BY <1>1 DEF BootInv, Framed, Lined

(* As long as mqtt is left alone more lines and more lateness do no harm.  *)
LEMMA StillStored ==
  ASSUME BootInv, mqtt' = mqtt, late' \in Nat, extra' \in Int,
         Taken' => Taken, ~lost' => (~lost /\ extra' + late' >= extra + late)
  PROVE  StoredInTime'
<1>0. Counted
  BY Numbers
<1> SUFFICES ASSUME Taken', ~lost', NEW item \in Items, item + extra' + late' <= N
             PROVE  item \in mqtt'
  BY DEF StoredInTime, Items
<1>1. Taken /\ ~lost /\ extra' + late' >= extra + late
  OBVIOUS
<1>2. item \in Int
  BY <1>0 DEF Items, Counted
<1>3. item + extra + late <= N
  <2>1. \A i, e, f, l, m, n \in Int : f + m >= e + l /\ i + f + m <= n => i + e + l <= n
    OBVIOUS
  <2>2. /\ extra \in Int /\ extra' \in Int /\ late \in Int /\ late' \in Int /\ N \in Int
        /\ item + extra' + late' <= N
    BY <1>0 DEF Counted
  <2> QED  BY <1>1, <1>2, <2>1, <2>2
<1> QED  BY <1>1, <1>3 DEF BootInv, StoredInTime

(* Whether Taken holds is up to app_main.                                  *)
LEMMA TakenStays ==
  ASSUME UNCHANGED <<step, waiting>>
  PROVE  Taken' = Taken
BY DEF Taken

---------------------------------------------------------------------------
(* The steps of app_main                                                   *)

(* Something is put at the end of mainToUart.                              *)
LEMMA RequestPut ==
  ASSUME BootInv, ~waiting, step \in 1..GetConfDown,
         mainToUart' = Append(mainToUart, step), waiting' = TRUE, UNCHANGED <<step, mark>>
  PROVE  mainToUart' \in Seq(1..GetConfDown) /\ popped' = popped /\ Asked'
<1>0. Counted
  BY Numbers
<1>1. mainToUart \in Seq(1..GetConfDown)
  BY DEF BootInv, BootTypeOK, TypeOK
<1>2. /\ mainToUart' \in Seq(1..GetConfDown) /\ Len(mainToUart') = Len(mainToUart) + 1
      /\ mainToUart'[Len(mainToUart) + 1] = step
      /\ \A i \in 1..Len(mainToUart) : mainToUart'[i] = mainToUart[i]
  BY <1>1
<1>3. popped' = popped /\ popped + Len(mainToUart) + 1 = step
  BY <1>0, <1>2 DEF popped, asked, Counted
<1>4. \A i \in 1..Len(mainToUart') : mainToUart'[i] = popped' + i
  <2> SUFFICES ASSUME NEW i \in 1..Len(mainToUart') PROVE mainToUart'[i] = popped' + i
    OBVIOUS
  <2>1. CASE i \in 1..Len(mainToUart)
    BY <1>2, <1>3, <2>1 DEF BootInv, Asked
  <2>2. CASE i = Len(mainToUart) + 1
    BY <1>0, <1>2, <1>3, <2>2 DEF Counted
  <2> QED  BY <1>0, <1>2, <2>1, <2>2 DEF Counted
<1>5. mainToUart' # <<>>
  BY <1>0, <1>2 DEF Counted
<1> QED  BY <1>2, <1>3, <1>4, <1>5 DEF BootInv, Asked

LEMMA AskKeeps ==
  ASSUME BootInv, Ask
  PROVE  BootInv'
<1>0. Counted
  BY Numbers
<1>1. /\ step \in Items /\ ~waiting
      /\ mainToUart' = Append(mainToUart, step) /\ waiting' = TRUE
      /\ UNCHANGED <<step, config, mqtt, late, uartToMain, uartVars, lineVars>>
  BY DEF Ask
<1>2. UNCHANGED <<mark, getConfDown, strings, restore, retries, wire, said, fresh, others, lost>>
  BY <1>1 DEF uartVars, readVars, lineVars
<1>3. step \in 1..GetConfDown /\ step # N + 2 /\ step # GetConfDown
  BY <1>0, <1>1 DEF Items, GetConfDown, Counted
<1>4. mainToUart' \in Seq(1..GetConfDown) /\ popped' = popped /\ Asked'
  BY <1>1, <1>2, <1>3, RequestPut
<1>5. BootTypeOK'
  BY <1>1, <1>2, <1>3, <1>4 DEF BootInv, BootTypeOK, TypeOK
<1>6. Framed' /\ Len(Unsent') = Len(Unsent)
  BY <1>2, LinesStay
<1>7. taken' = taken /\ extra' = extra
  BY <1>1, <1>2 DEF taken, extra
<1>8. InOrder'
  BY <1>1, <1>2, <1>6, <1>7 DEF BootInv, InOrder
<1>9. Fresh'
  BY <1>2, <1>4 DEF BootInv, Fresh
<1>10. Placed'
  BY <1>2, <1>7 DEF BootInv, Placed
<1>11. Kept'
  BY <1>1, <1>2, <1>7 DEF BootInv, Kept
<1>12. ~Taken'
  BY <1>1, <1>3 DEF Taken
<1> QED
  BY <1>4, <1>5, <1>6, <1>8, <1>9, <1>10, <1>11, <1>12 DEF BootInv, StoredInTime

(* What MQTTInit copies is what has come in time.                          *)
LEMMA InitMqttKeeps ==
  ASSUME BootInv, InitMqtt
  PROVE  BootInv'
<1>0. Counted
  BY Numbers
<1>1. /\ step = GetConfDown /\ ~waiting
      /\ mqtt' = config
      /\ mainToUart' = Append(mainToUart, GetConfDown) /\ waiting' = TRUE
      /\ UNCHANGED <<step, config, late, uartToMain, uartVars, lineVars>>
  BY DEF InitMqtt
<1>2. UNCHANGED <<mark, getConfDown, strings, restore, retries, wire, said, fresh, others, lost>>
  BY <1>1 DEF uartVars, readVars, lineVars
<1>3. step \in 1..GetConfDown /\ step # N + 2 /\ mainToUart' = Append(mainToUart, step)
  BY <1>0, <1>1 DEF GetConfDown, Counted
<1>4. mainToUart' \in Seq(1..GetConfDown) /\ popped' = popped /\ Asked'
  BY <1>1, <1>2, <1>3, RequestPut
<1>5. BootTypeOK'
  BY <1>1, <1>2, <1>3, <1>4 DEF BootInv, BootTypeOK, TypeOK
<1>6. Framed' /\ Len(Unsent') = Len(Unsent)
  BY <1>2, LinesStay
<1>7. taken' = taken /\ extra' = extra
  BY <1>1, <1>2 DEF taken, extra
<1>8. InOrder'
  BY <1>1, <1>2, <1>6, <1>7 DEF BootInv, InOrder
<1>9. Fresh'
  BY <1>2, <1>4 DEF BootInv, Fresh
<1>10. Placed'
  BY <1>2, <1>7 DEF BootInv, Placed
<1>11. Kept'
  BY <1>1, <1>2, <1>7 DEF BootInv, Kept
<1>12. ASSUME ~lost, NEW item \in Items, item + extra + late <= N
       PROVE  item \in config
  <2>1. item \in Int /\ 1 <= item
    BY <1>0 DEF Items, Counted
  <2>2. taken = N - late /\ taken <= Len(said)
    <3>1. taken + Len(uartToMain) <= Len(said)
      BY DEF BootInv, InOrder
    <3>2. taken <= Len(said)
      BY <1>0, <3>1 DEF Counted
    <3>3. taken = N - late
      BY <1>0, <1>1 DEF taken, GetConfDown, Counted
    <3> QED  BY <3>2, <3>3
  <2>3. item <= fresh /\ item + extra <= taken
    BY <1>0, <1>12, <2>1, <2>2 DEF extra, Counted
  <2>4. item \in 1..fresh
    BY <1>0, <2>1, <2>3 DEF Counted
  <2>5. PICK j \in 1..Len(said) : j <= item + extra /\ said[j] = item
    BY <1>12, <2>4 DEF BootInv, Placed
  <2>6. j \in 1..taken
    BY <1>0, <2>1, <2>3, <2>5 DEF Counted
  <2> QED  BY <1>12, <2>5, <2>6 DEF BootInv, Kept
<1>13. StoredInTime'
  <2> SUFFICES ASSUME ~lost', NEW item \in Items, item + extra' + late' <= N
               PROVE  item \in mqtt'
    BY DEF StoredInTime, Items
  <2>1. ~lost /\ item + extra + late <= N
    BY <1>1, <1>2, <1>7
  <2> QED  BY <1>1, <1>12, <2>1
<1> QED
  BY <1>4, <1>5, <1>6, <1>8, <1>9, <1>10, <1>11, <1>13 DEF BootInv

LEMMA SearchKeeps ==
  ASSUME BootInv, Search
  PROVE  BootInv'
<1>0. Counted
  BY Numbers
<1>1. /\ waiting /\ uartToMain # <<>>
      /\ config' = Stored(Head(uartToMain))
      /\ uartToMain' = Tail(uartToMain)
      /\ waiting' = FALSE /\ step' = step + 1
      /\ UNCHANGED <<mqtt, late, mainToUart, uartVars, lineVars>>
  BY DEF Search
<1>2. UNCHANGED <<mark, getConfDown, strings, restore, retries, wire, said, fresh, others, lost>>
  BY <1>1 DEF uartVars, readVars, lineVars
<1>3. uartToMain \in Seq(Lines) /\ config \subseteq Items
  BY DEF BootInv, BootTypeOK, TypeOK
<1>4. /\ Head(uartToMain) = uartToMain[1] /\ uartToMain' \in Seq(Lines)
      /\ Len(uartToMain) >= 1 /\ Len(uartToMain') = Len(uartToMain) - 1
      /\ \A i \in 1..Len(uartToMain') : uartToMain'[i] = uartToMain[i + 1]
  BY <1>0, <1>1, <1>3, HeadTailProperties DEF Counted
<1>5. config \subseteq config' /\ config' \subseteq Items
      /\ (uartToMain[1] \in Items => uartToMain[1] \in config')
  BY <1>1, <1>3, <1>4 DEF Stored
<1>6. BootTypeOK'
  <2>1. step' \in 1..(N+2) /\ Len(uartToMain') <= MainLen
    BY <1>0, <1>1, <1>4 DEF BootInv, BootTypeOK, TypeOK, Counted
  <2> QED  BY <1>1, <1>2, <1>4, <1>5, <2>1 DEF BootInv, BootTypeOK, TypeOK
<1>7. Framed' /\ Len(Unsent') = Len(Unsent)
  BY <1>2, LinesStay
<1>8. /\ taken' = taken + 1 /\ extra' = extra /\ asked' = asked /\ popped' = popped
      /\ taken' + Len(uartToMain') = taken + Len(uartToMain)
  BY <1>0, <1>1, <1>2, <1>4 DEF taken, extra, asked, popped, Counted
<1>9. InOrder'
  <2>1. taken' >= 0 /\ taken' + Len(uartToMain') <= Len(said')
    BY <1>0, <1>2, <1>8 DEF BootInv, InOrder, Counted
  <2>2. ASSUME NEW i \in 1..Len(uartToMain') PROVE uartToMain'[i] = said'[taken' + i]
    <3>1. i + 1 \in 1..Len(uartToMain) /\ taken' + i = taken + (i + 1)
      BY <1>0, <1>4, <1>8 DEF Counted
    <3> QED  BY <1>2, <1>4, <3>1 DEF BootInv, InOrder
  <2>3. ~getConfDown' => Len(Unsent') = 3 * (Len(said') - taken' - Len(uartToMain'))
    <3>1. Len(said') - taken' - Len(uartToMain') = Len(said) - taken - Len(uartToMain)
      BY <1>0, <1>2, <1>4, <1>8 DEF Counted
    <3> QED  BY <1>2, <1>7, <3>1 DEF BootInv, InOrder
  <2> QED  BY <2>1, <2>2, <2>3 DEF InOrder
<1>10. Asked' /\ Fresh'
  BY <1>1, <1>2, <1>8 DEF BootInv, Asked, Fresh
<1>11. Placed'
  BY <1>2, <1>8 DEF BootInv, Placed
<1>12. Kept'
  <2> SUFFICES ASSUME NEW j \in 1..taken', said'[j] \in Items PROVE said'[j] \in config'
    BY DEF Kept, Items
  <2>1. CASE j \in 1..taken
    BY <1>2, <1>5, <2>1 DEF BootInv, Kept
  <2>2. CASE j = taken + 1
    <3>1. uartToMain[1] = said[taken + 1]
      <4>1. 1 \in 1..Len(uartToMain)
        BY <1>0, <1>4 DEF Counted
      <4> QED  BY <4>1 DEF BootInv, InOrder
    <3> QED  BY <1>2, <1>5, <2>2, <3>1
  <2> QED  BY <1>0, <1>8, <2>1, <2>2 DEF Counted
<1>13. StoredInTime'
  <2>1. Taken' => Taken
    BY <1>0, <1>1 DEF Taken, GetConfDown, Counted
  <2> QED  BY <1>0, <1>1, <1>2, <1>8, <2>1, StillStored DEF Counted
<1> QED
  BY <1>6, <1>7, <1>9, <1>10, <1>11, <1>12, <1>13 DEF BootInv

LEMMA NoAnswerKeeps ==
  ASSUME BootInv, NoAnswer
  PROVE  BootInv'
<1>0. Counted
  BY Numbers
<1>1. /\ waiting /\ waiting' = FALSE /\ step' = step + 1 /\ late' = late + 1
      /\ UNCHANGED <<config, mqtt, queues, uartVars, lineVars>>
  BY DEF NoAnswer
<1>2. /\ UNCHANGED <<mark, getConfDown, strings, restore, retries, wire, said, fresh, others, lost>>
      /\ UNCHANGED <<mainToUart, uartToMain>>
  BY <1>1 DEF uartVars, readVars, lineVars, queues
<1>3. BootTypeOK'
  <2>1. step' \in 1..(N+2) /\ late' \in Nat
    BY <1>0, <1>1 DEF Counted
  <2> QED  BY <1>1, <1>2, <2>1 DEF BootInv, BootTypeOK, TypeOK
<1>4. Framed' /\ Len(Unsent') = Len(Unsent)
  BY <1>2, LinesStay
<1>5. taken' = taken /\ extra' = extra /\ asked' = asked /\ popped' = popped
  BY <1>0, <1>1, <1>2 DEF taken, extra, asked, popped, Counted
<1>6. InOrder'
  BY <1>2, <1>4, <1>5 DEF BootInv, InOrder
<1>7. Asked' /\ Fresh'
  BY <1>2, <1>5 DEF BootInv, Asked, Fresh
<1>8. Placed'
  BY <1>2, <1>5 DEF BootInv, Placed
<1>9. Kept'
  BY <1>1, <1>2, <1>5 DEF BootInv, Kept
<1>10. StoredInTime'
  <2>1. Taken' => Taken
    BY <1>0, <1>1 DEF Taken, GetConfDown, Counted
  <2>2. extra' + late' >= extra + late /\ late' \in Nat
    BY <1>0, <1>1, <1>5 DEF Counted
  <2> QED  BY <1>0, <1>1, <1>2, <1>5, <2>1, <2>2, StillStored DEF Counted
<1> QED
  BY <1>3, <1>4, <1>6, <1>7, <1>8, <1>9, <1>10 DEF BootInv

---------------------------------------------------------------------------
(* The steps of the module                                                 *)

(* A line said is one more that has not been sent on.                      *)
LEMMA SaysKeeps ==
  ASSUME BootInv, NEW line \in Lines, Says(line),
         UNCHANGED <<step, late, config, uartToMain, getConfDown, restore, strings>>
  PROVE  /\ wire' \in Seq(Bytes) /\ said' \in Seq(Lines)
         /\ Len(said') = Len(said) + 1 /\ said'[Len(said) + 1] = line
         /\ \A j \in 1..Len(said) : said'[j] = said[j]
         /\ taken' = taken
         /\ Framed' /\ InOrder' /\ Kept'
<1>0. Counted
  BY Numbers
<1>1. /\ wire' \in Seq(Bytes) /\ said' \in Seq(Lines)
      /\ Len(said') = Len(said) + 1 /\ said'[Len(said) + 1] = line
      /\ \A j \in 1..Len(said) : said'[j] = said[j]
      /\ Len(Unsent') = Len(Unsent) + 3
      /\ Lined'
  BY SaysBytes DEF BootInv, BootTypeOK, Framed
<1>2. Framed'
  BY <1>1 DEF BootInv, Framed
<1>3. taken' = taken
  BY DEF taken
<1>4. taken + Len(uartToMain) <= Len(said)
  BY DEF BootInv, InOrder
<1>5. InOrder'
  <2>1. taken' >= 0 /\ taken' + Len(uartToMain') <= Len(said')
    BY <1>0, <1>1, <1>3, <1>4 DEF Counted
  <2>2. ASSUME NEW i \in 1..Len(uartToMain') PROVE uartToMain'[i] = said'[taken' + i]
    <3>1. i \in 1..Len(uartToMain) /\ taken + i \in 1..Len(said)
      BY <1>0, <1>4 DEF Counted
    <3> QED  BY <1>1, <1>3, <3>1 DEF BootInv, InOrder
  <2>3. ASSUME ~getConfDown
        PROVE  Len(Unsent') = 3 * (Len(said') - taken' - Len(uartToMain'))
    <3>1. Len(Unsent) = 3 * (Len(said) - taken - Len(uartToMain))
      BY <2>3 DEF BootInv, InOrder
    <3>2. \A n, t, u \in Int : 3 * (n - t - u) + 3 = 3 * (n + 1 - t - u)
      OBVIOUS
    <3>3. Len(Unsent') = 3 * (Len(said) - taken - Len(uartToMain)) + 3
      BY <1>1, <3>1
    <3>4. Len(Unsent') = 3 * (Len(said) + 1 - taken - Len(uartToMain))
      BY <1>0, <3>2, <3>3 DEF Counted
    <3>5. Len(said') = Len(said) + 1 /\ Len(uartToMain') = Len(uartToMain)
      BY <1>1
    <3> DEFINE x == Len(said')
               y == Len(uartToMain')
    <3>6. x = Len(said) + 1 /\ y = Len(uartToMain) /\ taken' = taken
      BY <1>3, <3>5
    <3> HIDE DEF x, y
    <3>7. Len(Unsent') = 3 * (x - taken' - y)
      BY <1>0, <3>4, <3>6 DEF Counted
    <3> QED  BY <3>7 DEF x, y
  <2> QED  BY <2>1, <2>2, <2>3 DEF InOrder
<1>6. Kept'
  <2> SUFFICES ASSUME NEW j \in 1..taken, said'[j] \in Items PROVE said'[j] \in config
    BY <1>3 DEF Kept, Items
  <2>1. j \in 1..Len(said)
    BY <1>0, <1>4 DEF Counted
  <2> QED  BY <1>1, <2>1 DEF BootInv, Kept
<1> QED  BY <1>1, <1>2, <1>3, <1>5, <1>6

LEMMA ModuleSpeaksKeeps ==
  ASSUME BootInv, ModuleSpeaks
  PROVE  BootInv'
<1>0. Counted
  BY Numbers
<1>1. /\ Says(Other) /\ others' = others + 1
      /\ UNCHANGED <<fresh, lost, appVars, uartVars, queues>>
  BY DEF ModuleSpeaks
<1>2. /\ UNCHANGED <<step, waiting, config, mqtt, late>>
      /\ UNCHANGED <<mark, getConfDown, strings, restore, retries>>
      /\ UNCHANGED <<mainToUart, uartToMain>>
  BY <1>1 DEF appVars, uartVars, readVars, queues
<1>3. Other \in Lines
  BY DEF Lines
<1>4. /\ wire' \in Seq(Bytes) /\ said' \in Seq(Lines)
      /\ Len(said') = Len(said) + 1
      /\ \A j \in 1..Len(said) : said'[j] = said[j]
      /\ taken' = taken
      /\ Framed' /\ InOrder' /\ Kept'
  BY <1>1, <1>2, <1>3, SaysKeeps
<1>5. BootTypeOK'
  <2>1. others' \in Nat
    BY <1>1 DEF BootInv, BootTypeOK, TypeOK
  <2> QED  BY <1>1, <1>2, <1>4, <2>1 DEF BootInv, BootTypeOK, TypeOK
<1>6. popped' = popped
  BY <1>2 DEF popped, asked
<1>7. Asked' /\ Fresh'
  BY <1>1, <1>2, <1>6 DEF BootInv, Asked, Fresh
<1>8. extra' = extra + 1
  BY <1>0, <1>1, <1>4 DEF extra, Counted
<1>9. Placed'
  <2> SUFFICES ASSUME ~lost, NEW item \in 1..fresh
               PROVE  \E j \in 1..Len(said') : j <= item + extra' /\ said'[j] = item
    BY <1>1 DEF Placed
  <2>1. PICK j \in 1..Len(said) : j <= item + extra /\ said[j] = item
    BY DEF BootInv, Placed
  <2>2. j \in 1..Len(said') /\ j <= item + extra' /\ said'[j] = item
    BY <1>0, <1>4, <1>8, <2>1 DEF Counted
  <2> QED  BY <2>2
<1>10. StoredInTime'
  <2>1. extra' \in Int /\ late' \in Nat /\ extra' + late' >= extra + late
    BY <1>0, <1>2, <1>8 DEF Counted
  <2> QED  BY <1>1, <1>2, <2>1, StillStored, TakenStays
<1> QED  BY <1>4, <1>5, <1>7, <1>9, <1>10 DEF BootInv

---------------------------------------------------------------------------
(* The steps of the uart task on mainToUart                                *)

(* What is at the head is the next that has not been taken off.            *)
LEMMA HeadOfRequests ==
  ASSUME BootInv, mainToUart # <<>>
  PROVE  Head(mainToUart) = popped + 1 /\ Len(mainToUart) >= 1
         /\ Head(mainToUart) \in 1..GetConfDown
<1>0. Counted
  BY Numbers
<1>1. mainToUart \in Seq(1..GetConfDown)
  BY DEF BootInv, BootTypeOK, TypeOK
<1>2. Head(mainToUart) = mainToUart[1] /\ Len(mainToUart) >= 1
  BY <1>0, <1>1, HeadTailProperties DEF Counted
<1>3. 1 \in 1..Len(mainToUart)
  BY <1>0, <1>2 DEF Counted
<1>4. mainToUart[1] = popped + 1
  BY <1>3 DEF BootInv, Asked
<1>5. mainToUart[1] \in 1..GetConfDown
  BY <1>1, <1>3, ElementOfSeq
<1> QED  BY <1>2, <1>4, <1>5

(* A request is written, and is answered or lost.                          *)
LEMMA WriteKeeps ==
  ASSUME BootInv, Write
  PROVE  BootInv'
<1>0. Counted
  BY Numbers
<1> DEFINE h == Head(mainToUart)
<1>1. /\ mark = "INIT" /\ mainToUart # <<>> /\ h \in Items /\ mark' = "PEEK"
      /\ Answers(h) \/ Lose
      /\ UNCHANGED <<getConfDown, readVars, retries, appVars, queues>>
  BY DEF Write, Ready
<1>2. /\ UNCHANGED <<step, waiting, config, mqtt, late>>
      /\ UNCHANGED <<getConfDown, strings, restore, retries>>
      /\ UNCHANGED <<mainToUart, uartToMain>>
  BY <1>1 DEF appVars, readVars, queues
<1>3. h = popped + 1 /\ h \in 1..N
  BY <1>1, HeadOfRequests DEF Items
<1> HIDE DEF h
<1>4. popped' = popped
  BY <1>2 DEF popped, asked
<1>5. Asked'
  BY <1>1, <1>2, <1>4 DEF BootInv, Asked
<1>6. CASE Lose
  <2>1. lost' = TRUE /\ UNCHANGED <<wire, said, fresh, others>>
    BY <1>6 DEF Lose
  <2>2. BootTypeOK'
    BY <1>1, <1>2, <2>1 DEF BootInv, BootTypeOK, TypeOK
  <2>3. Framed' /\ Len(Unsent') = Len(Unsent)
    BY <1>2, <2>1, LinesStay
  <2>4. taken' = taken
    BY <1>2 DEF taken
  <2>5. InOrder' /\ Kept'
    BY <1>2, <2>1, <2>3, <2>4 DEF BootInv, InOrder, Kept
  <2>6. Fresh' /\ Placed' /\ StoredInTime'
    BY <2>1 DEF Fresh, Placed, StoredInTime
  <2> QED  BY <1>5, <2>2, <2>3, <2>5, <2>6 DEF BootInv
<1>7. CASE Answers(h)
  <2>1. /\ Says(h) /\ fresh' = (IF h > fresh THEN h ELSE fresh)
        /\ UNCHANGED <<others, lost>>
    BY <1>7 DEF Answers
  <2>2. h \in Lines
    BY <1>3 DEF Lines, Items
  <2>3. /\ wire' \in Seq(Bytes) /\ said' \in Seq(Lines)
        /\ Len(said') = Len(said) + 1 /\ said'[Len(said) + 1] = h
        /\ \A j \in 1..Len(said) : said'[j] = said[j]
        /\ taken' = taken
        /\ Framed' /\ InOrder' /\ Kept'
    BY <1>2, <2>1, <2>2, SaysKeeps
  <2>4. fresh' \in 0..N /\ h <= fresh' /\ fresh <= fresh' /\ fresh' \in Nat
    <3>1. CASE h > fresh
      BY <1>0, <1>3, <2>1, <3>1 DEF Counted
    <3>2. CASE ~(h > fresh)
      BY <1>0, <1>3, <2>1, <3>2 DEF Counted
    <3> QED  BY <3>1, <3>2
  <2>5. BootTypeOK'
    BY <1>1, <1>2, <2>1, <2>3, <2>4 DEF BootInv, BootTypeOK, TypeOK
  <2>6. Fresh'
    BY <1>3, <1>4, <1>0, <2>4 DEF Fresh, Counted
  <2>7. ASSUME ~lost, h > fresh
        PROVE  fresh' = fresh + 1 /\ h = fresh + 1 /\ extra' = extra
    <3>1. popped <= fresh \/ popped = GetConfDown
      BY <2>7 DEF BootInv, Fresh
    <3>2. popped <= fresh
      BY <1>0, <1>3, <3>1 DEF Counted, GetConfDown
    <3>3. fresh' = h
      BY <2>1, <2>7
    <3>4. h = fresh + 1
      BY <1>0, <1>3, <2>7, <3>2 DEF Counted
    <3> QED  BY <1>0, <2>3, <3>3, <3>4 DEF Counted, extra
  <2>8. ASSUME ~(h > fresh)
        PROVE  fresh' = fresh /\ extra' = extra + 1
    <3>1. fresh' = fresh
      BY <2>1, <2>8
    <3> QED  BY <1>0, <2>3, <3>1 DEF Counted, extra
  <2>9. ~lost => extra' >= extra
    BY <1>0, <2>7, <2>8 DEF Counted
  <2>10. extra' \in Int
    BY <2>3, <2>4, <1>0 DEF extra, Counted
  <2>11. Placed'
    <3> SUFFICES ASSUME ~lost, NEW item \in 1..fresh'
                 PROVE  \E j \in 1..Len(said') : j <= item + extra' /\ said'[j] = item
      BY <2>1 DEF Placed
    <3>1. CASE item \in 1..fresh
      <4>1. PICK j \in 1..Len(said) : j <= item + extra /\ said[j] = item
        BY <3>1 DEF BootInv, Placed
      <4>2. j \in 1..Len(said') /\ j <= item + extra' /\ said'[j] = item
        <5>1. item \in Int /\ j \in Int
          BY <1>0, <2>4 DEF Counted
        <5>2. extra \in Int /\ extra <= extra' /\ j <= item + extra
          BY <1>0, <2>9, <4>1 DEF Counted
        <5>3. \A i, n, e, f \in Int : n <= i + e /\ e <= f => n <= i + f
          OBVIOUS
        <5>4. j <= item + extra'
          BY <2>10, <5>1, <5>2, <5>3
        <5>5. j \in 1..Len(said') /\ said'[j] = item
          BY <1>0, <2>3, <4>1 DEF Counted
        <5> QED  BY <5>4, <5>5
      <4> QED  BY <4>2
    <3>2. CASE item \notin 1..fresh
      <4>1. h > fresh
        BY <1>0, <1>3, <2>8, <3>2 DEF Counted
      <4>2. fresh' = fresh + 1 /\ h = fresh + 1 /\ extra' = extra
        BY <2>7, <4>1
      <4>3. item = h /\ item + extra' = Len(said) + 1
        BY <1>0, <3>2, <4>2 DEF Counted, extra
      <4>4. Len(said) + 1 \in 1..Len(said')
        BY <1>0, <2>3 DEF Counted
      <4>5. Len(said) + 1 <= item + extra' /\ said'[Len(said) + 1] = item
        BY <1>0, <2>3, <4>3 DEF Counted
      <4> QED  BY <4>4, <4>5
    <3> QED  BY <3>1, <3>2
  <2>12. StoredInTime'
    <3>1. ~lost' => ~lost /\ extra' + late' >= extra + late
      <4> SUFFICES ASSUME ~lost' PROVE ~lost /\ extra' + late' >= extra + late
        OBVIOUS
      <4>1. ~lost /\ extra <= extra' /\ late' = late
        BY <1>2, <2>1, <2>9
      <4>2. \A e, f, l \in Int : e <= f => f + l >= e + l
        OBVIOUS
      <4>3. extra \in Int /\ late \in Int
        BY <1>0 DEF Counted
      <4>4. extra' + late >= extra + late
        BY <2>10, <4>1, <4>2, <4>3
      <4> QED  BY <4>1, <4>4
    <3>2. late' \in Nat
      BY <1>0, <1>2 DEF Counted
    <3> QED  BY <1>2, <2>10, <3>1, <3>2, StillStored, TakenStays
  <2> QED  BY <1>5, <2>3, <2>5, <2>6, <2>11, <2>12 DEF BootInv
<1> QED  BY <1>1, <1>6, <1>7

(* The uart task has looked at the head of mainToUart.                     *)
LEMMA MarkKeeps ==
  ASSUME BootInv, mainToUart # <<>>, mark' \in {"INIT", "PEEK", "RECV"},
         retries' \in Nat, getConfDown' \in BOOLEAN, getConfDown => getConfDown',
         (mark = "INIT" /\ mark' # "INIT") => Head(mainToUart) \notin Items,
         UNCHANGED <<readVars, appVars, lineVars, queues>>
  PROVE  BootInv'
<1>0. Counted
  BY Numbers
<1>1. /\ UNCHANGED <<step, waiting, config, mqtt, late>>
      /\ UNCHANGED <<strings, restore, wire, said, fresh, others, lost>>
      /\ UNCHANGED <<mainToUart, uartToMain>>
  BY DEF appVars, readVars, lineVars, queues
<1>2. BootTypeOK'
  BY <1>1 DEF BootInv, BootTypeOK, TypeOK
<1>3. Framed' /\ Len(Unsent') = Len(Unsent)
  BY <1>1, LinesStay
<1>4. taken' = taken /\ extra' = extra /\ popped' = popped
  BY <1>1 DEF taken, extra, popped, asked
<1>5. InOrder' /\ Kept'
  BY <1>1, <1>3, <1>4 DEF BootInv, InOrder, Kept
<1>6. Asked'
  BY <1>1, <1>4 DEF BootInv, Asked
<1>7. Placed'
  BY <1>1, <1>4 DEF BootInv, Placed
<1>8. Head(mainToUart) = popped + 1
  BY HeadOfRequests
<1>9. Fresh'
  BY <1>1, <1>4, <1>8 DEF BootInv, Fresh, Items
<1>10. StoredInTime'
  <2>1. extra' \in Int /\ late' \in Nat /\ extra' + late' >= extra + late
    BY <1>0, <1>1, <1>4 DEF Counted
  <2> QED  BY <1>1, <2>1, StillStored, TakenStays
<1> QED  BY <1>2, <1>3, <1>5, <1>6, <1>7, <1>9, <1>10 DEF BootInv

LEMMA ConfDownKeeps ==
  ASSUME BootInv, ConfDown
  PROVE  BootInv'
<1>1. /\ mainToUart # <<>> /\ Head(mainToUart) = GetConfDown
      /\ mark' = "PEEK" /\ getConfDown' = TRUE
      /\ UNCHANGED <<readVars, retries, appVars, lineVars, queues>>
  BY DEF ConfDown, Ready
<1>2. retries' \in Nat
  BY <1>1 DEF BootInv, BootTypeOK, TypeOK
<1>3. GetConfDown \notin Items
  BY Numbers DEF Counted, GetConfDown, Items
<1> QED  BY <1>1, <1>2, <1>3, MarkKeeps

LEMMA TimedOutKeeps ==
  ASSUME BootInv, TimedOut
  PROVE  BootInv'
<1>1. /\ mainToUart # <<>> /\ mark' = "INIT" /\ retries' = retries + 1
      /\ UNCHANGED <<getConfDown, readVars, appVars, lineVars, queues>>
  BY DEF TimedOut, Ready
<1>2. retries' \in Nat /\ getConfDown' \in BOOLEAN
  BY <1>1 DEF BootInv, BootTypeOK, TypeOK
<1> QED  BY <1>1, <1>2, MarkKeeps

(* The head is taken off, and it has been answered.                        *)
LEMMA AnsweredKeeps ==
  ASSUME BootInv, Answered
  PROVE  BootInv'
<1>0. Counted
  BY Numbers
<1>1. /\ mark = "RECV" /\ mainToUart # <<>>
      /\ mark' = "INIT" /\ mainToUart' = Tail(mainToUart)
      /\ UNCHANGED <<getConfDown, readVars, retries, uartToMain, appVars, lineVars>>
  BY DEF Answered, Ready
<1>2. /\ UNCHANGED <<step, waiting, config, mqtt, late>>
      /\ UNCHANGED <<strings, restore, wire, said, fresh, others, lost>>
      /\ UNCHANGED <<getConfDown, retries, uartToMain>>
  BY <1>1 DEF appVars, readVars, lineVars
<1>3. mainToUart \in Seq(1..GetConfDown)
  BY DEF BootInv, BootTypeOK, TypeOK
<1>4. /\ mainToUart' \in Seq(1..GetConfDown) /\ Len(mainToUart') = Len(mainToUart) - 1
      /\ \A i \in 1..Len(mainToUart') : mainToUart'[i] = mainToUart[i + 1]
  BY <1>0, <1>1, <1>3, HeadTailProperties DEF Counted
<1>5. BootTypeOK'
  BY <1>1, <1>2, <1>4 DEF BootInv, BootTypeOK, TypeOK
<1>6. Framed' /\ Len(Unsent') = Len(Unsent)
  BY <1>2, LinesStay
<1>7. taken' = taken /\ extra' = extra
  BY <1>2 DEF taken, extra
<1>8. popped' = popped + 1
  BY <1>0, <1>2, <1>4 DEF popped, asked, Counted
<1>9. InOrder' /\ Kept'
  BY <1>2, <1>6, <1>7 DEF BootInv, InOrder, Kept
<1>10. Asked'
  <2>1. ASSUME NEW i \in 1..Len(mainToUart') PROVE mainToUart'[i] = popped' + i
    <3>1. i + 1 \in 1..Len(mainToUart)
      BY <1>0, <1>4 DEF Counted
    <3>2. mainToUart[i + 1] = popped + (i + 1)
      BY <3>1 DEF BootInv, Asked
    <3> QED  BY <1>0, <1>4, <1>8, <3>2 DEF Counted
  <2>2. popped' >= 0
    BY <1>0, <1>8 DEF Counted, BootInv, Asked
  <2> QED  BY <1>1, <2>1, <2>2 DEF Asked
<1>11. Fresh'
  <2>1. popped + 1 \in 1..GetConfDown
    BY <1>1, HeadOfRequests
  <2>2. ASSUME ~lost PROVE popped' <= fresh' \/ popped' = GetConfDown
    <3>1. popped + 1 \in Items => popped + 1 <= fresh
      BY <1>1, <2>2 DEF BootInv, Fresh
    <3>2. popped + 1 \in Items \/ popped + 1 = GetConfDown
      BY <1>0, <2>1 DEF Items, GetConfDown, Counted
    <3> QED  BY <1>2, <1>8, <3>1, <3>2
  <2> QED  BY <1>1, <1>2, <2>2 DEF Fresh
<1>12. Placed'
  BY <1>2, <1>7 DEF BootInv, Placed
<1>13. StoredInTime'
  <2>1. extra' \in Int /\ late' \in Nat /\ extra' + late' >= extra + late
    BY <1>0, <1>2, <1>7 DEF Counted
  <2> QED  BY <1>2, <2>1, StillStored, TakenStays
<1> QED  BY <1>5, <1>6, <1>9, <1>10, <1>11, <1>12, <1>13 DEF BootInv

---------------------------------------------------------------------------
(* The steps of the uart task on the bytes it reads                        *)

(* A step that moves bytes, and changes nothing else.                      *)
LEMMA BytesMoved ==
  ASSUME BootInv, Unsent' = Unsent,
         wire' \in Seq(Bytes), strings' \in Seq(Bytes), restore' \in Seq(Bytes),
         Len(restore') <= 2, strings' # <<>> => restore' = <<>>,
         UNCHANGED <<mark, getConfDown, retries, said, fresh, others, lost, appVars, queues>>
  PROVE  BootInv'
<1>0. Counted
  BY Numbers
<1>1. /\ UNCHANGED <<step, waiting, config, mqtt, late>>
      /\ UNCHANGED <<mainToUart, uartToMain>>
  BY DEF appVars, queues
<1>2. BootTypeOK'
  BY <1>1 DEF BootInv, BootTypeOK, TypeOK
<1>3. Framed'
  BY DEF BootInv, Framed, Lined
<1>4. taken' = taken /\ extra' = extra /\ popped' = popped
  BY <1>1 DEF taken, extra, popped, asked
<1>5. InOrder' /\ Kept'
  BY <1>1, <1>4 DEF BootInv, InOrder, Kept
<1>6. Asked' /\ Fresh'
  BY <1>1, <1>4 DEF BootInv, Asked, Fresh
<1>7. Placed'
  BY <1>4 DEF BootInv, Placed
<1>8. StoredInTime'
  <2>1. extra' \in Int /\ late' \in Nat /\ extra' + late' >= extra + late
    BY <1>0, <1>1, <1>4 DEF Counted
  <2> QED  BY <1>1, <2>1, StillStored, TakenStays
<1> QED  BY <1>2, <1>3, <1>5, <1>6, <1>7, <1>8 DEF BootInv

LEMMA UartReadKeeps ==
  ASSUME BootInv, UartRead
  PROVE  BootInv'
<1>1. TypeOK /\ Framed
  BY DEF BootInv, BootTypeOK
<1>2. /\ wire' \in Seq(Bytes) /\ strings' \in Seq(Bytes)
      /\ restore' = <<>> /\ Unsent' = Unsent
  BY <1>1, ReadBytes
<1>3. UNCHANGED <<mark, getConfDown, retries, said, fresh, others, lost, appVars, queues>>
  BY DEF UartRead
<1>4. restore' \in Seq(Bytes) /\ Len(restore') <= 2
  BY <1>2
<1> QED  BY <1>2, <1>3, <1>4, BytesMoved

LEMMA UartKeepKeeps ==
  ASSUME BootInv, UartKeep
  PROVE  BootInv'
<1>1. TypeOK /\ Framed
  BY DEF BootInv, BootTypeOK
<1>2. /\ restore' \in Seq(Bytes) /\ strings' = <<>> /\ wire' = wire
      /\ Unsent' = Unsent /\ Len(restore') <= 2
  BY <1>1, KeepBytes
<1>3. UNCHANGED <<mark, getConfDown, retries, said, fresh, others, lost, appVars, queues>>
  BY DEF UartKeep
<1>4. wire' \in Seq(Bytes) /\ strings' \in Seq(Bytes)
  BY <1>1, <1>2 DEF TypeOK
<1> QED  BY <1>2, <1>3, <1>4, BytesMoved

(* A line is sent on to app_main, or to mqtt.                              *)
LEMMA UartSendLineKeeps ==
  ASSUME BootInv, UartSendLine
  PROVE  BootInv'
<1>0. Counted
  BY Numbers
<1> DEFINE l == strings[1]
<1>1. TypeOK /\ Framed
  BY DEF BootInv, BootTypeOK
<1>2. /\ strings' \in Seq(Bytes) /\ restore = <<>> /\ restore' = <<>> /\ wire' = wire
      /\ Len(Unsent) >= 3 /\ Len(Unsent') = Len(Unsent) - 3
      /\ Lined'
      /\ SendsOn(l) /\ l \in Lines /\ said' = said
      /\ \E k \in 1..Len(said) :
            Len(Unsent) = 3 * k /\ l = said[Len(said) - k + 1]
      /\ mark' = IF mark = "PEEK" /\ l \in Items THEN "RECV" ELSE mark
  BY <1>1, SendLineBytes
<1> HIDE DEF l
<1>3. UNCHANGED <<restore, getConfDown, retries, mainToUart, appVars, lineVars>>
  BY DEF UartSendLine
<1>4. /\ UNCHANGED <<step, waiting, config, mqtt, late>>
      /\ UNCHANGED <<wire, said, fresh, others, lost>>
  BY <1>3 DEF appVars, lineVars
<1>5. uartToMain \in Seq(Lines) /\ Len(uartToMain) <= MainLen
  BY <1>1 DEF TypeOK
<1>6. mark' \in {"INIT", "PEEK", "RECV"} /\ (mark' # "INIT" => mark # "INIT")
  BY <1>1, <1>2 DEF TypeOK
<1>7. /\ uartToMain' \in Seq(Lines) /\ Len(uartToMain') <= MainLen
      /\ getConfDown => uartToMain' = uartToMain
      /\ ~getConfDown => /\ uartToMain' = Append(uartToMain, l)
                         /\ Len(uartToMain') = Len(uartToMain) + 1
                         /\ uartToMain'[Len(uartToMain) + 1] = l
                         /\ \A i \in 1..Len(uartToMain) : uartToMain'[i] = uartToMain[i]
  <2>1. CASE getConfDown
    BY <1>2, <1>5, <2>1 DEF SendsOn
  <2>2. CASE ~getConfDown
    <3>1. Len(uartToMain) < MainLen /\ uartToMain' = Append(uartToMain, l)
      BY <1>2, <2>2 DEF SendsOn
    <3>2. /\ uartToMain' \in Seq(Lines) /\ Len(uartToMain') = Len(uartToMain) + 1
          /\ uartToMain'[Len(uartToMain) + 1] = l
          /\ \A i \in 1..Len(uartToMain) : uartToMain'[i] = uartToMain[i]
      BY <1>2, <1>5, <3>1
    <3>3. Len(uartToMain') <= MainLen
      BY <1>0, <3>1, <3>2 DEF Counted
    <3> QED  BY <2>2, <3>1, <3>2, <3>3
  <2> QED  BY <2>1, <2>2
<1>8. BootTypeOK'
  BY <1>1, <1>2, <1>3, <1>4, <1>6, <1>7 DEF BootInv, BootTypeOK, TypeOK
<1>9. Framed'
  <2>1. Len(restore') <= 2
    BY <1>2
  <2> QED  BY <1>2, <2>1 DEF Framed
<1>10. taken' = taken /\ extra' = extra /\ popped' = popped
  BY <1>3, <1>4 DEF taken, extra, popped, asked
<1>11. InOrder'
  <2>1. CASE getConfDown
    BY <1>3, <1>4, <1>7, <1>10, <2>1 DEF BootInv, InOrder
  <2>2. CASE ~getConfDown
    <3>1. PICK k \in 1..Len(said) : Len(Unsent) = 3 * k /\ l = said[Len(said) - k + 1]
      BY <1>2
    <3>2. Len(Unsent) = 3 * (Len(said) - taken - Len(uartToMain))
      BY <2>2 DEF BootInv, InOrder
    <3>3. \A m, n \in Int : 3 * m = 3 * n => m = n
      OBVIOUS
    <3>4. Len(said) - taken - Len(uartToMain) \in Int /\ k \in Int
      BY <1>0 DEF Counted
    <3>5. k = Len(said) - taken - Len(uartToMain)
      BY <3>1, <3>2, <3>3, <3>4
    <3>6. Len(said) - k + 1 = taken + (Len(uartToMain) + 1)
      BY <1>0, <3>4, <3>5 DEF Counted
    <3>7. l = said[taken + (Len(uartToMain) + 1)]
      BY <3>1, <3>6
    <3>8. taken' >= 0 /\ taken' + Len(uartToMain') <= Len(said')
      <4>1. Len(uartToMain') = Len(uartToMain) + 1
        BY <1>7, <2>2
      <4>2. taken + (Len(uartToMain) + 1) <= Len(said)
        BY <1>0, <3>4, <3>6 DEF Counted
      <4> QED  BY <1>0, <1>4, <1>10, <4>1, <4>2 DEF Counted
    <3>9. ASSUME NEW i \in 1..Len(uartToMain') PROVE uartToMain'[i] = said'[taken' + i]
      <4>1. CASE i \in 1..Len(uartToMain)
        BY <1>4, <1>7, <1>10, <2>2, <4>1 DEF BootInv, InOrder
      <4>2. CASE i = Len(uartToMain) + 1
        BY <1>4, <1>7, <1>10, <2>2, <3>7, <4>2
      <4> QED  BY <1>0, <1>7, <2>2, <4>1, <4>2 DEF Counted
    <3>10. Len(Unsent') = 3 * (Len(said') - taken' - Len(uartToMain'))
      <4>1. \A n, t, u \in Int : 3 * (n - t - u) - 3 = 3 * (n - t - (u + 1))
        OBVIOUS
      <4>2. Len(Unsent') = 3 * (Len(said) - taken - Len(uartToMain)) - 3
        BY <1>2, <3>2
      <4>3. Len(Unsent') = 3 * (Len(said) - taken - (Len(uartToMain) + 1))
        BY <1>0, <4>1, <4>2 DEF Counted
      <4>4. Len(said') = Len(said) /\ Len(uartToMain') = Len(uartToMain) + 1
        BY <1>4, <1>7, <2>2
      <4> QED  BY <1>10, <4>3, <4>4
    <3> QED  BY <3>8, <3>9, <3>10 DEF InOrder
  <2> QED  BY <2>1, <2>2
<1>12. Asked' /\ Fresh'
  BY <1>3, <1>4, <1>6, <1>10 DEF BootInv, Asked, Fresh
<1>13. Placed' /\ Kept'
  BY <1>4, <1>10 DEF BootInv, Placed, Kept
<1>14. StoredInTime'
  <2>1. extra' \in Int /\ late' \in Nat /\ extra' + late' >= extra + late
    BY <1>0, <1>4, <1>10 DEF Counted
  <2> QED  BY <1>4, <2>1, StillStored, TakenStays
<1> QED  BY <1>8, <1>9, <1>11, <1>12, <1>13, <1>14 DEF BootInv

---------------------------------------------------------------------------
(* The invariant and what follows from it                                  *)

LEMMA InitHolds ==
  ASSUME Init
  PROVE  BootInv
<1>1. /\ step = 1 /\ waiting = FALSE /\ config = {} /\ mqtt = {}
      /\ mainToUart = <<>> /\ uartToMain = <<>>
      /\ mark = "INIT" /\ getConfDown = FALSE
      /\ wire = <<>> /\ strings = <<>> /\ restore = <<>>
      /\ retries = 0 /\ said = <<>> /\ fresh = 0 /\ others = 0 /\ late = 0
      /\ lost = FALSE
  BY DEF Init
<1>2. N \in Nat /\ N >= 1 /\ MainLen \in Nat /\ MainLen >= 1
  BY BootAssumption
<1>3. TypeOK
  <2>1. step \in 1..(N+2) /\ fresh \in 0..N /\ Len(uartToMain) <= MainLen
    BY <1>1, <1>2
  <2>2. /\ mainToUart \in Seq(1..GetConfDown) /\ uartToMain \in Seq(Lines)
        /\ wire \in Seq(Bytes) /\ strings \in Seq(Bytes) /\ restore \in Seq(Bytes)
        /\ said \in Seq(Lines)
    BY <1>1, EmptySeq
  <2>3. waiting \in BOOLEAN /\ getConfDown \in BOOLEAN /\ lost \in BOOLEAN
        /\ config \subseteq Items /\ mqtt \subseteq Items
        /\ mark \in {"INIT", "PEEK", "RECV"}
    BY <1>1
  <2>4. retries \in Nat /\ others \in Nat /\ late \in Nat
    BY <1>1
  <2> QED  BY <2>1, <2>2, <2>3, <2>4 DEF TypeOK
<1>4. BootTypeOK
  BY <1>1, <1>2, <1>3 DEF BootTypeOK
<1>5. Len(Unsent) = 0 /\ Len(said) = 0
  BY <1>1, <1>3, UnsentType
<1>6. Framed
  <2>1. 0 \in 0..Len(said) /\ Len(Unsent) = 3 * 0
    BY <1>5
  <2>2. Lined
    BY <2>1 DEF Lined
  <2> QED  BY <1>1, <2>2 DEF Framed
<1>7. taken = 0 /\ asked = 0 /\ popped = 0 /\ Len(uartToMain) = 0 /\ Len(mainToUart) = 0
  BY <1>1 DEF taken, asked, popped
<1>8. InOrder
  BY <1>5, <1>7 DEF InOrder
<1>9. Asked /\ Fresh /\ Placed /\ Kept
  BY <1>1, <1>7 DEF Asked, Fresh, Placed, Kept
<1>10. StoredInTime
  BY <1>1, <1>2 DEF StoredInTime, Taken, GetConfDown
<1> QED  BY <1>4, <1>6, <1>8, <1>9, <1>10 DEF BootInv

LEMMA NextKeeps ==
  ASSUME BootInv, [Next]_vars
  PROVE  BootInv'
<1>1. CASE Ask            BY <1>1, AskKeeps
<1>2. CASE InitMqtt       BY <1>2, InitMqttKeeps
<1>3. CASE Search         BY <1>3, SearchKeeps
<1>4. CASE NoAnswer       BY <1>4, NoAnswerKeeps
<1>5. CASE ModuleSpeaks   BY <1>5, ModuleSpeaksKeeps
<1>6. CASE Write          BY <1>6, WriteKeeps
<1>7. CASE ConfDown       BY <1>7, ConfDownKeeps
<1>8. CASE TimedOut       BY <1>8, TimedOutKeeps
<1>9. CASE Answered       BY <1>9, AnsweredKeeps
<1>10. CASE UartRead      BY <1>10, UartReadKeeps
<1>11. CASE UartKeep      BY <1>11, UartKeepKeeps
<1>12. CASE UartSendLine  BY <1>12, UartSendLineKeeps
<1>13. CASE UNCHANGED vars
  <2>1. UNCHANGED <<appVars, uartVars, lineVars, queues>>
    BY <1>13 DEF vars
  <2>2. UNCHANGED <<mark, getConfDown, retries, said, fresh, others, lost, appVars, queues>>
    BY <2>1 DEF uartVars, lineVars
  <2>3. UNCHANGED <<wire, strings, restore>>
    BY <2>1 DEF uartVars, readVars, lineVars
  <2>4. Unsent' = Unsent
    BY <2>3 DEF Unsent
  <2>5. /\ wire' \in Seq(Bytes) /\ strings' \in Seq(Bytes) /\ restore' \in Seq(Bytes)
        /\ Len(restore') <= 2 /\ (strings' # <<>> => restore' = <<>>)
    BY <2>3 DEF BootInv, BootTypeOK, TypeOK, Framed
  <2> QED  BY <2>2, <2>4, <2>5, BytesMoved
<1> QED
  BY <1>1, <1>2, <1>3, <1>4, <1>5, <1>6, <1>7, <1>8, <1>9, <1>10, <1>11, <1>12, <1>13
  DEF Next, app_main, UartSelectTask, UartRecvParse

THEOREM BootInvariant == Spec => []BootInv
<1>1. Init => BootInv
  BY InitHolds
<1>2. BootInv /\ [Next]_vars => BootInv'
  BY NextKeeps
<1> QED  BY <1>1, <1>2, PTL DEF Spec

(* The variables keep their types, and uartToMain never holds more than it *)
(* was made for, whatever app_main, the uart task and the module do.       *)
THEOREM BootTypes == Spec => []TypeOK
<1>1. BootInv => TypeOK
  BY DEF BootInv, BootTypeOK
<1> QED  BY <1>1, BootInvariant, PTL

(* Wherever the reads end and whatever UartRecvParse keeps in restore, the *)
(* lines in uartToMain are those the module said, whole, once each and in  *)
(* order, and the bytes not yet sent on are the rest of them.              *)
THEOREM LinesInOrder == Spec => []ReadsInOrder
<1>1. ASSUME BootInv PROVE ReadsInOrder
  <2>0. Counted
    BY <1>1, Numbers
  <2>1. Len(restore) < LineLen
    <3>1. Len(restore) <= 2 /\ Len(restore) \in Nat
      BY <1>1 DEF BootInv, BootTypeOK, TypeOK, Framed
    <3> QED  BY <3>1 DEF LineLen
  <2> DEFINE sent == taken + Len(uartToMain)
             k == Len(said) - sent
  <2>2. ASSUME ~getConfDown
        PROVE  /\ Len(Unsent) = 3 * k
               /\ \A i \in 1..Len(uartToMain) : uartToMain[i] = said[taken + i]
               /\ \A i \in 1..k : \A b \in 1..3 :
                     Unsent[3 * (i - 1) + b] = Spelled(said[sent + i])[b]
    <3>1. /\ Len(Unsent) = 3 * (Len(said) - taken - Len(uartToMain))
          /\ \A i \in 1..Len(uartToMain) : uartToMain[i] = said[taken + i]
      BY <1>1, <2>2 DEF BootInv, InOrder
    <3>2. /\ k = Len(said) - taken - Len(uartToMain) /\ k \in Int /\ sent \in Int
          /\ Len(said) - k = sent
      BY <2>0 DEF Counted
    <3> HIDE DEF k, sent
    <3>3. Len(Unsent) = 3 * k
      BY <3>1, <3>2
    <3>4. PICK m \in 0..Len(said) :
            /\ Len(Unsent) = 3 * m
            /\ \A i \in 1..m :
                /\ Unsent[3 * i - 2] = said[Len(said) - m + i]
                /\ Unsent[3 * i - 1] = CR
                /\ Unsent[3 * i] = LF
      BY <1>1 DEF BootInv, Framed, Lined
    <3>5. m = k
      <4>1. \A x, y \in Int : 3 * x = 3 * y => x = y
        OBVIOUS
      <4>2. m \in Int
        BY <2>0 DEF Counted
      <4> QED  BY <3>2, <3>3, <3>4, <4>1, <4>2
    <3>6. ASSUME NEW i \in 1..k
          PROVE  \A b \in 1..3 : Unsent[3 * (i - 1) + b] = Spelled(said[sent + i])[b]
      <4>1. /\ Unsent[3 * i - 2] = said[sent + i]
            /\ Unsent[3 * i - 1] = CR /\ Unsent[3 * i] = LF
        BY <3>2, <3>4, <3>5
      <4>2. /\ 3 * (i - 1) + 1 = 3 * i - 2 /\ 3 * (i - 1) + 2 = 3 * i - 1
            /\ 3 * (i - 1) + 3 = 3 * i
        BY <3>2
      <4>3. /\ Spelled(said[sent + i])[1] = said[sent + i]
            /\ Spelled(said[sent + i])[2] = CR /\ Spelled(said[sent + i])[3] = LF
        BY DEF Spelled
      <4>4. ASSUME NEW b \in 1..3
            PROVE  Unsent[3 * (i - 1) + b] = Spelled(said[sent + i])[b]
        <5>1. CASE b = 1  BY <4>1, <4>2, <4>3, <5>1
        <5>2. CASE b = 2  BY <4>1, <4>2, <4>3, <5>2
        <5>3. CASE b = 3  BY <4>1, <4>2, <4>3, <5>3
        <5> QED  BY <5>1, <5>2, <5>3
      <4> QED  BY <4>4
    <3> QED  BY <3>1, <3>3, <3>6
  <2> QED  BY <2>1, <2>2 DEF ReadsInOrder, LineLen, taken
<1> QED  BY <1>1, BootInvariant, PTL

(* Every item with as many requests behind it as there were lines too many *)
(* and waits too short is among what MQTTInit is given, when neither a     *)
(* request nor its answer has been lost.                                   *)
THEOREM ConfigInTime == Spec => []StoredInTime
<1>1. BootInv => StoredInTime
  BY DEF BootInv
<1> QED  BY <1>1, BootInvariant, PTL

(* Though app_main stops reading, all that has not been sent on still has  *)
(* room in uartToMain, so the uart task gets to GetConfDown, unless more   *)
(* lines have been said in vain than the queue holds.                      *)
THEOREM RoomForTheRest == Spec => []RoomToTheEnd
<1>1. ASSUME BootInv, step = N + 2, ~getConfDown, extra + late <= MainLen + 1
      PROVE  LineLen * Len(uartToMain) + Len(Unsent) <= LineLen * MainLen
  <2>0. Counted
    BY <1>1, Numbers
  <2>1. Len(Unsent) = 3 * (Len(said) - taken - Len(uartToMain))
    BY <1>1 DEF BootInv, InOrder
  <2>2. Len(said) - taken <= MainLen
    BY <1>1, <2>0 DEF Counted, taken, extra
  <2>3. \A u, n, t \in Int : 3 * u + 3 * (n - t - u) = 3 * (n - t)
    OBVIOUS
  <2>4. 3 * Len(uartToMain) + Len(Unsent) = 3 * (Len(said) - taken)
    BY <2>0, <2>1, <2>3 DEF Counted
  <2>5. 3 * (Len(said) - taken) <= 3 * MainLen
    BY <2>0, <2>2 DEF Counted
  <2> QED  BY <2>4, <2>5 DEF LineLen
<1>2. BootInv => RoomToTheEnd
  BY <1>1 DEF RoomToTheEnd
<1> QED  BY <1>2, BootInvariant, PTL
---------------------------------------------------------------------------
(* How often the module is asked.  No more items are answered than have    *)
(* been taken off, but for the one in front; and when that one is about to *)
(* be written although it has been answered, the task has timed out.       *)
Repeats ==
    /\ fresh <= popped + 1
    /\ extra <= retries + others
    /\ (mark = "INIT" /\ popped + 1 <= fresh) => extra + 1 <= retries + others

LEMMA Bounds ==
  ASSUME BootInv
  PROVE  /\ fresh \in Int /\ popped \in Int /\ extra \in Int /\ Len(said) \in Int
         /\ retries \in Nat /\ others \in Nat
<1>1. Counted
  BY Numbers
<1>2. retries \in Nat /\ others \in Nat
  BY DEF BootInv, BootTypeOK, TypeOK
<1> QED  BY <1>1, <1>2 DEF Counted

(* A step that says no line and writes no request.                         *)
LEMMA RepeatsStay ==
  ASSUME BootInv, Repeats, UNCHANGED <<said, fresh, others, popped>>,
         \/ retries' = retries /\ (mark' = "INIT" => mark = "INIT")
         \/ retries' = retries + 1
  PROVE  Repeats'
<1>1. extra' = extra
  BY DEF extra
<1>2. /\ fresh \in Int /\ popped \in Int /\ extra \in Int
      /\ retries \in Nat /\ others \in Nat
  BY Bounds
<1> QED  BY <1>1, <1>2 DEF Repeats

LEMMA WriteRepeats ==
  ASSUME BootInv, Repeats, Write
  PROVE  Repeats'
<1>0. /\ fresh \in Int /\ popped \in Int /\ extra \in Int /\ Len(said) \in Int
      /\ retries \in Nat /\ others \in Nat
  BY Bounds
<1>1. /\ mark = "INIT" /\ mainToUart # <<>> /\ mark' = "PEEK" /\ retries' = retries
      /\ Answers(Head(mainToUart)) \/ Lose
      /\ UNCHANGED <<step, waiting, mainToUart>>
  BY DEF Write, Ready, appVars, queues
<1>2. popped' = popped
  BY <1>1 DEF popped, asked
<1>3. CASE Lose
  BY <1>0, <1>1, <1>2, <1>3 DEF Lose, Repeats, extra
<1>4. CASE Answers(Head(mainToUart))
  <2>1. Head(mainToUart) = popped + 1
    BY <1>1, HeadOfRequests
  <2>2. /\ said' = Append(said, Head(mainToUart)) /\ others' = others
        /\ fresh' = IF popped + 1 > fresh THEN popped + 1 ELSE fresh
    BY <1>4, <2>1 DEF Answers, Says
  <2>3. said \in Seq(Lines)
    BY DEF BootInv, BootTypeOK, TypeOK
  <2>4. Len(said') = Len(said) + 1
    BY <2>2, <2>3
  <2>5. CASE popped + 1 > fresh
    <3>1. fresh' = popped + 1 /\ extra' <= extra
      BY <1>0, <2>2, <2>4, <2>5 DEF extra
    <3>2. extra' \in Int
      BY <1>0, <2>4, <3>1 DEF extra
    <3> QED  BY <1>0, <1>1, <1>2, <2>2, <3>1, <3>2 DEF Repeats
  <2>6. CASE ~(popped + 1 > fresh)
    <3>1. fresh' = fresh /\ extra' = extra + 1
      BY <1>0, <2>2, <2>4, <2>6 DEF extra
    <3>2. extra + 1 <= retries + others
      BY <1>0, <1>1, <2>6 DEF Repeats
    <3> QED  BY <1>0, <1>1, <1>2, <2>2, <3>1, <3>2 DEF Repeats
  <2> QED  BY <2>5, <2>6
<1> QED  BY <1>1, <1>3, <1>4

LEMMA AnsweredRepeats ==
  ASSUME BootInv, Repeats, Answered
  PROVE  Repeats'
<1>0. /\ fresh \in Int /\ popped \in Int /\ extra \in Int
      /\ retries \in Nat /\ others \in Nat
  BY Bounds
<1>1. /\ mainToUart # <<>> /\ mainToUart' = Tail(mainToUart)
      /\ UNCHANGED <<retries, step, waiting, said, fresh, others>>
  BY DEF Answered, Ready, appVars, lineVars
<1>2. mainToUart \in Seq(1..GetConfDown)
  BY DEF BootInv, BootTypeOK, TypeOK
<1>3. Len(mainToUart') = Len(mainToUart) - 1 /\ Len(mainToUart) \in Nat
  BY <1>1, <1>2, HeadTailProperties
<1>4. asked \in Int
  BY Numbers DEF Counted
<1>5. popped' = popped + 1
  BY <1>1, <1>3, <1>4 DEF popped, asked
<1> QED  BY <1>0, <1>1, <1>5 DEF Repeats, extra

LEMMA ModuleSpeaksRepeats ==
  ASSUME BootInv, Repeats, ModuleSpeaks
  PROVE  Repeats'
<1>0. /\ fresh \in Int /\ popped \in Int /\ extra \in Int /\ Len(said) \in Int
      /\ retries \in Nat /\ others \in Nat
  BY Bounds
<1>1. /\ said' = Append(said, Other) /\ others' = others + 1
      /\ UNCHANGED <<fresh, step, waiting, mark, retries, mainToUart>>
  BY DEF ModuleSpeaks, Says, appVars, uartVars, queues
<1>2. said \in Seq(Lines)
  BY DEF BootInv, BootTypeOK, TypeOK
<1>3. Len(said') = Len(said) + 1
  BY <1>1, <1>2
<1>4. popped' = popped /\ extra' = extra + 1
  BY <1>0, <1>1, <1>3 DEF popped, asked, extra
<1> QED  BY <1>0, <1>1, <1>4 DEF Repeats

(* app_main asks and goes on; neither takes anything off mainToUart.       *)
LEMMA AppRepeats ==
  ASSUME BootInv, Repeats, app_main
  PROVE  Repeats'
<1>0. Counted
  BY Numbers
<1>1. mainToUart \in Seq(1..GetConfDown)
  BY DEF BootInv, BootTypeOK, TypeOK
<1>2. /\ UNCHANGED <<said, fresh, others, mark, retries>>
  BY DEF app_main, Ask, InitMqtt, Search, NoAnswer, uartVars, lineVars
<1>3. popped' = popped
  <2>1. CASE Ask \/ InitMqtt
    <3>1. Len(mainToUart') = Len(mainToUart) + 1 /\ ~waiting /\ waiting' /\ step' = step
      BY <1>1, <2>1 DEF Ask, InitMqtt
    <3> QED  BY <1>0, <3>1 DEF popped, asked, Counted
  <2>2. CASE Search \/ NoAnswer
    <3>1. mainToUart' = mainToUart /\ waiting /\ ~waiting' /\ step' = step + 1
      BY <2>2 DEF Search, NoAnswer, queues
    <3> QED  BY <1>0, <3>1 DEF popped, asked, Counted
  <2> QED  BY <2>1, <2>2 DEF app_main
<1> QED  BY <1>2, <1>3, RepeatsStay

LEMMA NextRepeats ==
  ASSUME BootInv, Repeats, [Next]_vars
  PROVE  Repeats'
<1>1. CASE app_main        BY <1>1, AppRepeats
<1>2. CASE ModuleSpeaks    BY <1>2, ModuleSpeaksRepeats
<1>3. CASE Write           BY <1>3, WriteRepeats
<1>4. CASE Answered        BY <1>4, AnsweredRepeats
<1>5. CASE ConfDown \/ TimedOut \/ UartRead \/ UartRecvParse \/ UNCHANGED vars
  <2>1. UNCHANGED <<said, fresh, others, step, waiting, mainToUart>>
    BY <1>5 DEF ConfDown, TimedOut, UartRead, UartRecvParse, UartKeep, UartSendLine,
                vars, appVars, uartVars, lineVars, queues
  <2>2. popped' = popped
    BY <2>1 DEF popped, asked
  <2>3. \/ retries' = retries /\ (mark' = "INIT" => mark = "INIT")
        \/ retries' = retries + 1
    BY <1>5 DEF ConfDown, TimedOut, UartRead, UartRecvParse, UartKeep, UartSendLine,
                vars, uartVars
  <2> QED  BY <2>1, <2>2, <2>3, RepeatsStay
<1> QED  BY <1>1, <1>2, <1>3, <1>4, <1>5 DEF Next, UartSelectTask

(* However the answers and the timeouts race, a line too many is one that  *)
(* nobody asked for or the answer to a request that the uart task wrote    *)
(* again (uart.c 823-853): together with ConfigInTime, it takes a timeout, *)
(* a wait too short or such a line to move an item out of reach of mqtt.   *)
THEOREM SlipsAreRepeats == Spec => []SlipsHaveCauses
<1>1. Init => Repeats
  <2> SUFFICES ASSUME Init PROVE Repeats
    OBVIOUS
  <2>1. /\ popped = 0 /\ fresh = 0 /\ Len(said) = 0 /\ retries = 0 /\ others = 0
    BY DEF Init, popped, asked
  <2> QED  BY <2>1 DEF Repeats, extra
<1>2. Repeats => SlipsHaveCauses
  BY DEF Repeats, SlipsHaveCauses
<1>3. BootInv /\ Repeats /\ [Next]_vars => Repeats'
  BY NextRepeats
<1> QED  BY <1>1, <1>2, <1>3, BootInvariant, PTL DEF Spec
=============================================================================
